--------------------------- MODULE ReadingsProofs ---------------------------
(***************************************************************************)
(* What the boxes of the dashboard read.  What is shown as booked is what  *)
(* the scheduler has booked, or will be once the lines that are still to   *)
(* come are read.  And the bars: the largest remainders fill a bar to the  *)
(* cell whatever it is drawn from, and what each bar is drawn from is      *)
(* never more than it stands for.                                          *)
(***************************************************************************)
EXTENDS DashboardProofs

-----------------------------------------------------------------------------
(* What a record does to the costs that are shown, and whether the node of *)
(* a task shows what the task's entry does.                                *)

\* A node that may run, at a cost.
Rated(n) == {"in_progress", "mem_estimate"} \subseteq DOMAIN n /\ n.mem_estimate \in Nat

Costed(s) ==
    /\ \A k \in DOMAIN s.tree : Rated(s.tree[k])
    /\ \A p \in DOMAIN s.active : "mem" \in DOMAIN s.active[p] /\ s.active[p].mem \in Nat

\* A node that is shown running has the threads of its entry, once that has any.
InStep(e, n) == n.in_progress /\ e.threads # 0 => Loans(n) = Loans(e)

Mirrors(s) ==
    \A p \in DOMAIN s.active :
        s.active[p].node # NoKey => InStep(s.active[p], s.tree[s.active[p].node])

\* A node stops, or goes on as it was.
Rests(m, n) ==
    /\ Rated(n)
    /\ n.mem_estimate = m.mem_estimate
    /\ n.in_progress => m.in_progress /\ Loans(n) = Loans(m)

RestsBut(t, u, keys) ==
    /\ DOMAIN u = DOMAIN t
    /\ \A k \in DOMAIN t \ keys : Rests(t[k], u[k])

\* The cost an entry is shown with after r.
ShownCost(s, r, p) == IF Books(r) /\ p = r.pid THEN r.mem ELSE EntryOf(s, p).mem

Joins(r) == r.fn = "node_process" /\ r.action = "joining"

\* A node has the cost it had, none, that of its entry or the one its worker logs.
CostFrom(s, u, r, k) ==
    LET m == u.tree[k].mem_estimate
    IN  \/ m = 0
        \/ k \in DOMAIN s.tree /\ m = s.tree[k].mem_estimate
        \/ Joins(r) /\ k = r.key /\ m = r.mem
        \/ \E p \in DOMAIN u.active : k = KeyOf[p] /\ m = u.active[p].mem

Copied(s, u, r) ==
    /\ Costed(u)
    /\ Mirrors(u)
    /\ \A p \in DOMAIN u.active : u.active[p].mem = ShownCost(s, r, p)
    /\ \A k \in DOMAIN u.tree : CostFrom(s, u, r, k)

LEMMA RestsSelf ==
    ASSUME NEW t, \A k \in DOMAIN t : Rated(t[k])
    PROVE  RestsBut(t, t, {})
BY DEF RestsBut, Rests

LEMMA RestsThen ==
    ASSUME NEW t, NEW u, NEW v, NEW keys, RestsBut(t, u, keys), RestsBut(u, v, keys)
    PROVE  RestsBut(t, v, keys)
<1> SUFFICES ASSUME NEW k \in DOMAIN t \ keys PROVE Rests(t[k], v[k])
    BY DEF RestsBut
<1>1. Rests(t[k], u[k]) /\ Rests(u[k], v[k])
    BY DEF RestsBut
<1> QED BY <1>1 DEF Rests

LEMMA RestsMore ==
    ASSUME NEW t, NEW u, NEW keys, NEW more, RestsBut(t, u, keys), keys \subseteq more
    PROVE  RestsBut(t, u, more)
BY DEF RestsBut

LEMMA MarksRest ==
    ASSUME NEW t, \A k \in DOMAIN t : Rated(t[k]), NEW key, NEW x
    PROVE  /\ RestsBut(t, MarkLeavesDone(t, key, x), {})
           /\ RestsBut(t, MarkUnitsDone(t, key, x), {})
           /\ RestsBut(t, MarkActive(t, key, x), {})
           /\ RestsBut(t, MarkNodeDone(t, key), {})
<1>1. ASSUME NEW n, Rated(n), NEW y
      PROVE  /\ Rests(n, n)
             /\ Rests(n, [n EXCEPT !.leaves_done = AtMost(@ + y, n.leaves_total)])
             /\ Rests(n, [n EXCEPT !.units_done = AtMost(@ + y, 2 * n.leaves_total - 1)])
             /\ Rests(n, [n EXCEPT !.active_count = @ + y])
             /\ Rests(n, Finished(n))
    BY <1>1 DEF Rests, Rated, Loans, Finished
<1>2. RestsBut(t, MarkLeavesDone(t, key, x), {}) /\ RestsBut(t, MarkUnitsDone(t, key, x), {})
    BY <1>1 DEF RestsBut, MarkLeavesDone, MarkUnitsDone, Upward
<1>3. \A v, y : (\A k \in DOMAIN v : Rated(v[k])) => RestsBut(v, MarkActive(v, key, y), {})
    BY <1>1 DEF RestsBut, MarkActive, Upward
<1>4. RestsBut(t, MarkNodeDone(t, key), {})
    <2> DEFINE v == [t EXCEPT ![key] = Finished(@)]
    <2>1. RestsBut(t, v, {})
        BY <1>1 DEF RestsBut
    <2>2. MarkNodeDone(t, key) = v \/ MarkNodeDone(t, key) = MarkActive(v, key, -1)
        BY DEF MarkNodeDone
    <2> HIDE DEF v
    <2>3. RestsBut(v, MarkActive(v, key, -1), {})
        BY <1>3, <2>1 DEF RestsBut, Rests
    <2> QED BY <2>1, <2>2, <2>3, RestsThen
<1> QED BY <1>2, <1>3, <1>4

\* A record that writes to the entry of pid and its node, and only stops others.
LEMMA OneWritten ==
    ASSUME NEW s, LendingOK(s), Costed(s), Mirrors(s), NEW u, LendingOK(u), NEW r,
           NEW pid \in Node, Books(r) => r.pid = pid,
           RestsBut(s.tree, u.tree, {KeyOf[pid]}),
           \A p \in DOMAIN u.active \ {pid} :
                p \in DOMAIN s.active /\ u.active[p] = s.active[p],
           pid \in DOMAIN u.active =>
                LET e == u.active[pid]
                IN  /\ "mem" \in DOMAIN e /\ e.mem \in Nat
                    /\ e.mem = ShownCost(s, r, pid)
                    /\ e.node # NoKey => InStep(e, u.tree[KeyOf[pid]]),
           KeyOf[pid] \in DOMAIN u.tree =>
                Rated(u.tree[KeyOf[pid]]) /\ CostFrom(s, u, r, KeyOf[pid])
    PROVE  Copied(s, u, r)
<1>1. Costed(u)
    BY DEF Costed, RestsBut, Rests
<1>2. Mirrors(u)
    <2> SUFFICES ASSUME NEW p \in DOMAIN u.active, u.active[p].node # NoKey
                 PROVE  InStep(u.active[p], u.tree[u.active[p].node])
        BY DEF Mirrors
    <2>1. p \in Node /\ u.active[p].node = KeyOf[p] /\ KeyOf[p] \in DOMAIN u.tree
        BY DEF LendingOK
    <2>2. CASE p = pid
        BY <2>1, <2>2
    <2>3. CASE p # pid
        <3>1. KeyOf[p] # KeyOf[pid]
            BY <2>1, <2>3, KeyAssumption
        <3>2. Rests(s.tree[KeyOf[p]], u.tree[KeyOf[p]])
            BY <2>1, <3>1 DEF RestsBut
        <3>3. p \in DOMAIN s.active /\ u.active[p] = s.active[p]
            BY <2>3
        <3>4. InStep(s.active[p], s.tree[KeyOf[p]])
            BY <2>1, <3>3 DEF Mirrors
        <3> QED BY <2>1, <3>2, <3>3, <3>4 DEF InStep, Rests
    <2> QED BY <2>2, <2>3
<1>3. ASSUME NEW p \in DOMAIN u.active PROVE u.active[p].mem = ShownCost(s, r, p)
    BY DEF ShownCost, EntryOf, Known
<1>4. ASSUME NEW k \in DOMAIN u.tree PROVE CostFrom(s, u, r, k)
    <2>1. CASE k = KeyOf[pid]
        BY <2>1
    <2>2. CASE k # KeyOf[pid]
        BY <2>2 DEF RestsBut, Rests, CostFrom
    <2> QED BY <2>1, <2>2
<1> QED BY <1>1, <1>2, <1>3, <1>4 DEF Copied

\* A record that writes to no entry, unless it drops one.
LEMMA NoneWritten ==
    ASSUME NEW s, LendingOK(s), Costed(s), Mirrors(s), NEW u, LendingOK(u), NEW r,
           ~Books(r), RestsBut(s.tree, u.tree, {}),
           \A p \in DOMAIN u.active : p \in DOMAIN s.active /\ u.active[p] = s.active[p]
    PROVE  Copied(s, u, r)
<1>1. Costed(u)
    BY DEF Costed, RestsBut, Rests
<1>2. Mirrors(u)
    <2> SUFFICES ASSUME NEW p \in DOMAIN u.active, u.active[p].node # NoKey
                 PROVE  InStep(u.active[p], u.tree[u.active[p].node])
        BY DEF Mirrors
    <2>1. u.active[p].node = KeyOf[p] /\ KeyOf[p] \in DOMAIN u.tree
        BY DEF LendingOK
    <2>2. Rests(s.tree[KeyOf[p]], u.tree[KeyOf[p]])
        BY <2>1 DEF RestsBut
    <2>3. p \in DOMAIN s.active /\ u.active[p] = s.active[p]
        OBVIOUS
    <2>4. InStep(s.active[p], s.tree[KeyOf[p]])
        BY <2>1, <2>3 DEF Mirrors
    <2> QED BY <2>1, <2>2, <2>3, <2>4 DEF InStep, Rests
<1>3. ASSUME NEW p \in DOMAIN u.active PROVE u.active[p].mem = ShownCost(s, r, p)
    BY DEF ShownCost, EntryOf, Known
<1>4. ASSUME NEW k \in DOMAIN u.tree PROVE CostFrom(s, u, r, k)
    BY DEF RestsBut, Rests, CostFrom
<1> QED BY <1>1, <1>2, <1>3, <1>4 DEF Copied

\* Nothing new is shown: nodes stop and entries are dropped, if anything.
Rested(s, u) ==
    /\ RestsBut(s.tree, u.tree, {})
    /\ \A p \in DOMAIN u.active : p \in DOMAIN s.active /\ u.active[p] = s.active[p]

LEMMA RestedSame ==
    ASSUME NEW s, Costed(s), NEW u, u.tree = s.tree, u.active = s.active
    PROVE  Rested(s, u) /\ Costed(u)
<1>1. RestsBut(s.tree, u.tree, {})
    BY RestsSelf DEF Costed
<1> QED BY <1>1 DEF Rested, Costed

LEMMA RestedThen ==
    ASSUME NEW s, NEW v, NEW u, Rested(s, v), Rested(v, u)
    PROVE  Rested(s, u)
<1>1. RestsBut(s.tree, u.tree, {})
    BY RestsThen DEF Rested
<1> QED BY <1>1 DEF Rested

LEMMA RestedCosted ==
    ASSUME NEW s, Costed(s), NEW u, Rested(s, u)
    PROVE  Costed(u)
BY DEF Rested, Costed, RestsBut, Rests

\* What records mark of a State nothing else of which changes.
LEMMA DoneRests ==
    ASSUME NEW s, Costed(s), NEW v, Rested(s, v), {"tree", "active"} \subseteq DOMAIN v,
           NEW key, NEW x, NEW y
    PROVE  /\ Rested(s, [v EXCEPT !.tree = MarkNodeDone(MarkUnitsDone(v.tree, key, x), key)])
           /\ Rested(s, [v EXCEPT !.tree = MarkNodeDone(
                                    MarkUnitsDone(MarkLeavesDone(v.tree, key, y), key, x),
                                    key)])
<1>1. Costed(v)
    BY RestedCosted
<1>2. \A t : (\A k \in DOMAIN t : Rated(t[k])) =>
        /\ RestsBut(t, MarkLeavesDone(t, key, y), {})
        /\ RestsBut(t, MarkUnitsDone(t, key, x), {})
        /\ RestsBut(t, MarkNodeDone(t, key), {})
    BY MarksRest
<1>3. \A t, w : RestsBut(t, w, {}) => \A k \in DOMAIN w : Rated(w[k])
    BY DEF RestsBut, Rests
<1>4. \A t : RestsBut(v.tree, t, {}) =>
        RestsBut(v.tree, MarkNodeDone(MarkUnitsDone(t, key, x), key), {})
    BY <1>2, <1>3, RestsThen
<1>5. RestsBut(v.tree, v.tree, {}) /\ RestsBut(v.tree, MarkLeavesDone(v.tree, key, y), {})
    BY <1>1, <1>2, RestsSelf DEF Costed
<1>6. ASSUME NEW t, RestsBut(v.tree, t, {}) PROVE Rested(s, [v EXCEPT !.tree = t])
    <2>1. RestsBut(s.tree, t, {})
        BY <1>6, RestsThen DEF Rested
    <2> QED BY <2>1 DEF Rested
<1> QED BY <1>4, <1>5, <1>6

LEMMA StoredRests ==
    ASSUME NEW s, LendingOK(s), Costed(s), NEW r
    PROVE  Rested(s, HandleAlreadyStored(s, r))
<1> DEFINE key == NodeOf(s, r.key)
           x == LeavesCovered(r.key)
           y == 2 * x - 1
           d == DropEntry(s, r.pid)
           v == [d EXCEPT !.pieces_done = @ + x, !.joins_done = @ + x - 1]
           w == [v EXCEPT !.tree =
                    MarkNodeDone(MarkUnitsDone(MarkLeavesDone(v.tree, key, x), key, y), key)]
           u == HandleAlreadyStored(s, r)
<1>1. u = IF key = NoKey THEN v ELSE w
    BY DEF HandleAlreadyStored
<1> SUFFICES Rested(s, u)
    OBVIOUS
<1> HIDE DEF u, key, x, y
<1>2. /\ {"tree", "active"} \subseteq DOMAIN d
      /\ d.tree = s.tree
      /\ d.active = [p \in DOMAIN s.active \ {r.pid} |-> s.active[p]]
    BY DEF DropEntry, LendingOK, Restrict
<1> HIDE DEF d
<1>3. {"tree", "active"} \subseteq DOMAIN v /\ v.active = d.active /\ v.tree = s.tree
    BY <1>2
<1> HIDE DEF v
<1>4. Rested(s, v)
    BY <1>2, <1>3, RestsSelf DEF Rested, Costed
<1>5. Rested(s, w)
    BY <1>3, <1>4, DoneRests
<1> QED BY <1>1, <1>4, <1>5

LEMMA EndRests ==
    ASSUME NEW s, LendingOK(s), Costed(s), NEW r
    PROVE  Rested(s, HandleTaskEnd(s, r)) /\ Rested(s, HandleTaskExit(s, r))
<1> DEFINE d == DropEntry(s, r.pid)
           v == [d EXCEPT !.locking_pids = @ \ {r.pid}]
           w == [d EXCEPT !.locking_pids = @ \ {r.pid}, !.task_exit = r.pid]
<1>1. HandleTaskEnd(s, r) = v /\ HandleTaskExit(s, r) = w
    BY DEF HandleTaskEnd, HandleTaskExit
<1>2. /\ {"tree", "active"} \subseteq DOMAIN d
      /\ d.tree = s.tree
      /\ d.active = [p \in DOMAIN s.active \ {r.pid} |-> s.active[p]]
    BY DEF DropEntry, LendingOK, Restrict
<1> HIDE DEF d
<1>3. v.active = d.active /\ v.tree = s.tree /\ w.active = d.active /\ w.tree = s.tree
    BY <1>2
<1> HIDE DEF v, w
<1>4. Rested(s, v) /\ Rested(s, w)
    BY <1>2, <1>3, RestsSelf DEF Rested, Costed
<1> QED BY <1>1, <1>4

LEMMA WorkRests ==
    ASSUME NEW s, LendingOK(s), Costed(s), NEW r
    PROVE  Rested(s, HandleJoined(s, r)) /\ Rested(s, HandlePiece(s, r))
<1> DEFINE key == NodeOf(s, r.key)
           v == [s EXCEPT !.joins_done = @ + 1,
                          !.join_events = IF EntryOf(s, r.pid).resumed THEN @ ELSE @ + 1]
           w == [s EXCEPT !.pieces_done = @ + 1, !.piece_events = @ + 1]
<1>1. /\ HandleJoined(s, r) =
            IF key = NoKey THEN v
            ELSE [v EXCEPT !.tree = MarkNodeDone(MarkUnitsDone(v.tree, key, 1), key)]
      /\ HandlePiece(s, r) =
            IF key = NoKey THEN w
            ELSE [w EXCEPT !.tree =
                     MarkNodeDone(MarkUnitsDone(MarkLeavesDone(w.tree, key, 1), key, 1), key)]
    BY DEF HandleJoined, HandlePiece
<1>2. /\ {"tree", "active"} \subseteq DOMAIN v /\ v.active = s.active /\ v.tree = s.tree
      /\ {"tree", "active"} \subseteq DOMAIN w /\ w.active = s.active /\ w.tree = s.tree
    BY DEF LendingOK
<1> HIDE DEF v, w, key
<1>3. Rested(s, v) /\ Rested(s, w)
    BY <1>2, RestedSame
<1>4. /\ Rested(s, [v EXCEPT !.tree = MarkNodeDone(MarkUnitsDone(v.tree, key, 1), key)])
      /\ Rested(s, [w EXCEPT !.tree =
                     MarkNodeDone(MarkUnitsDone(MarkLeavesDone(w.tree, key, 1), key, 1), key)])
    BY <1>2, <1>3, DoneRests
<1> QED BY <1>1, <1>3, <1>4

LEMMA NoteRests ==
    ASSUME NEW s, LendingOK(s), Costed(s), NEW r, NEW ts
    PROVE  /\ Rested(s, ThreadTick(s, ts))
           /\ Rested(s, HandleHalt(s, r))
           /\ r.action \in Totals => Rested(s, HandleScheduler(s, r))
<1>0. \A u : Keeps(s, u) /\ u.tree = s.tree => Rested(s, u)
    BY RestedSame DEF Keeps
<1>1. Keeps(s, ThreadTick(s, ts)) /\ ThreadTick(s, ts).tree = s.tree
    BY TickLends DEF ThreadTick, LendingOK
<1>2. Keeps(s, HandleHalt(s, r)) /\ HandleHalt(s, r).tree = s.tree
    BY NoteLends DEF HandleHalt, LendingOK
<1>3. ASSUME r.action \in Totals PROVE Rested(s, HandleScheduler(s, r))
    <2> DEFINE u == HandleScheduler(s, r)
    <2>1. \/ u = [s EXCEPT !.active_max = AtLeast(@, r.val)]
          \/ u = [s EXCEPT !.threads_reported = r.val]
          \/ u = [s EXCEPT !.mem_booked = r.val]
        BY <1>3, Zenon DEF HandleScheduler, Totals
    <2> HIDE DEF u
    <2>2. u.active = s.active /\ u.tree = s.tree
        BY <2>1 DEF LendingOK
    <2>3. Rested(s, u)
        BY <2>2, RestedSame
    <2> QED BY <2>3 DEF u
<1> QED BY <1>0, <1>1, <1>2, <1>3, Zenon

LEMMA PhasesRest ==
    ASSUME NEW s, LendingOK(s), Costed(s), NEW action \in PhaseActions
    PROVE  Rested(s, HandlePhase(s, action))
<1>1. ASSUME NEW name
      PROVE  LET w == SetPhase(s, name)
             IN  /\ {"tree", "active"} \subseteq DOMAIN w
                 /\ w.active = s.active /\ w.tree = s.tree /\ Rested(s, w)
    <2> DEFINE w == SetPhase(s, name)
    <2>1. {"tree", "active"} \subseteq DOMAIN w /\ w.active = s.active /\ w.tree = s.tree
        BY DEF LendingOK, SetPhase
    <2> HIDE DEF w
    <2>2. Rested(s, w)
        BY <2>1, RestedSame
    <2> QED BY <2>1, <2>2 DEF w
<1>2. CASE action \in {"dividing", "divided", "binary split solved"}
    <2>1. HandlePhase(s, action) = SetPhase(s, action)
        BY <1>2, Zenon DEF HandlePhase
    <2> QED BY <1>1, <2>1
<1>3. CASE action = "pi already stored"
    <2> DEFINE w == SetPhase(s, action)
               root == <<1, w.index_max>>
               v == IF w.total_pieces = 0 THEN w
                    ELSE [w EXCEPT !.pieces_done = w.total_pieces,
                                   !.joins_done = w.total_pieces - 1]
               L == w.tree[root].leaves_total
               x == 2 * L - 1
               u == HandlePhase(s, action)
    <2>1. u = AllDone(w)
        BY <1>3, Zenon DEF HandlePhase
    <2>2. u = IF w.tree = NoTree THEN v
              ELSE [v EXCEPT !.tree = MarkNodeDone(MarkUnitsDone(
                                MarkLeavesDone(v.tree, root, L), root, x), root)]
        BY <2>1 DEF AllDone
    <2>3. {"tree", "active"} \subseteq DOMAIN w /\ w.active = s.active /\ w.tree = s.tree
        BY <1>1
    <2> HIDE DEF u, w
    <2>4. {"tree", "active"} \subseteq DOMAIN v /\ v.active = s.active /\ v.tree = s.tree
        BY <2>3
    <2> HIDE DEF v, root, L, x
    <2>5. Rested(s, v)
        BY <2>4, RestedSame
    <2>6. Rested(s, [v EXCEPT !.tree = MarkNodeDone(MarkUnitsDone(
                                MarkLeavesDone(v.tree, root, L), root, x), root)])
        BY <2>4, <2>5, DoneRests
    <2>7. Rested(s, u)
        BY <2>2, <2>5, <2>6
    <2> QED BY <2>7 DEF u
<1>4. CASE action = "display begin"
    <2>1. HandlePhase(s, action) = SetPhase(s, "displaying")
        BY <1>4, Zenon DEF HandlePhase
    <2> QED BY <1>1, <2>1
<1>5. CASE action = "display end"
    <2> DEFINE v == SetPhase(s, "displayed")
               u == [v EXCEPT !.done = TRUE]
    <2>1. HandlePhase(s, action) = u
        BY <1>5, Zenon DEF HandlePhase
    <2>2. {"tree", "active"} \subseteq DOMAIN v /\ v.active = s.active /\ v.tree = s.tree
        BY <1>1
    <2> HIDE DEF v
    <2>3. u.active = s.active /\ u.tree = s.tree
        BY <2>2
    <2> HIDE DEF u
    <2>4. Rested(s, u)
        BY <2>3, RestedSame
    <2> QED BY <2>1, <2>4
<1> QED BY <1>2, <1>3, <1>4, <1>5, Zenon DEF PhaseActions

\* A node takes the threads its entry has, and its cost.
LEMMA Attached ==
    ASSUME NEW s, LendingOK(s), Costed(s), NEW pid \in DOMAIN s.active,
           NEW key \in DOMAIN s.tree, key # NoKey
    PROVE  LET u == AttachTaskPlan(s, pid, key)
               e == s.active[pid]
               m == s.tree[key]
               n == u.tree[key]
           IN  /\ u.active = s.active
               /\ {"tree", "active"} \subseteq DOMAIN u
               /\ DOMAIN u.tree = DOMAIN s.tree
               /\ \A k \in DOMAIN s.tree \ {key} : u.tree[k] = s.tree[k]
               /\ Rated(n) /\ Lent(n)
               /\ n.in_progress = m.in_progress
               /\ n.mem_estimate \in {m.mem_estimate, e.mem}
               /\ e.threads = 0 => Loans(n) = Loans(m)
               /\ e.threads # 0 => Loans(n) = Loans(e)
<1> DEFINE u == AttachTaskPlan(s, pid, key)
           e == s.active[pid]
           m == s.tree[key]
           n == [m EXCEPT
                    !.threads = IF e.threads # 0 THEN e.threads ELSE @,
                    !.threads_live = IF e.threads # 0 THEN e.threads_live ELSE @,
                    !.mem_estimate = IF e.mem # 0 THEN e.mem ELSE @]
<1>1. u = [s EXCEPT !.tree = [s.tree EXCEPT ![key] = n]]
    BY DEF AttachTaskPlan, Known
<1>2. Lent(e) /\ e.mem \in Nat /\ Rated(m) /\ Lent(m)
    BY DEF LendingOK, Costed
<1> HIDE DEF e, m
<1>3. /\ Rated(n) /\ Lent(n)
      /\ n.in_progress = m.in_progress
      /\ n.mem_estimate \in {m.mem_estimate, e.mem}
      /\ e.threads = 0 => Loans(n) = Loans(m)
      /\ e.threads # 0 => Loans(n) = Loans(e)
    BY <1>2 DEF Rated, Lent, Loans
<1> HIDE DEF n
<1>4. /\ u.active = s.active
      /\ {"tree", "active"} \subseteq DOMAIN u
      /\ DOMAIN u.tree = DOMAIN s.tree
      /\ \A k \in DOMAIN s.tree \ {key} : u.tree[k] = s.tree[k]
      /\ u.tree[key] = n
    BY <1>1 DEF LendingOK
<1> HIDE DEF u
<1> QED BY <1>3, <1>4 DEF u, e, m

\* What an entry is before a record of its worker.
LEMMA EntryCosted ==
    ASSUME NEW s, LendingOK(s), Costed(s), Mirrors(s), NEW pid
    PROVE  LET e == EntryOf(s, pid)
           IN  /\ Lent(e) /\ {"node", "mem"} \subseteq DOMAIN e /\ e.mem \in Nat
               /\ e.node # NoKey => /\ pid \in DOMAIN s.active
                                    /\ e.node = KeyOf[pid] /\ KeyOf[pid] \in DOMAIN s.tree
                                    /\ InStep(e, s.tree[KeyOf[pid]])
<1>1. CASE pid \in DOMAIN s.active
    BY <1>1 DEF EntryOf, Known, LendingOK, Costed, Mirrors
<1>2. CASE pid \notin DOMAIN s.active
    <2>1. EntryOf(s, pid) = NewEntry
        BY <1>2 DEF EntryOf, Known
    <2> QED BY <2>1 DEF NewEntry, Lent
<1> QED BY <1>1, <1>2

LEMMA BeginCopied ==
    ASSUME NEW s, LendingOK(s), Costed(s), Mirrors(s), NEW pid \in Node, NEW r,
           r.pid = pid, r.key = KeyOf[pid], ~Books(r)
    PROVE  Copied(s, HandleBegin(s, r), r)
<1> DEFINE key == NodeOf(s, r.key)
           e  == EntryOf(s, pid)
           f  == [e EXCEPT !.node = key, !.resumed = FALSE]
           s1 == SetEntry(s, pid, f)
           n  == [s1.tree[key] EXCEPT !.in_progress = TRUE, !.pid = pid]
           s2 == [s1 EXCEPT !.tree[key].in_progress = TRUE, !.tree[key].pid = pid]
           s3 == AttachTaskPlan(s2, pid, key)
           t  == MarkActive(s3.tree, key, 1)
           w  == [s3 EXCEPT !.tree = t]
           u  == HandleBegin(s, r)
<1>1. u = IF key = NoKey THEN s1 ELSE w
    BY DEF HandleBegin
<1>2. LendingOK(u)
    BY BeginLends DEF WorkerLends, Lends
<1> SUFFICES Copied(s, u, r)
    OBVIOUS
<1> HIDE DEF u
<1>3. key # NoKey => key = KeyOf[pid] /\ key \in DOMAIN s.tree
    BY DEF NodeOf
<1>4. Lent(e) /\ {"node", "mem"} \subseteq DOMAIN e /\ e.mem \in Nat
    BY EntryCosted
<1> HIDE DEF e, key
<1>5. /\ Lent(f) /\ Loans(f) = Loans(e) /\ f.node = key /\ {"node", "mem"} \subseteq DOMAIN f
      /\ f.mem = e.mem
    BY <1>4 DEF Lent, Loans
<1>6. ShownCost(s, r, pid) = e.mem
    BY DEF ShownCost, e
<1> HIDE DEF f
<1>7. /\ s1.tree = s.tree
      /\ {"tree", "active"} \subseteq DOMAIN s1
      /\ s1.active = [p \in DOMAIN s.active \cup {pid} |->
                        IF p = pid THEN f ELSE s.active[p]]
    BY DEF SetEntry, LendingOK
<1> HIDE DEF s1
<1>8. CASE key = NoKey
    <2>1. u.tree = s.tree /\ u.active = s1.active
        BY <1>1, <1>7, <1>8
    <2>2. RestsBut(s.tree, u.tree, {KeyOf[pid]})
        BY <2>1, RestsSelf, RestsMore DEF Costed
    <2>3. KeyOf[pid] \in DOMAIN u.tree =>
            Rated(u.tree[KeyOf[pid]]) /\ CostFrom(s, u, r, KeyOf[pid])
        BY <2>1 DEF Costed, CostFrom
    <2>4. pid \in DOMAIN u.active /\ u.active[pid] = f /\ f.node = NoKey
        BY <1>5, <1>7, <1>8, <2>1
    <2>5. \A p \in DOMAIN u.active \ {pid} :
            p \in DOMAIN s.active /\ u.active[p] = s.active[p]
        BY <1>7, <2>1
    <2> QED BY <1>2, <1>4, <1>5, <1>6, <2>2, <2>3, <2>4, <2>5, OneWritten
<1>9. CASE key # NoKey
    <2>1. Rated(s.tree[key]) /\ Lent(s.tree[key]) /\ key = KeyOf[pid] /\ key \in DOMAIN s.tree
        BY <1>3, <1>9 DEF LendingOK, Costed
    <2>2. Rated(n) /\ Lent(n) /\ n.mem_estimate = s.tree[key].mem_estimate
        BY <1>7, <2>1 DEF Rated, Lent
    <2> DEFINE w2 == [s1.tree EXCEPT ![key] = n]
    <2>3. s2 = [s1 EXCEPT !.tree = w2]
        BY <1>7, <2>1
    <2> HIDE DEF n
    <2>16. /\ DOMAIN w2 = DOMAIN s.tree /\ w2[key] = n
           /\ \A k \in DOMAIN s.tree \ {key} : w2[k] = s.tree[k]
        BY <1>7, <2>1
    <2> HIDE DEF w2
    <2>17. {"tree", "active"} \subseteq DOMAIN s2 /\ s2.active = s1.active /\ s2.tree = w2
        BY <1>7, <2>3
    <2>4. /\ {"tree", "active"} \subseteq DOMAIN s2 /\ s2.active = s1.active
          /\ DOMAIN s2.tree = DOMAIN s.tree /\ s2.tree[key] = n
          /\ \A k \in DOMAIN s.tree \ {key} : s2.tree[k] = s.tree[k]
        BY <2>16, <2>17
    <2> HIDE DEF s2
    <2>5. /\ pid \in DOMAIN s2.active /\ s2.active[pid] = f
          /\ \A p \in DOMAIN s2.active \ {pid} :
                p \in DOMAIN s.active /\ s2.active[p] = s.active[p]
        BY <1>7, <2>4
    <2>6. LendingOK(s2)
        BY <1>5, <2>1, <2>2, <2>4, <2>5 DEF LendingOK
    <2>7. Costed(s2)
        BY <1>4, <1>5, <2>2, <2>4, <2>5 DEF Costed
    <2>8. /\ s3.active = s2.active
          /\ {"tree", "active"} \subseteq DOMAIN s3
          /\ DOMAIN s3.tree = DOMAIN s.tree
          /\ \A k \in DOMAIN s.tree \ {key} : s3.tree[k] = s.tree[k]
          /\ Rated(s3.tree[key])
          /\ s3.tree[key].mem_estimate \in {n.mem_estimate, f.mem}
          /\ f.threads # 0 => Loans(s3.tree[key]) = Loans(f)
        BY <1>9, <2>1, <2>4, <2>5, <2>6, <2>7, Attached
    <2> HIDE DEF s3
    <2>9. RestsBut(s3.tree, t, {})
        BY <2>8, MarksRest DEF Costed
    <2>10. /\ RestsBut(s.tree, t, {key})
           /\ Rated(t[key])
           /\ t[key].mem_estimate \in {n.mem_estimate, f.mem}
           /\ t[key].in_progress => Loans(t[key]) = Loans(s3.tree[key])
        BY <2>1, <2>8, <2>9 DEF RestsBut, Rests
    <2> HIDE DEF t
    <2>11. u.tree = t /\ u.active = s2.active
        BY <1>1, <1>9, <2>8
    <2>12. KeyOf[pid] \in DOMAIN u.tree =>
            Rated(u.tree[KeyOf[pid]]) /\ CostFrom(s, u, r, KeyOf[pid])
        BY <2>1, <2>2, <2>5, <2>10, <2>11 DEF CostFrom
    <2>13. InStep(f, u.tree[KeyOf[pid]])
        BY <2>1, <2>8, <2>10, <2>11 DEF InStep
    <2>14. RestsBut(s.tree, u.tree, {KeyOf[pid]})
        BY <2>1, <2>10, <2>11
    <2>15. /\ pid \in DOMAIN u.active /\ u.active[pid] = f
           /\ \A p \in DOMAIN u.active \ {pid} :
                p \in DOMAIN s.active /\ u.active[p] = s.active[p]
        BY <2>5, <2>11
    <2> QED BY <1>2, <1>4, <1>5, <1>6, <2>12, <2>13, <2>14, <2>15, OneWritten
<1> QED BY <1>8, <1>9

LEMMA JoiningCopied ==
    ASSUME NEW s, LendingOK(s), Costed(s), Mirrors(s), NEW pid \in Node, NEW r,
           r.pid = pid, r.key = KeyOf[pid], Joins(r), ~Books(r), r.mem \in Nat
    PROVE  Copied(s, HandleJoining(s, r), r)
<1> DEFINE key == NodeOf(s, r.key)
           n == [s.tree[key] EXCEPT !.mem_estimate = r.mem]
           t == [s.tree EXCEPT ![key] = n]
           u == HandleJoining(s, r)
<1>1. u = s \/ (key # NoKey /\ u = [s EXCEPT !.tree = t])
    BY DEF HandleJoining
<1>2. LendingOK(u)
    BY JoiningLends, KeepsLends DEF Lends
<1>3. key # NoKey => key = KeyOf[pid] /\ key \in DOMAIN s.tree
    BY DEF NodeOf
<1> SUFFICES Copied(s, u, r)
    OBVIOUS
<1> HIDE DEF u, key
<1>4. ASSUME NEW p \in DOMAIN s.active
      PROVE  /\ "mem" \in DOMAIN s.active[p] /\ s.active[p].mem \in Nat
             /\ s.active[p].mem = ShownCost(s, r, p)
    BY DEF Costed, ShownCost, EntryOf, Known
<1>5. CASE u = s
    <2>1. RestsBut(s.tree, u.tree, {})
        BY <1>5, RestsSelf DEF Costed
    <2> QED BY <1>2, <1>5, <2>1, NoneWritten
<1>6. CASE key # NoKey /\ u = [s EXCEPT !.tree = t]
    <2>1. Rated(s.tree[key]) /\ Lent(s.tree[key]) /\ key = KeyOf[pid] /\ key \in DOMAIN s.tree
        BY <1>3, <1>6 DEF LendingOK, Costed
    <2>2. /\ Rated(n) /\ Loans(n) = Loans(s.tree[key]) /\ n.mem_estimate = r.mem
          /\ n.in_progress = s.tree[key].in_progress
        BY <2>1 DEF Rated, Lent, Loans
    <2> HIDE DEF n
    <2>3. u.active = s.active /\ u.tree = t
        BY <1>6 DEF LendingOK
    <2>4. /\ DOMAIN t = DOMAIN s.tree /\ t[key] = n
          /\ \A k \in DOMAIN s.tree \ {key} : t[k] = s.tree[k]
        BY <2>1
    <2> HIDE DEF t
    <2>5. RestsBut(s.tree, u.tree, {KeyOf[pid]})
        BY <2>1, <2>3, <2>4, RestsSelf DEF RestsBut, Costed
    <2>6. Rated(u.tree[KeyOf[pid]]) /\ CostFrom(s, u, r, KeyOf[pid])
        BY <2>1, <2>2, <2>3, <2>4 DEF CostFrom
    <2>7. pid \in DOMAIN s.active /\ s.active[pid].node # NoKey =>
            InStep(s.active[pid], u.tree[KeyOf[pid]])
        <3>1. pid \in DOMAIN s.active /\ s.active[pid].node # NoKey =>
                InStep(s.active[pid], s.tree[KeyOf[pid]])
            BY DEF Mirrors, LendingOK
        <3> QED BY <2>1, <2>2, <2>3, <2>4, <3>1 DEF InStep
    <2> QED BY <1>2, <1>4, <2>3, <2>5, <2>6, <2>7, OneWritten
<1> QED BY <1>1, <1>5, <1>6

LEMMA PhaseCopied ==
    ASSUME NEW s, LendingOK(s), Costed(s), Mirrors(s), NEW pid \in Node, NEW r,
           r.pid = pid, ~Books(r)
    PROVE  Copied(s, HandlePhaseLine(s, r), r)
<1> DEFINE raised == r.action = "multiplying"
           key == EntryOf(s, pid).node
           f  == PhaseEntry(s.active[pid], r)
           s1 == IF Known(s, pid) THEN SetEntry(s, pid, f) ELSE s
           s2 == PhaseLock(s1, r)
           n  == PhaseNode(s2.tree[key], r)
           t  == [s2.tree EXCEPT ![key] = n]
           s3 == [s2 EXCEPT !.tree[key] = n]
           w  == AttachTaskPlan(s3, pid, key)
           u  == HandlePhaseLine(s, r)
<1>1. u = IF key = NoKey THEN s2 ELSE IF raised THEN w ELSE s3
    BY DEF HandlePhaseLine
<1>2. LendingOK(u)
    BY PhaseLends DEF WorkerLends, Lends
<1> SUFFICES Copied(s, u, r)
    OBVIOUS
<1> HIDE DEF u
<1>3. key # NoKey => key = KeyOf[pid] /\ key \in DOMAIN s.tree
    BY DEF EntryOf, Known, NewEntry, LendingOK
<1>4. CASE ~Known(s, pid)
    <2>1. key = NoKey /\ s1 = s
        BY <1>4 DEF EntryOf, NewEntry
    <2>2. {"tree", "active"} \subseteq DOMAIN s1
        BY <2>1 DEF LendingOK
    <2> HIDE DEF s1
    <2>3. s2.active = s1.active /\ s2.tree = s1.tree
        BY <2>2 DEF PhaseLock
    <2> HIDE DEF s2, key
    <2>4. u.active = s.active /\ u.tree = s.tree
        BY <1>1, <2>1, <2>3
    <2>5. Rested(s, u)
        BY <2>4, RestedSame
    <2> QED BY <1>2, <2>5, NoneWritten DEF Rested
<1>5. CASE Known(s, pid)
    <2> DEFINE e == s.active[pid]
    <2>1. /\ pid \in DOMAIN s.active /\ Lent(e) /\ {"node", "mem"} \subseteq DOMAIN e
          /\ EntryOf(s, pid) = e /\ e.mem \in Nat
          /\ e.node # NoKey => InStep(e, s.tree[e.node])
        BY <1>5 DEF LendingOK, Known, EntryOf, Costed, Mirrors
    <2>2. /\ Lent(f) /\ {"node", "mem"} \subseteq DOMAIN f /\ f.node = e.node
          /\ f.mem = e.mem /\ f.threads = e.threads
          /\ raised \/ Loans(f) = Loans(e)
        <3> DEFINE micro == IF r.term = NoText THEN r.action ELSE e.micro
                   live  == IF raised /\ e.threads # 0 THEN e.threads ELSE e.threads_live
                   again == e.resumed \/ r.action = "resumed"
        <3>1. f = [e EXCEPT !.micro = micro, !.threads_live = live, !.resumed = again]
            BY DEF PhaseEntry
        <3>2. live \in Nat
            BY <2>1 DEF Lent
        <3>3. raised \/ live = e.threads_live
            OBVIOUS
        <3> HIDE DEF e, f, micro, live, again, raised
        <3>4. /\ DOMAIN f = DOMAIN e /\ f.threads = e.threads /\ f.node = e.node
              /\ f.mem = e.mem /\ f.threads_live = live
            BY <2>1, <3>1 DEF Lent
        <3> QED BY <2>1, <3>2, <3>3, <3>4 DEF Lent, Loans
    <2>3. f.node # NoKey => f.node = KeyOf[pid] /\ KeyOf[pid] \in DOMAIN s.tree
        BY <1>3, <2>1, <2>2
    <2>4. s1 = SetEntry(s, pid, f) /\ key = e.node
        BY <1>5, <2>1
    <2>5. f.mem = ShownCost(s, r, pid) /\ f.mem \in Nat
        BY <2>1, <2>2 DEF ShownCost
    <2> HIDE DEF e, f, key, raised
    <2>6. EntryFits(s, pid, f)
        BY <2>2, <2>3 DEF EntryFits
    <2>7. EntryWritten(s, s1, pid, f)
        BY <2>4, <2>6, EntrySet
    <2>8. /\ LendingOK(s1) /\ s1.tree = s.tree
          /\ pid \in DOMAIN s1.active
          /\ s1.active[pid] = f
        BY <2>7 DEF EntryWritten, Lends
    <2>9. \A p \in DOMAIN s1.active \ {pid} : p \in DOMAIN s.active /\ s1.active[p] = s.active[p]
        <3>1. s1.active = [p \in DOMAIN s.active \cup {pid} |->
                            IF p = pid THEN f ELSE s.active[p]]
            BY <2>4 DEF SetEntry, LendingOK
        <3> HIDE DEF s1
        <3> QED BY <3>1
    <2> HIDE DEF s1
    <2>10. {"tree", "active"} \subseteq DOMAIN s2 /\ s2.active = s1.active /\ s2.tree = s1.tree
        BY <2>8 DEF PhaseLock, LendingOK
    <2> HIDE DEF s2
    <2>11. \A x : x.active = s2.active =>
                /\ pid \in DOMAIN x.active /\ x.active[pid] = f
                /\ \A p \in DOMAIN x.active \ {pid} :
                        p \in DOMAIN s.active /\ x.active[p] = s.active[p]
        BY <2>8, <2>9, <2>10
    <2>12. CASE key = NoKey
        <3>1. u.active = s2.active /\ u.tree = s.tree
            BY <1>1, <2>8, <2>10, <2>12
        <3>2. RestsBut(s.tree, u.tree, {KeyOf[pid]})
            BY <3>1, RestsSelf, RestsMore DEF Costed
        <3>3. KeyOf[pid] \in DOMAIN u.tree =>
                Rated(u.tree[KeyOf[pid]]) /\ CostFrom(s, u, r, KeyOf[pid])
            BY <3>1 DEF Costed, CostFrom
        <3>4. f.node = NoKey
            BY <2>2, <2>4, <2>12
        <3> QED BY <1>2, <2>2, <2>5, <2>11, <3>1, <3>2, <3>3, <3>4, OneWritten
    <2>13. CASE key # NoKey
        <3> DEFINE m == s.tree[key]
        <3>1. key \in DOMAIN s.tree /\ key = KeyOf[pid] /\ Rated(m) /\ Lent(m) /\ s2.tree = s.tree
            BY <1>3, <2>8, <2>10, <2>13 DEF LendingOK, Costed
        <3>2. /\ Rated(n) /\ Lent(n) /\ Loans(n) = Loans(m)
              /\ n.mem_estimate = m.mem_estimate /\ n.in_progress = m.in_progress
            BY <3>1 DEF PhaseNode, Lent, Loans, Rated
        <3>3. s3 = [s2 EXCEPT !.tree = t]
            BY <2>10
        <3> HIDE DEF n
        <3>4. /\ DOMAIN t = DOMAIN s.tree /\ t[key] = n
              /\ \A k \in DOMAIN s.tree \ {key} : t[k] = s.tree[k]
            BY <3>1
        <3> HIDE DEF t
        <3>5. {"tree", "active"} \subseteq DOMAIN s3 /\ s3.active = s2.active /\ s3.tree = t
            BY <2>10, <3>3
        <3> HIDE DEF s3
        <3>6. pid \in DOMAIN s3.active /\ s3.active[pid] = f
            BY <2>11, <3>5
        <3>7. LendingOK(s3)
            BY <2>2, <2>3, <2>11, <3>1, <3>2, <3>4, <3>5 DEF LendingOK
        <3>8. Costed(s3)
            BY <2>2, <2>5, <2>11, <3>2, <3>4, <3>5 DEF Costed
        <3>9. /\ w.active = s3.active
              /\ DOMAIN w.tree = DOMAIN s.tree
              /\ \A k \in DOMAIN s.tree \ {key} : w.tree[k] = s.tree[k]
              /\ Rated(w.tree[key])
              /\ w.tree[key].mem_estimate \in {n.mem_estimate, f.mem}
              /\ f.threads # 0 => Loans(w.tree[key]) = Loans(f)
            BY <2>13, <3>1, <3>4, <3>5, <3>6, <3>7, <3>8, Attached
        <3> HIDE DEF w
        <3>10. /\ u.active = s2.active
               /\ DOMAIN u.tree = DOMAIN s.tree
               /\ \A k \in DOMAIN s.tree \ {key} : u.tree[k] = s.tree[k]
               /\ Rated(u.tree[key])
               /\ u.tree[key].mem_estimate \in {m.mem_estimate, f.mem}
               /\ \/ f.threads # 0 => Loans(u.tree[key]) = Loans(f)
                  \/ ~raised /\ u.tree[key] = n
            BY <1>1, <2>13, <3>2, <3>4, <3>5, <3>9
        <3>11. InStep(f, u.tree[KeyOf[pid]])
            <4>1. InStep(e, m)
                BY <2>1, <2>4, <2>13
            <4> HIDE DEF m
            <4> QED BY <2>2, <3>1, <3>2, <3>10, <4>1 DEF InStep
        <3>12. RestsBut(s.tree, u.tree, {KeyOf[pid]})
            BY <3>1, <3>10, RestsSelf DEF RestsBut, Costed
        <3>13. Rated(u.tree[KeyOf[pid]]) /\ CostFrom(s, u, r, KeyOf[pid])
            BY <2>11, <3>1, <3>10 DEF CostFrom
        <3> QED BY <1>2, <2>2, <2>5, <2>11, <3>10, <3>11, <3>12, <3>13, OneWritten
    <2> QED BY <2>12, <2>13
<1> QED BY <1>4, <1>5

LEMMA StartCopied ==
    ASSUME NEW s, LendingOK(s), Costed(s), Mirrors(s), NEW r, Books(r),
           r.pid \in Node, r.thr \in Nat, r.mem \in Nat, NEW ts
    PROVE  Copied(s, HandleTaskStart(s, r, ts), r)
<1> DEFINE pid == r.pid
           f == EntryOf(s, pid)
           live == IF Starts(r) THEN r.thr ELSE f.threads_live
           e == [f EXCEPT !.mem = r.mem, !.threads = r.thr, !.threads_live = live]
           s1 == [s EXCEPT !.halt = IF r.fn = "task_start" THEN NoHalt ELSE @,
                           !.threads_seen = TRUE,
                           !.thread_last_ts = IF s.threads_seen THEN @ ELSE ts]
           s2 == SetEntry(s1, pid, e)
           u == AttachTaskPlan(s2, pid, e.node)
<1>1. HandleTaskStart(s, r, ts) = u
    BY DEF HandleTaskStart, Starts
<1>2. LendingOK(u)
    <2>1. Booked(s, HandleTaskStart(s, r, ts), r)
        BY TaskStartLends
    <2> HIDE DEF u
    <2> QED BY <1>1, <2>1 DEF Booked, Lends
<1> SUFFICES Copied(s, u, r)
    BY <1>1
<1>3. Lent(f) /\ {"node", "mem"} \subseteq DOMAIN f /\ live \in Nat
    BY EntryCosted DEF Lent
<1>4. f.node # NoKey => f.node = KeyOf[pid] /\ KeyOf[pid] \in DOMAIN s.tree
    BY EntryCosted
<1>5. {"tree", "active"} \subseteq DOMAIN s1 /\ s1.active = s.active /\ s1.tree = s.tree
    BY DEF LendingOK
<1> HIDE DEF s1, f, live
<1>6. /\ Lent(e) /\ {"node", "mem"} \subseteq DOMAIN e /\ e.node = f.node
      /\ e.threads = r.thr /\ e.mem = r.mem
    BY <1>3 DEF Lent
<1>7. e.mem = ShownCost(s, r, pid) /\ e.mem \in Nat
    BY <1>6 DEF ShownCost
<1> HIDE DEF e
<1>8. /\ {"tree", "active"} \subseteq DOMAIN s2 /\ s2.tree = s.tree
      /\ s2.active = [p \in DOMAIN s.active \cup {pid} |->
                        IF p = pid THEN e ELSE s.active[p]]
    BY <1>5 DEF SetEntry
<1> HIDE DEF s2
<1>9. /\ pid \in DOMAIN s2.active /\ s2.active[pid] = e
      /\ \A p \in DOMAIN s2.active \ {pid} :
            p \in DOMAIN s.active /\ s2.active[p] = s.active[p]
    BY <1>8
<1>10. LendingOK(s2)
    BY <1>4, <1>6, <1>8, <1>9 DEF LendingOK
<1>11. Costed(s2)
    BY <1>6, <1>7, <1>8, <1>9 DEF Costed
<1>12. CASE e.node = NoKey
    <2>1. u = s2
        BY <1>12 DEF AttachTaskPlan
    <2> HIDE DEF u
    <2>2. RestsBut(s.tree, u.tree, {KeyOf[pid]})
        BY <1>8, <2>1, RestsSelf, RestsMore DEF Costed
    <2>3. KeyOf[pid] \in DOMAIN u.tree =>
            Rated(u.tree[KeyOf[pid]]) /\ CostFrom(s, u, r, KeyOf[pid])
        BY <1>8, <2>1 DEF Costed, CostFrom
    <2> QED BY <1>2, <1>6, <1>7, <1>9, <1>12, <2>1, <2>2, <2>3, OneWritten
<1>13. CASE e.node # NoKey
    <2> DEFINE key == KeyOf[pid]
               m == s.tree[key]
    <2>1. key \in DOMAIN s.tree /\ e.node = key /\ Rated(m)
        BY <1>4, <1>6, <1>13 DEF Costed
    <2> DEFINE w == AttachTaskPlan(s2, pid, key)
    <2>2. u = w
        BY <2>1
    <2>3. /\ w.active = s2.active
          /\ DOMAIN w.tree = DOMAIN s.tree
          /\ \A k \in DOMAIN s.tree \ {key} : w.tree[k] = s.tree[k]
          /\ Rated(w.tree[key])
          /\ w.tree[key].mem_estimate \in {m.mem_estimate, e.mem}
          /\ e.threads # 0 => Loans(w.tree[key]) = Loans(e)
        <3>1. key # NoKey /\ key \in DOMAIN s2.tree
            BY <1>8, <1>13, <2>1
        <3>2. pid \in DOMAIN s2.active /\ s2.active[pid] = e /\ s2.tree = s.tree
            BY <1>8, <1>9
        <3> HIDE DEF key, pid
        <3> QED BY <1>10, <1>11, <3>1, <3>2, Attached
    <2> HIDE DEF w, u
    <2>4. InStep(e, u.tree[KeyOf[pid]])
        BY <2>2, <2>3 DEF InStep
    <2>5. RestsBut(s.tree, u.tree, {KeyOf[pid]})
        BY <2>2, <2>3, RestsSelf DEF RestsBut, Costed
    <2>6. Rated(u.tree[KeyOf[pid]]) /\ CostFrom(s, u, r, KeyOf[pid])
        BY <1>9, <2>1, <2>2, <2>3 DEF CostFrom
    <2> QED BY <1>2, <1>6, <1>7, <1>9, <2>2, <2>3, <2>4, <2>5, <2>6, OneWritten
<1> QED BY <1>12, <1>13

\* The tree is left alone, or built with no costs.
Rerated(s, u) ==
    /\ u.active = s.active
    /\ \/ u.tree = s.tree
       \/ \A k \in DOMAIN u.tree : Rated(u.tree[k]) /\ u.tree[k].mem_estimate = 0

LEMMA ApplyRerates ==
    ASSUME NEW s, {"tree", "active"} \subseteq DOMAIN s, NEW N
    PROVE  Rerated(s, ApplyIndexMax(s, N))
<1> DEFINE c == s.chunk_span
           t == IF c = 0 THEN NoTree ELSE BuildTree(N, c)
           u == ApplyIndexMax(s, N)
<1>1. u.active = s.active /\ u.tree = t
    BY DEF ApplyIndexMax
<1>2. \A x, y : LET n == TreeNode(x, y) IN Rated(n) /\ n.mem_estimate = 0
    BY DEF TreeNode, Rated
<1>3. \A k \in DOMAIN t : Rated(t[k]) /\ t[k].mem_estimate = 0
    <2>1. CASE t = NoTree
        BY <2>1 DEF NoTree
    <2>2. CASE t # NoTree
        <3> DEFINE keys == {Key(x) : x \in Shapes(N, c)}
        <3>1. t = [k \in keys |-> TreeNode(CHOOSE x \in Shapes(N, c) : Key(x) = k, c)]
            BY <2>2 DEF BuildTree
        <3>2. \A k \in DOMAIN t : \E x : t[k] = TreeNode(x, c)
            BY <3>1
        <3> HIDE DEF t, c
        <3> QED BY <1>2, <3>2
    <2> QED BY <2>1, <2>2
<1> HIDE DEF t, u
<1>4. Rerated(s, u)
    BY <1>1, <1>3 DEF Rerated
<1> QED BY <1>4 DEF u

LEMMA ConfigRerates ==
    ASSUME NEW s, {"tree", "active"} \subseteq DOMAIN s, NEW name, NEW val
    PROVE  Rerated(s, HandleConfig(s, name, val))
<1> DEFINE prev == s.prev_config
           v == [s EXCEPT
                    !.config = (name :> val) @@ @,
                    !.config_diff = IF name \in DOMAIN prev /\ prev[name] # val
                                    THEN @ \cup {name} ELSE @]
           u == HandleConfigOf(v, name, val)
<1>1. HandleConfig(s, name, val) = u
    BY DEF HandleConfig
<1>2. {"tree", "active"} \subseteq DOMAIN v /\ v.active = s.active /\ v.tree = s.tree
    OBVIOUS
<1> HIDE DEF v
<1>3. \A N : Rerated(v, ApplyIndexMax(v, N))
    BY <1>2, ApplyRerates
<1>4. Rerated(v, v)
    BY <1>2 DEF Rerated
<1> SUFFICES Rerated(v, u)
    BY <1>1, <1>2 DEF Rerated
<1>5. CASE name = "piece size"
    <2>1. u = v \/ u = ApplyIndexMax(v, GetIndexMax(ArgSize))
        BY <1>5, Zenon DEF HandleConfigOf
    <2> QED BY <1>3, <1>4, <2>1
<1>6. CASE name = "run size"
    <2>1. u = v \/ u = ApplyIndexMax(v, val)
        BY <1>6, Zenon DEF HandleConfigOf
    <2> QED BY <1>3, <1>4, <2>1
<1>7. CASE name = "chunk span"
    <2> DEFINE w == [v EXCEPT !.chunk_span = val]
    <2>1. u = w \/ u = ApplyIndexMax(w, v.index_max)
        BY <1>7, Zenon DEF HandleConfigOf
    <2>2. {"tree", "active"} \subseteq DOMAIN w /\ w.active = v.active /\ w.tree = v.tree
        BY <1>2
    <2> HIDE DEF w
    <2>3. Rerated(w, ApplyIndexMax(w, v.index_max))
        BY <2>2, ApplyRerates
    <2> QED BY <2>1, <2>2, <2>3 DEF Rerated
<1>8. CASE name \notin {"piece size", "run size", "chunk span"}
    <2>1. \/ u = v
          \/ u = [v EXCEPT !.n_process_logged = val]
          \/ u = [v EXCEPT !.mem_launch = val]
          \/ u = [v EXCEPT !.mem_max = val]
          \/ u = [v EXCEPT !.disk_lock_enabled = (val # 0)]
        BY <1>8, Zenon DEF HandleConfigOf
    <2> HIDE DEF u
    <2>2. u.active = v.active /\ u.tree = v.tree
        BY <1>2, <2>1
    <2> QED BY <2>2 DEF Rerated
<1> QED BY <1>5, <1>6, <1>7, <1>8, Zenon

LEMMA ConfigCopied ==
    ASSUME NEW s, LendingOK(s), Costed(s), DOMAIN s.active = {}, NEW r, Configures(r)
    PROVE  Copied(s, HandleConfig(s, r.action, r.val), r)
<1> DEFINE u == HandleConfig(s, r.action, r.val)
<1>1. {"tree", "active"} \subseteq DOMAIN s
    BY DEF LendingOK
<1>2. Rerated(s, u)
    BY <1>1, ConfigRerates
<1> HIDE DEF u
<1>3. Costed(u)
    BY <1>2 DEF Rerated, Costed
<1>4. \A k \in DOMAIN u.tree : CostFrom(s, u, r, k)
    BY <1>2 DEF Rerated, CostFrom
<1>5. DOMAIN u.active = {}
    BY <1>2 DEF Rerated
<1>6. Copied(s, u, r)
    BY <1>3, <1>4, <1>5 DEF Copied, Mirrors
<1> QED BY <1>6 DEF u

\* What is known of a record that is fed: who sends it, and with what.
Sent(s, r) ==
    \/ Drops(r) \/ Notes(r)
    \/ Books(r) /\ r.pid \in Node /\ r.thr \in Nat /\ r.mem \in Nat
    \/ Configures(r) /\ DOMAIN s.active = {}
    \/ \E n \in Node : Mine(n, r) /\ (Joins(r) => r.mem \in Nat)

LEMMA RestedCopied ==
    ASSUME NEW s, LendingOK(s), Costed(s), Mirrors(s), NEW u, LendingOK(u), Rested(s, u),
           NEW r, ~Books(r)
    PROVE  Copied(s, u, r)
BY NoneWritten DEF Rested

LEMMA WorkerCopied ==
    ASSUME NEW s, LendingOK(s), Costed(s), Mirrors(s), NEW n \in Node, NEW r, Mine(n, r),
           Joins(r) => r.mem \in Nat, NEW ts
    PROVE  Copied(s, Handle(s, r, ts), r)
<1> DEFINE u == Handle(s, r, ts)
<1>1. ~Books(r) /\ r.pid = n
    BY DEF Mine, Books, Starts, Donates
<1> SUFFICES Copied(s, u, r)
    OBVIOUS
<1>2. CASE r.fn = "split_piece"
    <2>1. u = HandlePhaseLine(s, r)
        BY <1>2, Zenon DEF Handle
    <2> HIDE DEF u
    <2> QED BY <1>1, <2>1, PhaseCopied
<1>3. CASE /\ r.fn = "node_process"
           /\ r.key = KeyOf[n]
           /\ r.action \in {"begin", "joining", "joined", "piece"}
    <2>1. u = HandleNodeProcess(s, r)
        BY <1>3, Zenon DEF Handle
    <2> HIDE DEF u
    <2>2. CASE r.action = "begin"
        <3>1. u = HandleBegin(s, r)
            BY <2>1, <2>2, Zenon DEF HandleNodeProcess
        <3> QED BY <1>1, <1>3, <3>1, BeginCopied
    <2>3. CASE r.action = "joining"
        <3>1. u = HandleJoining(s, r)
            BY <2>1, <2>3, Zenon DEF HandleNodeProcess
        <3>2. Joins(r)
            BY <1>3, <2>3 DEF Joins
        <3> QED BY <1>1, <1>3, <3>1, <3>2, JoiningCopied
    <2>4. CASE r.action = "joined"
        <3>1. u = HandleJoined(s, r)
            BY <2>1, <2>4, Zenon DEF HandleNodeProcess
        <3>2. LendingOK(u)
            BY <3>1, JoinedLends, KeepsLends DEF Lends
        <3> QED BY <1>1, <3>1, <3>2, WorkRests, RestedCopied
    <2>5. CASE r.action = "piece"
        <3>1. u = HandlePiece(s, r)
            BY <2>1, <2>5, Zenon DEF HandleNodeProcess
        <3>2. LendingOK(u)
            BY <3>1, PieceLends, KeepsLends DEF Lends
        <3> QED BY <1>1, <3>1, <3>2, WorkRests, RestedCopied
    <2> QED BY <1>3, <2>2, <2>3, <2>4, <2>5, Zenon
<1> QED BY <1>2, <1>3, Zenon DEF Mine

LEMMA HandleCopied ==
    ASSUME NEW s, LendingOK(s), Costed(s), Mirrors(s), NEW r, Line(r), Sent(s, r), NEW ts
    PROVE  Copied(s, Handle(s, r, ts), r)
<1> DEFINE u == Handle(s, r, ts)
<1> SUFFICES Copied(s, u, r)
    OBVIOUS
<1>0. Told(s, u, r)
    BY HandleTells
<1>1. CASE Drops(r)
    <2>1. LendingOK(u) /\ ~Books(r)
        BY <1>0, <1>1 DEF Told, Lends, Drops, Books, Starts, Donates
    <2>2. Rested(s, u)
        <3>1. CASE r.fn = "node_process" /\ r.action = "already stored"
            <4>1. u = HandleNodeProcess(s, r)
                BY <3>1, Zenon DEF Handle
            <4>2. HandleNodeProcess(s, r) = HandleAlreadyStored(s, r)
                BY <3>1, Zenon DEF HandleNodeProcess
            <4> HIDE DEF u
            <4> QED BY <4>1, <4>2, StoredRests
        <3>2. CASE r.fn = "task_end"
            <4>1. u = HandleTaskEnd(s, r)
                BY <3>2, Zenon DEF Handle
            <4> HIDE DEF u
            <4> QED BY <4>1, EndRests
        <3>3. CASE r.fn = "task_check_exit"
            <4>1. u = HandleTaskExit(s, r)
                BY <3>3, Zenon DEF Handle
            <4> HIDE DEF u
            <4> QED BY <4>1, EndRests
        <3> QED BY <1>1, <3>1, <3>2, <3>3, Zenon DEF Drops
    <2> HIDE DEF u
    <2> QED BY <2>1, <2>2, RestedCopied
<1>2. CASE Books(r) /\ r.pid \in Node /\ r.thr \in Nat /\ r.mem \in Nat
    <2>1. u = HandleTaskStart(s, r, ts)
        BY <1>2, Zenon DEF Handle, Books, Starts, Donates
    <2> HIDE DEF u
    <2> QED BY <1>2, <2>1, StartCopied
<1>3. CASE Configures(r) /\ DOMAIN s.active = {}
    <2>1. u = HandleConfig(s, r.action, r.val)
        BY <1>3, Zenon DEF Handle, Configures
    <2> HIDE DEF u
    <2> QED BY <1>3, <2>1, ConfigCopied
<1>4. CASE Notes(r)
    <2>1. LendingOK(u) /\ ~Books(r)
        BY <1>0, <1>4 DEF Told, Lends, Notes, Books, Starts, Donates
    <2>2. Rested(s, u)
        <3>1. CASE r.fn = "scheduler"
            <4>1. u = HandleScheduler(s, r)
                BY <3>1, Zenon DEF Handle
            <4>2. r.action \in Totals
                BY <3>1, Zenon DEF Line, Totals
            <4> HIDE DEF u
            <4> QED BY <4>1, <4>2, NoteRests, Zenon
        <3>2. CASE r.fn = "node_can_launch"
            <4>1. u = HandleHalt(s, r)
                BY <3>2, Zenon DEF Handle
            <4> HIDE DEF u
            <4> QED BY <4>1, NoteRests, Zenon
        <3>3. CASE r.fn = "pi"
            <4>1. u = HandlePhase(s, r.action)
                BY <3>3, Zenon DEF Handle
            <4>2. r.action \in PhaseActions
                BY <3>3, Zenon DEF Line
            <4> HIDE DEF u
            <4> QED BY <4>1, <4>2, PhasesRest
        <3> QED BY <1>4, <3>1, <3>2, <3>3, Zenon DEF Notes
    <2> HIDE DEF u
    <2> QED BY <2>1, <2>2, RestedCopied
<1>5. CASE \E n \in Node : Mine(n, r) /\ (Joins(r) => r.mem \in Nat)
    <2> HIDE DEF u
    <2>1. \A n \in Node : Mine(n, r) /\ (Joins(r) => r.mem \in Nat) => Copied(s, u, r)
        BY WorkerCopied DEF u
    <2> QED BY <1>5, <2>1
<1> HIDE DEF u
<1> QED BY <1>1, <1>2, <1>3, <1>4, <1>5, Zenon DEF Sent

\* A record, once it is fed, and what it leaves booked.
LEMMA FeedLineCopied ==
    ASSUME NEW s, LendingOK(s), Costed(s), Mirrors(s), NEW r, Line(r), Sent(s, r), NEW ts
    PROVE  Copied(s, FeedLine(s, r, ts), r)
<1> DEFINE v == IF r.fn \in Stamped THEN ThreadTick(s, ts) ELSE s
           u == FeedLine(s, r, ts)
<1>1. u = Handle(v, r, ts)
    BY DEF FeedLine
<1> HIDE DEF u
<1>2. v.active = s.active /\ v.tree = s.tree /\ {"tree", "active"} \subseteq DOMAIN v
    <2>1. LET w == ThreadTick(s, ts)
          IN  w.active = s.active /\ w.tree = s.tree /\ {"tree", "active"} \subseteq DOMAIN w
        BY DEF ThreadTick, LendingOK
    <2> QED BY <2>1 DEF LendingOK
<1> HIDE DEF v
<1>3. LendingOK(v)
    BY <1>2 DEF LendingOK
<1>4. Costed(v) /\ Mirrors(v) /\ Sent(v, r)
    BY <1>2 DEF Costed, Mirrors, Sent
<1>5. Copied(v, u, r)
    BY <1>1, <1>3, <1>4, HandleCopied
<1>6. Copied(s, u, r)
    BY <1>2, <1>5 DEF Copied, CostFrom, ShownCost, EntryOf, Known
<1> QED BY <1>6 DEF u

-----------------------------------------------------------------------------
(* The totals that are shown are the last that were reported.              *)

Reports(r, action) == r.fn = "scheduler" /\ r.action = action

TotalIs(x, y, r, action) == \/ y = x /\ ~Reports(r, action)
                            \/ y = r.val /\ Reports(r, action)

TotalsFollow(s, u, r) ==
    /\ TotalIs(s.mem_booked, u.mem_booked, r, "active memory")
    /\ TotalIs(s.threads_reported, u.threads_reported, r, "active threads")

LEMMA TotalsElsewhere ==
    ASSUME NEW s, {"mem_booked", "threads_reported"} \subseteq DOMAIN s, NEW u, NEW F,
           Only(s, u, F), F \cap {"mem_booked", "threads_reported"} = {}, NEW r,
           r.fn # "scheduler"
    PROVE  TotalsFollow(s, u, r)
BY DEF Only, TotalsFollow, TotalIs, Reports

LEMMA HandleTotals ==
    ASSUME NEW s, DOMAIN s = StateFields, NEW r, Line(r), NEW ts
    PROVE  TotalsFollow(s, Handle(s, r, ts), r)
<1> DEFINE u == Handle(s, r, ts)
           totals == {"mem_booked", "threads_reported"}
<1>0. totals \subseteq DOMAIN s
    BY FieldsOfState DEF ClockFields
<1>a. \A F : Only(s, u, F) /\ F \cap totals = {} /\ r.fn # "scheduler" => TotalsFollow(s, u, r)
    BY <1>0, TotalsElsewhere
<1> SUFFICES TotalsFollow(s, u, r)
    OBVIOUS
<1>1. CASE r.fn = "node_process"
    <2>1. u = HandleNodeProcess(s, r)
        BY <1>1, Zenon DEF Handle
    <2>2. r.action \in NodeActions
        BY <1>1, Zenon DEF Line
    <2> HIDE DEF u
    <2>3. Only(s, u, WorkFields) /\ WorkFields \cap totals = {}
        BY <2>1, <2>2, OnlyWork DEF WorkFields
    <2> QED BY <1>1, <1>a, <2>3
<1>2. CASE r.fn = "split_piece"
    <2>1. u = HandlePhaseLine(s, r)
        BY <1>2, Zenon DEF Handle
    <2> HIDE DEF u
    <2>2. Only(s, u, PhaseFields) /\ PhaseFields \cap totals = {}
        BY <2>1, OnlyPhase DEF PhaseFields
    <2> QED BY <1>2, <1>a, <2>2
<1>3. CASE r.fn \in {"task_start", "task_donate"}
    <2>1. u = HandleTaskStart(s, r, ts)
        BY <1>3, Zenon DEF Handle
    <2> HIDE DEF u
    <2>2. Only(s, u, StartFields) /\ StartFields \cap totals = {}
        BY <2>1, OnlyStart DEF StartFields
    <2> QED BY <1>3, <1>a, <2>2
<1>4. CASE r.fn = "task_end"
    <2>1. u = HandleTaskEnd(s, r)
        BY <1>4, Zenon DEF Handle
    <2> HIDE DEF u
    <2>2. Only(s, u, {"active", "locking_pids"})
        BY <2>1, OnlyEnd
    <2> QED BY <1>4, <1>a, <2>2
<1>5. CASE r.fn = "task_check_exit"
    <2>1. u = HandleTaskExit(s, r)
        BY <1>5, Zenon DEF Handle
    <2> HIDE DEF u
    <2>2. Only(s, u, {"active", "locking_pids", "task_exit"})
        BY <2>1, OnlyEnd
    <2> QED BY <1>5, <1>a, <2>2
<1>6. CASE r.fn = "node_can_launch"
    <2>1. u = HandleHalt(s, r)
        BY <1>6, Zenon DEF Handle
    <2> HIDE DEF u
    <2>2. Only(s, u, {"halt", "halt_seen"})
        BY <2>1, OnlyEnd
    <2> QED BY <1>6, <1>a, <2>2
<1>7. CASE r.fn = "scheduler"
    <2>1. u = HandleScheduler(s, r)
        BY <1>7, Zenon DEF Handle
    <2>2. r.action \in Totals
        BY <1>7, Zenon DEF Line, Totals
    <2> HIDE DEF u
    <2>3. /\ Only(s, u, {TotalField(r.action)})
          /\ r.action = "active threads" => u.threads_reported = r.val
          /\ r.action = "active memory" => u.mem_booked = r.val
        BY <2>1, <2>2, OnlyTotal
    <2>4. /\ r.action # "active threads" => TotalField(r.action) # "threads_reported"
          /\ r.action # "active memory" => TotalField(r.action) # "mem_booked"
        <3>1. CASE r.action = "active processes"
            BY <3>1, Zenon DEF TotalField
        <3>2. CASE r.action = "active threads"
            BY <3>2, Zenon DEF TotalField
        <3>3. CASE r.action = "active memory"
            BY <3>3, Zenon DEF TotalField
        <3> QED BY <2>2, <3>1, <3>2, <3>3, Zenon DEF Totals
    <2>5. /\ r.action # "active threads" => u.threads_reported = s.threads_reported
          /\ r.action # "active memory" => u.mem_booked = s.mem_booked
        BY <1>0, <2>3, <2>4 DEF Only
    <2> QED BY <1>7, <2>3, <2>5 DEF TotalsFollow, TotalIs, Reports
<1>8. CASE r.fn = "pi_tree"
    <2>1. u = HandleConfig(s, r.action, r.val)
        BY <1>8, Zenon DEF Handle
    <2> HIDE DEF u
    <2>2. Only(s, u, ConfigFields(r.action))
        BY <2>1, OnlyConfig
    <2>3. ConfigField(r.action) \in {"chunk_span", "n_process_logged", "mem_launch",
                                     "mem_max", "disk_lock_enabled", "config"}
        BY Zenon DEF ConfigField
    <2>4. ConfigFields(r.action) \cap totals = {}
        BY <2>3 DEF ConfigFields, ShapeFields
    <2> QED BY <1>8, <1>a, <2>2, <2>4
<1>9. CASE r.fn = "pi"
    <2>1. u = HandlePhase(s, r.action)
        BY <1>9, Zenon DEF Handle
    <2>2. r.action \in PhaseActions
        BY <1>9, Zenon DEF Line
    <2> HIDE DEF u
    <2>3. Only(s, u, RootFields) /\ RootFields \cap totals = {}
        BY <2>1, <2>2, OnlyRoot DEF RootFields
    <2> QED BY <1>9, <1>a, <2>3
<1> QED BY <1>1, <1>2, <1>3, <1>4, <1>5, <1>6, <1>7, <1>8, <1>9, Zenon DEF Line

LEMMA FeedTotals ==
    ASSUME NEW s, DOMAIN s = StateFields, NEW r, Line(r), NEW ts
    PROVE  TotalsFollow(s, FeedLine(s, r, ts), r)
<1> DEFINE v == IF r.fn \in Stamped THEN ThreadTick(s, ts) ELSE s
<1>1. FeedLine(s, r, ts) = Handle(v, r, ts)
    BY DEF FeedLine
<1>2. DOMAIN v = StateFields /\ v.mem_booked = s.mem_booked
      /\ v.threads_reported = s.threads_reported
    <2>1. LET w == ThreadTick(s, ts)
          IN  /\ DOMAIN w = StateFields /\ w.mem_booked = s.mem_booked
              /\ w.threads_reported = s.threads_reported
        BY DEF ThreadTick
    <2> QED BY <2>1
<1> HIDE DEF v
<1>3. TotalsFollow(v, Handle(v, r, ts), r)
    BY <1>2, HandleTotals
<1> QED BY <1>1, <1>2, <1>3 DEF TotalsFollow

-----------------------------------------------------------------------------
(* The inductive invariant of the books that are shown.                    *)

DropPending(p) == \E r \in Logged(out) : Drops(r) /\ r.pid = p

BookPending(p) == \E r \in Logged(out) : Books(r) /\ r.pid = p

\* The entry of n's task has n's plan.
Shows(s, n) ==
    /\ n \in DOMAIN s.active
    /\ s.active[n].threads = plan[n].threads
    /\ s.active[n].mem = plan[n].mem_cost

\* The entries that are shown are those of the tasks, each with its plan, or will be
\* once the lines that are still to come are read.
Booking(s) ==
    /\ \A p \in DOMAIN s.active : (\E i \in S!Active : p = tasks[i]) \/ DropPending(p)
    /\ \A i \in S!Active : BookPending(tasks[i]) \/ Shows(s, tasks[i])

\* A line that is still to come says what the scheduler has booked.
Reckoned(r) ==
    /\ Books(r) => /\ r.pid \in Node
                   /\ r.thr = plan[r.pid].threads
                   /\ r.mem = plan[r.pid].mem_cost
    /\ Drops(r) => pc = "down" \/ \A i \in S!Active : r.pid # tasks[i]
    /\ Reports(r, "active memory") => r.val = total_mem_cost
    /\ Reports(r, "active threads") => r.val = total_threads

Reporting(action) == \E r \in Logged(out) : Reports(r, action)

Totalled(s) ==
    /\ s.mem_booked = total_mem_cost \/ Reporting("active memory")
    /\ s.threads_reported = total_threads \/ Reporting("active threads")

Plans == [threads : Nat, mem_cost : Nat]

BookInv ==
    /\ UtilInv
    /\ Costed(st)
    /\ Mirrors(st)
    /\ forked \in [S!Slots -> Plans]
    /\ \A r \in Logged(out) : Reckoned(r)
    /\ Whole /\ pc # "down" => Booking(st)
    /\ Whole /\ pc = "wait" => Totalled(st)

LEMMA BookFacts ==
    ASSUME BookInv
    PROVE  /\ UtilInv /\ LentInv /\ TrailInv /\ P!GInv /\ P!IInv /\ P!TypeOK
           /\ LendingOK(st) /\ DOMAIN st = StateFields
           /\ Quiet(out)
           /\ plan \in [Node -> Plans]
           /\ total_mem_cost \in Nat /\ total_threads \in Nat
<1>1. UtilInv /\ LentInv /\ TrailInv /\ P!GInv /\ P!IInv /\ P!TypeOK
    BY DEF BookInv, UtilInv, LentInv, TrailInv, P!IInv
<1>2. LendingOK(st) /\ DOMAIN st = StateFields /\ Quiet(out)
    BY <1>1 DEF UtilInv, Metered, TrailInv
<1>3. plan \in [Node -> Plans] /\ total_mem_cost \in Nat /\ total_threads \in Nat
    <2>1. NProcess \in Nat
        BY ProgramAssumption DEF S!BudgetAssumption
    <2>2. plan \in [Node -> [threads : 0 .. NProcess, mem_cost : Nat]]
          /\ total_mem_cost \in Nat /\ total_threads \in Nat
        BY <1>1 DEF P!TypeOK
    <2>3. [threads : 0 .. NProcess, mem_cost : Nat] \subseteq Plans
        BY <2>1 DEF Plans
    <2> QED BY <2>2, <2>3
<1> QED BY <1>1, <1>2, <1>3

\* The scheduler's books stand: so do the lines about them.
LEMMA ReckonedStill ==
    ASSUME NEW r, Reckoned(r), UNCHANGED <<plan, tasks, total_threads, total_mem_cost>>,
           pc' = pc \/ pc' = "down"
    PROVE  Reckoned(r)'
<1>1. (S!Active)' = S!Active
    BY DEF S!Active, S!Slots
<1> QED BY <1>1 DEF Reckoned, Books, Starts, Donates, Drops, Reports

\* A step that does not reach the dashboard.
LEMMA SettledBook ==
    ASSUME BookInv, UtilInv', st' = st, lost' = lost, forked' \in [S!Slots -> Plans],
           \A r \in Logged(out') : Reckoned(r)',
           pc' # "down" =>
              /\ pc # "down"
              /\ Logged(out) \subseteq Logged(out')
              /\ \A i \in (S!Active)' :
                    \/ /\ i \in S!Active /\ tasks'[i] = tasks[i]
                       /\ plan'[tasks[i]] = plan[tasks[i]]
                    \/ \E r \in Logged(out') : Books(r) /\ r.pid = tasks'[i]
              /\ \A i \in S!Active :
                    \/ i \in (S!Active)' /\ tasks'[i] = tasks[i]
                    \/ \E r \in Logged(out') : Drops(r) /\ r.pid = tasks[i],
           Whole /\ pc' = "wait" => Totalled(st)'
    PROVE  BookInv'
<1>1. Costed(st)' /\ Mirrors(st)' /\ (Whole' <=> Whole)
    BY DEF BookInv, Costed, Mirrors, Whole
<1>2. \A r \in Logged(out)' : Reckoned(r)'
    BY DEF Logged
<1>3. ASSUME Whole, pc' # "down" PROVE Booking(st)'
    <2>1. Booking(st) /\ pc # "down" /\ Logged(out) \subseteq Logged(out)'
        BY <1>3 DEF BookInv, Logged
    <2>2. ASSUME NEW p \in DOMAIN st.active
          PROVE  (\E i \in (S!Active)' : p = tasks'[i]) \/ DropPending(p)'
        <3>1. CASE DropPending(p)
            BY <2>1, <3>1 DEF DropPending, Drops
        <3>2. CASE \E i \in S!Active : p = tasks[i]
            <4>1. PICK i \in S!Active : p = tasks[i]
                BY <3>2
            <4>2. \/ i \in (S!Active)' /\ tasks'[i] = p
                  \/ \E r \in Logged(out)' : Drops(r) /\ r.pid = p
                BY <1>3, <4>1 DEF Logged
            <4> QED BY <4>2 DEF DropPending, Drops
        <3> QED BY <2>1, <3>1, <3>2 DEF Booking
    <2>3. ASSUME NEW i \in (S!Active)'
          PROVE  BookPending(tasks[i])' \/ Shows(st, tasks[i])'
        <3>1. CASE \E r \in Logged(out') : Books(r) /\ r.pid = tasks'[i]
            BY <3>1 DEF BookPending, Books, Starts, Donates, Logged
        <3>2. CASE /\ i \in S!Active /\ tasks'[i] = tasks[i]
                   /\ plan'[tasks[i]] = plan[tasks[i]]
            <4>1. BookPending(tasks[i]) \/ Shows(st, tasks[i])
                BY <2>1, <3>2 DEF Booking
            <4> QED BY <2>1, <3>2, <4>1 DEF BookPending, Shows, Books, Starts, Donates
        <3> QED BY <1>3, <2>3, <3>1, <3>2
    <2> QED BY <2>2, <2>3 DEF Booking
<1>4. (Whole /\ pc' # "down" => Booking(st)') /\ (Whole /\ pc' = "wait" => Totalled(st)')
    BY <1>3
<1> QED BY <1>1, <1>2, <1>4 DEF BookInv

\* What is known of the line the scheduler logs next.
LEMMA HeadSent ==
    ASSUME BookInv, SchedulerLogs
    PROVE  /\ Line(Head(out)) /\ Reckoned(Head(out)) /\ Sent(st, Head(out))
           /\ LET r == Head(out)
              IN  /\ Drops(r) \/ Books(r) \/ Configures(r) \/ Notes(r)
                  /\ Configures(r) => DOMAIN st.active = {} /\ S!Active = {}
                  /\ Books(r) => /\ r.pid \in Node /\ r.thr \in Nat /\ r.mem \in Nat
                                 /\ \E i \in S!Active : r.pid = tasks[i]
           /\ Logged(out) = {Head(out)} \cup Logged(out')
           /\ UNCHANGED <<program, workers, clock>>
<1> DEFINE r == Head(out)
<1>1. /\ Line(r) /\ Fits(r) /\ Logged(out) = {r} \cup Logged(out')
      /\ UNCHANGED <<program, workers, clock>>
    <2>1. Quiet(out) /\ out # << >>
        BY BookFacts DEF SchedulerLogs
    <2>2. Line(r) /\ Logged(out) = {r} \cup Logged(Tail(out))
        BY <2>1, QuietLines, LoggedLines
    <2> QED BY <2>2, BookFacts DEF SchedulerLogs, LentInv
<1>2. Reckoned(r)
    BY <1>1 DEF BookInv
<1> HIDE DEF r
<1>3. /\ Drops(r) \/ Books(r) \/ Configures(r) \/ Notes(r)
      /\ Configures(r) => DOMAIN st.active = {}
    BY <1>1, FitsKinds
<1>4. Configures(r) => S!Active = {}
    <2>1. ASSUME Configures(r) PROVE ~Drops(r) /\ ~Books(r) /\ ~Notes(r)
        BY <2>1, Zenon DEF Configures, Drops, Books, Starts, Donates, Notes
    <2> QED BY <1>1, <2>1 DEF Fits, Books
<1>5. Books(r) => /\ r.pid \in Node /\ r.thr \in Nat /\ r.mem \in Nat
                  /\ \E i \in S!Active : r.pid = tasks[i]
    <2>1. Tells(r)
        BY <1>1, BookFacts DEF UtilInv
    <2> QED BY <1>2, <2>1, BookFacts DEF Reckoned, Plans, Tells
<1>6. Sent(st, r)
    BY <1>3, <1>5 DEF Sent
<1> QED BY <1>1, <1>2, <1>3, <1>4, <1>5, <1>6 DEF r

\* A line of the scheduler brings what is shown closer to what is booked.
LEMMA LineBooked ==
    ASSUME BookInv, NEW r, Reckoned(r), NEW u, LendingOK(u), Told(st, u, r), Copied(st, u, r),
           Drops(r) \/ Books(r) \/ Configures(r) \/ Notes(r),
           Configures(r) => DOMAIN st.active = {},
           Books(r) => /\ r.pid \in Node /\ r.thr \in Nat
                       /\ \E i \in S!Active : r.pid = tasks[i],
           Booking(st), pc # "down"
    PROVE  /\ \A p \in DOMAIN u.active :
                \/ \E i \in S!Active : p = tasks[i]
                \/ DropPending(p) /\ ~(Drops(r) /\ p = r.pid)
           /\ \A i \in S!Active :
                \/ BookPending(tasks[i]) /\ ~(Books(r) /\ tasks[i] = r.pid)
                \/ Shows(u, tasks[i])
<1>1. CASE Drops(r)
    <2>1. /\ Lends(st, u, {r.pid}) /\ DOMAIN u.active = DOMAIN st.active \ {r.pid}
          /\ \A i \in S!Active : r.pid # tasks[i]
        BY <1>1 DEF Told, Reckoned
    <2>2. ~Books(r)
        BY <1>1, Zenon DEF Drops, Books, Starts, Donates
    <2>3. ASSUME NEW i \in S!Active, Shows(st, tasks[i]) PROVE Shows(u, tasks[i])
        <3>1. tasks[i] \in DOMAIN u.active
            BY <2>1, <2>3 DEF Shows
        <3>2. Loans(u.active[tasks[i]]) = Loans(st.active[tasks[i]])
            BY <2>1, <3>1 DEF Lends, EntriesKept
        <3>3. u.active[tasks[i]].mem = st.active[tasks[i]].mem
            BY <2>2, <2>3, <3>1 DEF Copied, ShownCost, EntryOf, Known, Shows
        <3> QED BY <2>3, <3>1, <3>2, <3>3 DEF Shows, Loans
    <2> QED BY <2>1, <2>2, <2>3 DEF Booking
<1>2. CASE Books(r)
    <2>1. Booked(st, u, r)
        BY <1>2 DEF Told, Books
    <2>2. /\ EntriesKept(st, u, {r.pid}) /\ r.pid \in DOMAIN u.active
          /\ u.active[r.pid].threads = r.thr /\ ~Drops(r)
        BY <1>2, <2>1, Zenon DEF Booked, Lends, Drops, Books, Starts, Donates
    <2>3. ASSUME NEW i \in S!Active
          PROVE  \/ BookPending(tasks[i]) /\ ~(Books(r) /\ tasks[i] = r.pid)
                 \/ Shows(u, tasks[i])
        <3>1. CASE tasks[i] = r.pid
            BY <1>2, <2>2, <3>1 DEF Shows, Copied, ShownCost, Reckoned
        <3>2. CASE tasks[i] # r.pid
            <4>1. ASSUME Shows(st, tasks[i]) PROVE Shows(u, tasks[i])
                <5>1. /\ tasks[i] \in DOMAIN u.active
                      /\ Loans(u.active[tasks[i]]) = Loans(st.active[tasks[i]])
                    BY <2>2, <3>2, <4>1 DEF EntriesKept, Shows
                <5>2. u.active[tasks[i]].mem = st.active[tasks[i]].mem
                    BY <3>2, <4>1, <5>1 DEF Copied, ShownCost, EntryOf, Known, Shows
                <5> QED BY <4>1, <5>1, <5>2 DEF Shows, Loans
            <4> QED BY <3>2, <4>1 DEF Booking
        <3> QED BY <3>1, <3>2
    <2>4. ASSUME NEW p \in DOMAIN u.active
          PROVE  (\E i \in S!Active : p = tasks[i]) \/ DropPending(p)
        <3>1. CASE p = r.pid
            <4>1. PICK i \in S!Active : r.pid = tasks[i]
                BY <1>2
            <4> QED BY <3>1, <4>1
        <3>2. CASE p # r.pid
            BY <2>2, <3>2 DEF EntriesKept, Booking
        <3> QED BY <3>1, <3>2
    <2> QED BY <2>2, <2>3, <2>4
<1>3. CASE Configures(r) \/ Notes(r)
    <2>1. u.active = st.active
        BY <1>3 DEF Told
    <2>2. ~Books(r) /\ ~Drops(r)
        BY <1>3, Zenon DEF Books, Starts, Donates, Drops, Configures, Notes
    <2> QED BY <2>1, <2>2 DEF Booking, Shows
<1> QED BY <1>1, <1>2, <1>3

\* "joining" carries the cost its worker was forked with.
LEMMA JoiningCost ==
    ASSUME TrailInv, NEW i \in Computing, Now(i).r # Silent, Joins(Record(i))
    PROVE  Record(i).mem = forked[i].mem_cost
<1> DEFINE n == tasks[i]
           r == Now(i).r
           x == Record(i)
<1>1. n \in Node /\ at[i] \in 1 .. Len(Scripts[n])
    BY ComputingFacts DEF TrailInv, ScriptsFollowed, Computing
<1>2. r.fn = "node_process" => \E action : r = NodeLine(n, action, 0)
    <2>1. at[i] = 1 \/ at[i] \in 2 .. Len(Scripts[n])
        BY <1>1
    <2>2. r = NodeLine(n, "begin", 0) \/ Later(n, Now(i))
        BY <1>1, <2>1, ScriptFacts DEF Now
    <2> QED BY <2>2 DEF Later
<1>3. \/ x = r /\ ~(r.fn = "node_process" /\ r.action = "joining")
      \/ r.fn = "node_process" /\ x = [r EXCEPT !.mem = forked[i].mem_cost]
    BY DEF Record
<1> HIDE DEF x, r
<1>4. ~(x = r /\ ~(r.fn = "node_process" /\ r.action = "joining"))
    BY Zenon DEF Joins, x
<1>5. PICK action : r = NodeLine(n, action, 0)
    BY <1>2, <1>3, <1>4
<1>6. x = [NodeLine(n, action, 0) EXCEPT !.mem = forked[i].mem_cost]
    BY <1>3, <1>4, <1>5
<1> QED BY <1>6 DEF NodeLine, x

\* What is known of the line a worker logs.
LEMMA RecordSent ==
    ASSUME BookInv, NEW i \in Computing, Now(i).r # Silent
    PROVE  /\ Mine(tasks[i], Record(i)) /\ tasks[i] \in Node /\ i \in S!Active
           /\ Line(Record(i)) /\ Sent(st, Record(i)) /\ ~Books(Record(i))
           /\ \A action : ~Reports(Record(i), action)
           /\ Joins(Record(i)) => Record(i).mem = forked[i].mem_cost
<1> DEFINE n == tasks[i]
           r == Record(i)
<1>1. n \in Node /\ Mine(n, r) /\ i \in S!Active /\ i \in S!Slots
    BY BookFacts, ComputingFacts, RecordMine
<1>2. Joins(r) => r.mem = forked[i].mem_cost
    BY BookFacts, JoiningCost
<1>3. forked[i].mem_cost \in Nat
    BY <1>1 DEF BookInv, Plans
<1> HIDE DEF r, n
<1>4. Line(r)
    BY <1>1, Zenon DEF Mine, Line, NodeActions
<1>5. ~Books(r) /\ \A action : ~Reports(r, action)
    BY <1>1, Zenon DEF Mine, Books, Starts, Donates, Reports
<1>6. Sent(st, r)
    BY <1>1, <1>2, <1>3 DEF Sent
<1> QED BY <1>1, <1>2, <1>4, <1>5, <1>6 DEF r, n

LEMMA WorkerBooked ==
    ASSUME BookInv, NEW i \in S!Active, NEW r, ~Books(r), NEW raised, NEW u,
           WorkerLends(st, u, tasks[i], raised), Copied(st, u, r), Booking(st)
    PROVE  Booking(u)
<1> DEFINE n == tasks[i]
<1>1. /\ EntriesKept(st, u, {n}) /\ LendingOK(u)
      /\ n \in DOMAIN st.active => n \in DOMAIN u.active
    BY DEF WorkerLends, Lends
<1>2. \A p \in DOMAIN u.active : u.active[p].threads = EntryOf(st, p).threads
    BY <1>1, BookFacts, WorkerOrdered DEF UtilInv, Metered
<1>3. \A p \in DOMAIN u.active : u.active[p].mem = EntryOf(st, p).mem
    BY DEF Copied, ShownCost
<1>4. \A p \in DOMAIN st.active : p \in DOMAIN u.active
    BY <1>1 DEF EntriesKept
<1>5. ASSUME NEW p \in DOMAIN u.active
      PROVE  (\E j \in S!Active : p = tasks[j]) \/ DropPending(p)
    BY <1>1 DEF EntriesKept, Booking
<1>6. ASSUME NEW j \in S!Active, Shows(st, tasks[j]) PROVE Shows(u, tasks[j])
    BY <1>2, <1>3, <1>4, <1>6 DEF Shows, EntryOf, Known
<1> QED BY <1>5, <1>6 DEF Booking

\* A record that is lost leaves nothing to be said of what is shown.
LEMMA LostBook ==
    ASSUME BookInv, UtilInv', st' = st, UNCHANGED forked,
           lost' = [run |-> lost.run + 1, all |-> lost.all + 1],
           \A r \in Logged(out') : Reckoned(r)'
    PROVE  BookInv'
<1>1. ~Whole'
    <2>1. lost.run \in Nat
        BY BookFacts DEF LentInv
    <2> QED BY <2>1 DEF Whole
<1>2. Costed(st)' /\ Mirrors(st)' /\ (forked \in [S!Slots -> Plans])'
    BY DEF BookInv, Costed, Mirrors, S!Slots, Plans
<1>3. \A r \in Logged(out)' : Reckoned(r)'
    BY DEF Logged
<1> QED BY <1>1, <1>2, <1>3 DEF BookInv

LEMMA SchedulerLogsBook ==
    ASSUME BookInv, UtilInv', SchedulerLogs
    PROVE  BookInv'
<1> DEFINE r == Head(out)
<1>1. /\ Line(r) /\ Reckoned(r) /\ Sent(st, r)
      /\ Drops(r) \/ Books(r) \/ Configures(r) \/ Notes(r)
      /\ Configures(r) => DOMAIN st.active = {}
      /\ Books(r) => /\ r.pid \in Node /\ r.thr \in Nat
                     /\ \E i \in S!Active : r.pid = tasks[i]
      /\ Logged(out) = {r} \cup Logged(out')
    BY HeadSent
<1>2. /\ UNCHANGED <<pc, plan, tasks, total_threads, total_mem_cost, forked>>
      /\ (S!Active)' = S!Active
    BY HeadSent DEF program, workers, S!Active, S!Slots
<1>3. \A x \in Logged(out') : Reckoned(x)'
    BY <1>1, <1>2, ReckonedStill DEF BookInv
<1>4. CASE st' = st /\ lost' = [run |-> lost.run + 1, all |-> lost.all + 1]
    BY <1>2, <1>3, <1>4, LostBook
<1>5. CASE lost' = lost /\ \E ts \in 0 .. clock : st' = FeedLine(st, r, ts)
    <2>1. PICK ts \in 0 .. clock : st' = FeedLine(st, r, ts)
        BY <1>5
    <2> HIDE DEF r
    <2>2. Told(st, st', r) /\ Copied(st, st', r) /\ TotalsFollow(st, st', r)
        BY <1>1, <2>1, BookFacts, FeedLineTells, FeedLineCopied, FeedTotals DEF BookInv
    <2>3. LendingOK(st')
        BY DEF UtilInv, Metered
    <2>4. Costed(st') /\ Mirrors(st')
        BY <2>2 DEF Copied
    <2>5. ASSUME Whole, pc # "down" PROVE Booking(st)'
        <3>1. Booking(st)
            BY <2>5 DEF BookInv
        <3>2. /\ \A p \in DOMAIN st'.active :
                    \/ \E i \in S!Active : p = tasks[i]
                    \/ DropPending(p) /\ ~(Drops(r) /\ p = r.pid)
              /\ \A i \in S!Active :
                    \/ BookPending(tasks[i]) /\ ~(Books(r) /\ tasks[i] = r.pid)
                    \/ Shows(st', tasks[i])
            BY <1>1, <2>2, <2>3, <2>5, <3>1, LineBooked
        <3>3. \A p : DropPending(p) /\ ~(Drops(r) /\ p = r.pid) => DropPending(p)'
            BY <1>1 DEF DropPending, Drops, Logged
        <3>4. \A p : BookPending(p) /\ ~(Books(r) /\ p = r.pid) => BookPending(p)'
            BY <1>1 DEF BookPending, Books, Starts, Donates, Logged
        <3>5. ASSUME NEW i \in S!Active PROVE BookPending(tasks[i])' \/ Shows(st, tasks[i])'
            <4>1. PICK n : n = tasks[i]
                OBVIOUS
            <4>2. BookPending(n)' \/ Shows(st', n)
                BY <3>2, <3>4, <4>1
            <4> QED BY <1>2, <4>1, <4>2 DEF BookPending, Shows
        <3>6. \A p \in DOMAIN st'.active : (\E i \in S!Active : p = tasks[i]) \/ DropPending(p)'
            BY <3>2, <3>3
        <3> QED BY <1>2, <3>5, <3>6 DEF Booking
    <2>6. ASSUME Whole, pc = "wait" PROVE Totalled(st)'
        <3>1. Totalled(st)
            BY <2>6 DEF BookInv
        <3>2. \A a : Reporting(a) /\ ~Reports(r, a) => Reporting(a)'
            BY <1>1 DEF Reporting, Reports, Logged
        <3>3. st'.mem_booked = total_mem_cost \/ Reporting("active memory")'
            BY <1>1, <2>2, <3>1, <3>2 DEF Totalled, TotalsFollow, TotalIs, Reckoned
        <3>4. st'.threads_reported = total_threads \/ Reporting("active threads")'
            BY <1>1, <2>2, <3>1, <3>2 DEF Totalled, TotalsFollow, TotalIs, Reckoned
        <3> QED BY <1>2, <3>3, <3>4 DEF Totalled
    <2>7. Whole' <=> Whole
        BY <1>5 DEF Whole
    <2>8. /\ Costed(st)' /\ Mirrors(st)' /\ (forked \in [S!Slots -> Plans])'
          /\ \A x \in Logged(out)' : Reckoned(x)'
        BY <1>2, <1>3, <2>4 DEF BookInv, Costed, Mirrors, S!Slots, Plans, Logged
    <2> QED BY <1>2, <2>5, <2>6, <2>7, <2>8 DEF BookInv
<1>6. \/ st' = st /\ lost' = [run |-> lost.run + 1, all |-> lost.all + 1]
      \/ lost' = lost /\ \E ts \in 0 .. clock : st' = FeedLine(st, r, ts)
    <2>1. clock \in Nat
        BY BookFacts DEF UtilInv
    <2> QED BY <2>1 DEF SchedulerLogs, Feed
<1> QED BY <1>4, <1>5, <1>6

LEMMA WorkerStepsBook ==
    ASSUME BookInv, UtilInv', NEW i \in S!Slots, WorkerSteps(i)
    PROVE  BookInv'
<1> DEFINE r == Record(i)
<1>1. /\ UNCHANGED <<pc, plan, tasks, total_threads, total_mem_cost, forked, out>>
      /\ (S!Active)' = S!Active
    <2>1. CASE UNCHANGED program
        BY <2>1 DEF program, WorkerSteps, S!Active, S!Slots
    <2>2. CASE S!CloseSlot(i) \/ S!Commit(i) \/ S!DeleteLeft(i) \/ S!Exit(i)
        <3>1. UNCHANGED S!sched
            BY <2>2 DEF S!CloseSlot, S!Commit, S!DeleteLeft, S!Exit
        <3> QED BY <3>1 DEF S!sched, WorkerSteps, S!Active, S!Slots
    <2> QED BY <2>1, <2>2 DEF WorkerSteps
<1>2. \A x \in Logged(out') : Reckoned(x)'
    BY <1>1, ReckonedStill DEF BookInv
<1>3. i \in Computing
    BY DEF Computing, WorkerSteps, Alive
<1>4. CASE st' = st /\ lost' = [run |-> lost.run + 1, all |-> lost.all + 1]
    BY <1>1, <1>2, <1>4, LostBook
<1>5. ASSUME NEW u, u = st', Costed(u), Mirrors(u), lost' = lost, Booking(st) => Booking(u),
             u.mem_booked = st.mem_booked, u.threads_reported = st.threads_reported
      PROVE  BookInv'
    <2>1. Whole' <=> Whole
        BY <1>5 DEF Whole
    <2>2. Booking(u) => Booking(st)'
        <3>1. \A p : DropPending(p)' = DropPending(p)
            BY <1>1 DEF DropPending, Drops, Logged
        <3>2. ASSUME NEW j \in S!Active, BookPending(tasks[j]) \/ Shows(u, tasks[j])
              PROVE  BookPending(tasks[j])' \/ Shows(st, tasks[j])'
            <4>1. PICK n : n = tasks[j]
                OBVIOUS
            <4>2. BookPending(n)' = BookPending(n)
                BY <1>1 DEF BookPending, Books, Starts, Donates, Logged
            <4> QED BY <1>1, <1>5, <3>2, <4>1, <4>2 DEF BookPending, Shows
        <3> QED BY <1>1, <1>5, <3>1, <3>2 DEF Booking
    <2>3. Totalled(st) => Totalled(st)'
        BY <1>1, <1>5 DEF Totalled, Reporting, Reports, Logged
    <2>4. /\ Costed(st)' /\ Mirrors(st)' /\ (forked \in [S!Slots -> Plans])'
          /\ \A x \in Logged(out)' : Reckoned(x)'
        BY <1>1, <1>2, <1>5 DEF BookInv, Costed, Mirrors, S!Slots, Plans, Logged
    <2> QED BY <1>1, <1>5, <2>1, <2>2, <2>3, <2>4 DEF BookInv
<1>6. CASE st' = st /\ lost' = lost
    BY <1>5, <1>6 DEF BookInv
<1>7. CASE /\ Now(i).r # Silent /\ lost' = lost
           /\ \E ts \in 0 .. clock : st' = FeedLine(st, r, ts)
    <2>1. PICK ts \in 0 .. clock : st' = FeedLine(st, r, ts)
        BY <1>7
    <2>2. /\ Mine(tasks[i], r) /\ tasks[i] \in Node /\ i \in S!Active
          /\ Line(r) /\ Sent(st, r) /\ ~Books(r)
          /\ \A action : ~Reports(r, action)
        BY <1>3, <1>7, RecordSent
    <2> HIDE DEF r
    <2>3. PICK u : u = FeedLine(st, r, ts)
        OBVIOUS
    <2>4. Copied(st, u, r) /\ TotalsFollow(st, u, r)
        BY <2>2, <2>3, BookFacts, FeedLineCopied, FeedTotals DEF BookInv
    <2>5. WorkerLends(st, u, tasks[i], Raises(r))
        BY <2>2, <2>3, BookFacts, FeedLineLends
    <2>6. Booking(st) => Booking(u)
        BY <2>2, <2>4, <2>5, WorkerBooked
    <2>7. u.mem_booked = st.mem_booked /\ u.threads_reported = st.threads_reported
        BY <2>2, <2>4 DEF TotalsFollow, TotalIs
    <2> QED BY <1>5, <1>7, <2>1, <2>3, <2>4, <2>6, <2>7 DEF Copied
<1>8. \/ st' = st /\ lost' = lost
      \/ st' = st /\ lost' = [run |-> lost.run + 1, all |-> lost.all + 1]
      \/ /\ Now(i).r # Silent /\ lost' = lost
         /\ \E ts \in 0 .. clock : st' = FeedLine(st, r, ts)
    <2>1. clock \in Nat
        BY BookFacts DEF UtilInv
    <2> QED BY <2>1 DEF WorkerSteps, Feed
<1> QED BY <1>4, <1>6, <1>7, <1>8

LEMMA ReckonedKinds ==
    ASSUME NEW r
    PROVE  /\ Remarks(r) \/ Configures(r) => Reckoned(r)'
           /\ Drops(r) /\ (\A i \in (S!Active)' : r.pid # tasks'[i]) => Reckoned(r)'
           /\ Drops(r) /\ pc' = "down" => Reckoned(r)'
           /\ Books(r) => \/ Reckoned(r)'
                          \/ r.pid \notin Node
                          \/ r.thr # plan'[r.pid].threads
                          \/ r.mem # plan'[r.pid].mem_cost
<1> DEFINE noted == Reports(r, "active memory") \/ Reports(r, "active threads")
<1>1. Remarks(r) \/ Configures(r) => ~Books(r) /\ ~Drops(r) /\ ~noted
    BY Zenon DEF Remarks, Configures, Books, Starts, Donates, Drops, Reports
<1>2. Drops(r) => ~Books(r) /\ ~noted
    BY Zenon DEF Books, Starts, Donates, Drops, Reports
<1>3. Books(r) => ~Drops(r) /\ ~noted
    BY Zenon DEF Books, Starts, Donates, Drops, Reports
<1> DEFINE b == Books(r)
           d == Drops(r)
           m == Reports(r, "active memory")
           t == Reports(r, "active threads")
<1>4. Reckoned(r)' <=>
        /\ b => /\ r.pid \in Node
                /\ r.thr = plan'[r.pid].threads
                /\ r.mem = plan'[r.pid].mem_cost
        /\ d => pc' = "down" \/ \A i \in (S!Active)' : r.pid # tasks'[i]
        /\ m => r.val = total_mem_cost'
        /\ t => r.val = total_threads'
    BY DEF Reckoned, Books, Starts, Donates, Drops, Reports
<1> HIDE DEF b, d, m, t
<1>5. Remarks(r) \/ Configures(r) => ~b /\ ~d /\ ~m /\ ~t
    BY <1>1 DEF b, d, m, t
<1>6. (d => ~b /\ ~m /\ ~t) /\ (b => ~d /\ ~m /\ ~t)
    BY <1>2, <1>3 DEF b, d, m, t
<1>7. (Books(r) <=> b) /\ (Drops(r) <=> d)
    BY DEF b, d
<1> QED BY <1>4, <1>5, <1>6, <1>7

LEMMA TaskCost == \A fn, n, p : TaskLine(fn, n, p).mem = p.mem_cost
BY DEF TaskLine

LEMMA LaunchBook ==
    ASSUME BookInv, UtilInv', Launch
    PROVE  BookInv'
<1>0. /\ LentInv /\ TrailInv' /\ P!GInv' /\ P!IInv' /\ P!IInv /\ P!TypeOK
      /\ plan \in [Node -> Plans] /\ plan' \in [Node -> Plans]
    <2>1. LentInv' /\ TrailInv' /\ P!GInv' /\ P!IInv' /\ P!TypeOK'
        BY DEF UtilInv, LentInv, TrailInv, P!IInv
    <2>2. plan' \in [Node -> Plans]
        <3>1. plan' \in [Node -> [threads : 0 .. NProcess, mem_cost : Nat]]
            BY <2>1 DEF P!TypeOK
        <3>2. 0 .. NProcess \subseteq Nat
            BY ProgramAssumption DEF S!BudgetAssumption
        <3> QED BY <3>1, <3>2 DEF Plans
    <2> QED BY <2>1, <2>2, BookFacts
<1>1. PICK i \in S!Slots, n \in Node, lines \in StoredLines : Launches(i, n, lines)
    BY <1>0, LaunchFacts
<1>2. /\ out = << >> /\ st' = st /\ lost' = lost /\ i \notin S!Active
      /\ tasks'[i] = n /\ forked' = [forked EXCEPT ![i] = plan'[n]] /\ ~Begun(n)
      /\ \A j \in S!Slots \ {i} : tasks'[j] = tasks[j]
    BY <1>1 DEF Launches
<1>3. pc' = pc /\ pc = "launch" /\ plan' = [plan EXCEPT ![n] = plan'[n]]
    <2>1. \E p : plan' = [plan EXCEPT ![n] = p]
        BY <1>1 DEF Launches, S!TaskStart
    <2> QED BY <1>0, <2>1 DEF Launch, S!Launch
<1> DEFINE line == TaskLine("task_start", n, plan'[n])
<1>4. /\ Starts(line) /\ line.pid = n /\ line.thr = plan'[n].threads
      /\ line.mem = plan'[n].mem_cost
      /\ Logged(out') = Logged(lines) \cup {line}
    BY <1>1, TaskCost DEF Launches
<1> HIDE DEF line
<1>5. forked' \in [S!Slots -> Plans]
    BY <1>0, <1>2 DEF BookInv
<1>6. ASSUME NEW r \in Logged(out') PROVE Reckoned(r)'
    <2>1. CASE r = line
        BY <1>4, <2>1, ReckonedKinds DEF Books
    <2>2. CASE r \in Logged(lines)
        <3>1. Drops(r) /\ status'[r.pid] = "done"
            BY <1>0, <2>2, LinesOfStored
        <3>2. \A j \in (S!Active)' : r.pid # tasks'[j]
            BY <1>0, <3>1, NewBooks
        <3> QED BY <3>1, <3>2, ReckonedKinds
    <2> QED BY <1>4, <2>1, <2>2
<1>7. ASSUME NEW j \in (S!Active)'
      PROVE  \/ j \in S!Active /\ tasks'[j] = tasks[j] /\ plan'[tasks[j]] = plan[tasks[j]]
             \/ \E r \in Logged(out') : Books(r) /\ r.pid = tasks'[j]
    <2>1. CASE j = i
        BY <1>2, <1>4, <2>1 DEF Books
    <2>2. CASE j # i
        <3>1. j \in S!Active /\ tasks'[j] = tasks[j]
            BY <1>2, <2>2 DEF S!Active, S!Slots
        <3>2. tasks[j] \in Node /\ tasks[j] # n
            BY <1>0, <1>2, <3>1, ComputingFacts
        <3> QED BY <1>0, <1>3, <3>1, <3>2
    <2> QED BY <2>1, <2>2
<1>8. \A j \in S!Active : j \in (S!Active)' /\ tasks'[j] = tasks[j]
    BY <1>2 DEF S!Active, S!Slots
<1>9. Logged(out) \subseteq Logged(out')
    BY <1>2, LoggedLines
<1> QED BY <1>2, <1>3, <1>5, <1>6, <1>7, <1>8, <1>9, SettledBook

\* A step that leaves the books as they are and logs nothing of them.
LEMMA QuietBook ==
    ASSUME BookInv, UtilInv', UNCHANGED <<st, lost, forked, plan, tasks>>,
           pc # "down", pc' # "wait",
           Logged(out) \subseteq Logged(out'), \A r \in Logged(out') : Reckoned(r)'
    PROVE  BookInv'
<1>1. (S!Active)' = S!Active
    BY DEF S!Active, S!Slots
<1>2. forked' \in [S!Slots -> Plans]
    BY DEF BookInv
<1> QED BY <1>1, <1>2, SettledBook

LEMMA EndLaunchBook ==
    ASSUME BookInv, UtilInv', EndLaunch
    PROVE  BookInv'
<1>0. P!IInv /\ P!TypeOK /\ P!IInv' /\ P!GInv'
    <2>1. P!IInv' /\ P!GInv'
        BY DEF UtilInv, LentInv, TrailInv
    <2> QED BY <2>1, BookFacts
<1>1. /\ UNCHANGED <<plan, tasks, st, lost, forked>> /\ out = << >>
      /\ pc = "launch" /\ pc' = "donate"
    BY DEF EndLaunch, S!EndLaunch, workers
<1>2. PICK lines \in StoredLines : out' = lines \o HaltLines
    BY DEF EndLaunch
<1>3. Logged(out') = Logged(lines) \cup Logged(HaltLines)
    <2>1. Quiet(lines) /\ Quiet(HaltLines)
        BY <1>0, StoredLinesQuiet, HaltLinesQuiet
    <2> QED BY <1>2, <2>1, LoggedLines, Zenon
<1>4. ASSUME NEW r \in Logged(out') PROVE Reckoned(r)'
    <2>1. CASE r \in Logged(lines)
        <3>1. Drops(r) /\ status'[r.pid] = "done"
            BY <1>0, <2>1, LinesOfStored
        <3>2. \A j \in (S!Active)' : r.pid # tasks'[j]
            BY <1>0, <3>1, NewBooks
        <3> QED BY <3>1, <3>2, ReckonedKinds
    <2>2. CASE r \in Logged(HaltLines)
        BY <2>2, LinesOfHalt, ReckonedKinds
    <2> QED BY <1>3, <2>1, <2>2
<1>5. Logged(out) \subseteq Logged(out')
    BY <1>1, LoggedLines
<1> QED BY <1>1, <1>4, <1>5, QuietBook

LEMMA SchedulerLineFields ==
    ASSUME NEW a, NEW v, NEW r, r = SchedulerLine(a, v)
    PROVE  /\ \A b : Reports(r, b) <=> a = b
           /\ r.val = v /\ ~Books(r) /\ ~Drops(r)
<1>1. r.fn = "scheduler" /\ r.action = a /\ r.val = v
    BY DEF SchedulerLine
<1>2. ~Books(r) /\ ~Drops(r)
    BY <1>1, Zenon DEF Books, Starts, Donates, Drops
<1> QED BY <1>1, <1>2 DEF Reports

LEMMA DonateBook ==
    ASSUME BookInv, UtilInv', Donate
    PROVE  BookInv'
<1>0. /\ P!IInv /\ P!IInv' /\ P!GInv' /\ plan \in [Node -> Plans]
      /\ \A i \in S!Active : i \in S!Slots /\ tasks[i] \in Node
      /\ \A i, j \in S!Active : i # j => tasks[i] # tasks[j]
    <2>1. P!IInv' /\ P!GInv'
        BY DEF UtilInv, LentInv, TrailInv
    <2> QED BY <2>1, BookFacts, ActiveFacts
<1>1. /\ out = << >> /\ UNCHANGED <<forked, lost, st>> /\ UNCHANGED tasks
      /\ pc # "down" /\ (S!Active)' = S!Active /\ Logged(out) = {}
    <2>1. out = << >> /\ UNCHANGED <<forked, lost, st>>
        BY DEF Donate, workers
    <2>2. UNCHANGED tasks /\ pc # "down"
        BY DEF Donate, S!DonateLoad, S!DonateRefused, S!DonateAccepted, S!DonateEnd
    <2>3. Logged(out) = {}
        BY <2>1, LoggedLines
    <2> QED BY <2>1, <2>2, <2>3 DEF S!Active, S!Slots
<1>2. forked' \in [S!Slots -> Plans]
    BY <1>1 DEF BookInv
<1>3. CASE (S!DonateLoad \/ S!DonateRefused) /\ UNCHANGED out
    <2>1. UNCHANGED plan /\ pc' \in {"offer", "donate"}
        BY <1>3 DEF S!DonateLoad, S!DonateRefused
    <2>2. Logged(out') = {}
        BY <1>1, <1>3 DEF Logged
    <2> QED BY <1>1, <2>1, <2>2, QuietBook
<1>4. CASE /\ S!DonateAccepted
           /\ out' = <<TaskLine("task_donate", tasks[di], plan'[tasks[di]])>>
    <2> DEFINE n == tasks[di]
               line == TaskLine("task_donate", n, plan'[n])
    <2>1. pc = "offer" /\ pc' = "donate" /\ \E p : plan' = [plan EXCEPT ![n] = p]
        BY <1>4 DEF S!DonateAccepted
    <2>2. di \in S!Active
        BY <1>0, <2>1, SameBooks DEF P!IInv, P!TasksKnown
    <2>3. Books(line) /\ Logged(out') = {line}
        BY <1>4, KindsOfLines, LoggedLines, Zenon DEF Books
    <2>4. line.pid = n /\ line.thr = plan'[n].threads /\ line.mem = plan'[n].mem_cost
        BY LineFields, TaskCost
    <2> HIDE DEF line
    <2>5. \A r \in Logged(out') : Reckoned(r)'
        BY <1>0, <2>2, <2>3, <2>4, ReckonedKinds
    <2>6. \A j \in S!Active : \/ plan'[tasks[j]] = plan[tasks[j]]
                              \/ \E r \in Logged(out') : Books(r) /\ r.pid = tasks[j]
        BY <1>0, <2>1, <2>2, <2>3, <2>4
    <2> QED BY <1>1, <1>2, <2>1, <2>5, <2>6, SettledBook
<1>5. CASE /\ S!DonateEnd
           /\ out' = <<SchedulerLine("active processes", Cardinality(S!Active)),
                       SchedulerLine("active threads", total_threads),
                       SchedulerLine("active memory", total_mem_cost)>>
    <2>1. UNCHANGED <<plan, total_threads, total_mem_cost>>
        BY <1>5, Zenon DEF S!DonateEnd
    <2>2. PICK x, y, z : /\ x = SchedulerLine("active processes", Cardinality(S!Active))
                         /\ y = SchedulerLine("active threads", total_threads)
                         /\ z = SchedulerLine("active memory", total_mem_cost)
        OBVIOUS
    <2>3. Logged(out') = {x, y, z}
        <3>1. \A a, b, c : Logged(<<a, b, c>>) = {a, b, c}
            BY LoggedLines
        <3>2. out' = <<x, y, z>>
            BY <1>5, <2>2, Zenon
        <3> QED BY <3>1, <3>2
    <2>4. /\ ~Books(x) /\ ~Drops(x) /\ ~Books(y) /\ ~Drops(y) /\ ~Books(z) /\ ~Drops(z)
          /\ ~Reports(x, "active threads") /\ ~Reports(x, "active memory")
          /\ Reports(y, "active threads") /\ ~Reports(y, "active memory")
          /\ ~Reports(z, "active threads") /\ Reports(z, "active memory")
          /\ y.val = total_threads /\ z.val = total_mem_cost
        <3>1. \A b : Reports(x, b) <=> "active processes" = b
            BY <2>2, SchedulerLineFields, Zenon
        <3>2. \A b : Reports(y, b) <=> "active threads" = b
            BY <2>2, SchedulerLineFields, Zenon
        <3>3. \A b : Reports(z, b) <=> "active memory" = b
            BY <2>2, SchedulerLineFields, Zenon
        <3>4. /\ ~Books(x) /\ ~Drops(x) /\ ~Books(y) /\ ~Drops(y) /\ ~Books(z) /\ ~Drops(z)
              /\ y.val = total_threads /\ z.val = total_mem_cost
            BY <2>2, SchedulerLineFields, Zenon
        <3> QED BY <3>1, <3>2, <3>3, <3>4, Zenon
    <2>5. ASSUME NEW r, ~Books(r), ~Drops(r),
                 Reports(r, "active memory") => r.val = total_mem_cost,
                 Reports(r, "active threads") => r.val = total_threads
          PROVE  Reckoned(r)'
        <3>1. Reckoned(r)
            BY <2>5 DEF Reckoned
        <3>2. (~Books(r) /\ ~Drops(r))'
            BY <2>5 DEF Books, Starts, Donates, Drops
        <3> QED BY <2>1, <3>1, <3>2 DEF Reckoned, Reports
    <2>6. \A r \in Logged(out') : Reckoned(r)'
        BY <2>3, <2>4, <2>5
    <2>7. Totalled(st)'
        BY <2>3, <2>4 DEF Totalled, Reporting, Reports, Logged
    <2> QED BY <1>1, <1>2, <2>1, <2>6, <2>7, SettledBook
<1> QED BY <1>3, <1>4, <1>5, Zenon DEF Donate

LEMMA ReapBook ==
    ASSUME BookInv, UtilInv', NEW i \in S!Slots, Reap(i)
    PROVE  BookInv'
<1>0. /\ P!IInv /\ plan \in [Node -> Plans]
      /\ \A j \in S!Active : j \in S!Slots /\ tasks[j] \in Node
      /\ \A j, k \in S!Active : j # k => tasks[j] # tasks[k]
      /\ tasks \in [S!Slots -> Node \cup {NoNode}] /\ NoNode \notin Node
    BY BookFacts, ActiveFacts, WorkerFacts, ProgramAssumption DEF S!NodeAssumption
<1>1. UNCHANGED <<st, lost>> /\ out = << >> /\ Logged(out) = {}
    BY LoggedLines DEF Reap
<1> DEFINE n == tasks[i]
           ended == [fn |-> "task_end", pid |-> n]
           checked == [fn |-> "task_check_exit", pid |-> n]
<1>2. Drops(ended) /\ Drops(checked) /\ ended.pid = n
    <2>1. Drops(ended) /\ Drops(checked)
        BY KindsOfLines, Zenon
    <2> QED BY <2>1
<1>3. pc = "wait" /\ i \in S!Active
    <2>1. pc = "wait" /\ phase[i] \in {"exited", "failed"}
        BY DEF Reap, S!TaskEnd, S!TaskCheckExit
    <2> QED BY <1>0, <2>1, SameTree, SameBooks DEF P!IInv, P!TasksKnown
<1>4. CASE /\ S!TaskEnd(i)
           /\ out' = <<ended>> \o (IF tasks[i] = S!Root THEN FinishLines ELSE << >>)
           /\ forked' = [forked EXCEPT ![i] = S!NoPlan]
    <2>1. /\ tasks' = [tasks EXCEPT ![i] = NoNode] /\ plan' = [plan EXCEPT ![n] = S!NoPlan]
          /\ pc' \in {"done", "launch"}
        BY <1>4 DEF S!TaskEnd
    <2>2. forked' \in [S!Slots -> Plans]
        <3>1. S!NoPlan \in Plans
            BY DEF S!NoPlan, Plans
        <3> QED BY <1>4, <3>1 DEF BookInv
    <2> DEFINE one == <<ended>>
               rest == IF tasks[i] = S!Root THEN FinishLines ELSE << >>
    <2>3. Logged(out') = Logged(one) \cup Logged(rest)
        <3>1. Quiet(one) /\ Quiet(rest)
            BY SchedulerLinesQuiet, RootLinesQuiet, QuietLines, Zenon
        <3> QED BY <1>4, <3>1, LoggedLines, Zenon
    <2>4. Logged(one) = {ended}
        BY LoggedLines, Zenon
    <2>5. \A r \in Logged(rest) : Remarks(r)
        BY LinesOfRoot, LoggedLines
    <2> HIDE DEF ended, one, rest
    <2>6. \A j \in (S!Active)' : /\ j \in S!Active /\ j # i /\ tasks'[j] = tasks[j]
                                 /\ tasks[j] # n
        BY <1>0, <1>3, <2>1 DEF S!Active, S!Slots
    <2>7. ASSUME NEW r \in Logged(out') PROVE Reckoned(r)'
        <3>1. CASE r = ended
            BY <1>2, <2>6, <3>1, ReckonedKinds
        <3>2. CASE r \in Logged(rest)
            BY <2>5, <3>2, ReckonedKinds
        <3> QED BY <2>3, <2>4, <2>7, <3>1, <3>2
    <2>8. \A j \in (S!Active)' :
            j \in S!Active /\ tasks'[j] = tasks[j] /\ plan'[tasks[j]] = plan[tasks[j]]
        BY <1>0, <2>1, <2>6
    <2>9. \A j \in S!Active : \/ j \in (S!Active)' /\ tasks'[j] = tasks[j]
                              \/ \E r \in Logged(out') : Drops(r) /\ r.pid = tasks[j]
        <3> SUFFICES ASSUME NEW j \in S!Active, j # i
                     PROVE  j \in (S!Active)' /\ tasks'[j] = tasks[j]
            BY <1>2, <2>3, <2>4
        <3> QED BY <1>0, <2>1 DEF S!Active, S!Slots
    <2> QED BY <1>1, <1>3, <2>1, <2>2, <2>7, <2>8, <2>9, SettledBook
<1>5. CASE S!TaskCheckExit(i) /\ out' = <<checked>> /\ UNCHANGED workers
    <2>1. pc' = "down" /\ UNCHANGED forked
        BY <1>5 DEF S!TaskCheckExit, workers
    <2>2. Logged(out') = {checked}
        BY <1>5, LoggedLines, Zenon
    <2> HIDE DEF checked
    <2>3. \A r \in Logged(out') : Reckoned(r)'
        BY <1>2, <2>1, <2>2, ReckonedKinds
    <2>4. forked' \in [S!Slots -> Plans]
        BY <2>1 DEF BookInv
    <2> QED BY <1>1, <2>1, <2>3, <2>4, SettledBook
<1> QED BY <1>4, <1>5 DEF Reap

LEMMA SameBook ==
    ASSUME BookInv, UtilInv', UNCHANGED <<pc, plan, tasks, total_threads, total_mem_cost,
                                          st, lost, forked, out>>
    PROVE  BookInv'
<1>1. (S!Active)' = S!Active /\ Logged(out') = Logged(out)
    BY DEF S!Active, S!Slots, Logged
<1>2. \A r \in Logged(out') : Reckoned(r)'
    BY <1>1, ReckonedStill DEF BookInv
<1>3. forked' \in [S!Slots -> Plans]
    BY DEF BookInv
<1>4. Whole /\ pc' = "wait" => Totalled(st)'
    BY DEF BookInv, Totalled, Reporting, Reports, Logged
<1> QED BY <1>1, <1>2, <1>3, <1>4, SettledBook

LEMMA DiesBook ==
    ASSUME BookInv, UtilInv', Dies
    PROVE  BookInv'
<1>1. UNCHANGED <<plan, tasks, total_threads, total_mem_cost, st, lost, forked>>
    BY DEF Dies, S!WorkerDies, S!Crash, S!sched, workers
<1>2. CASE UNCHANGED <<pc, out>>
    BY <1>1, <1>2, SameBook
<1>3. CASE pc' = "down" /\ out' = << >>
    <2>1. Logged(out') = {} /\ forked' \in [S!Slots -> Plans]
        BY <1>1, <1>3, LoggedLines DEF BookInv
    <2> QED BY <1>1, <1>3, <2>1, SettledBook
<1>4. UNCHANGED <<pc, out>> \/ (pc' = "down" /\ out' = << >>)
    BY DEF Dies, S!WorkerDies, S!Crash, S!sched
<1> QED BY <1>2, <1>3, <1>4

LEMMA NoWorkersForked == NewWorkers.forked \in [S!Slots -> Plans]
<1>1. S!NoPlan \in Plans
    BY DEF S!NoPlan, Plans
<1> QED BY <1>1 DEF NewWorkers

LEMMA FreshBook ==
    ASSUME NEW config
    PROVE  LET s == FreshState(config)
           IN  Costed(s) /\ Mirrors(s) /\ DOMAIN s.active = {}
BY FreshLent DEF Costed, Mirrors

LEMMA RestartBook ==
    ASSUME BookInv, UtilInv', Restart
    PROVE  BookInv'
<1>1. Costed(st') /\ Mirrors(st') /\ DOMAIN st'.active = {}
    BY FreshBook DEF Restart
<1>2. (S!Active)' = {} /\ pc' \in {"done", "launch"}
    BY DEF Restart, S!Restart, S!Active
<1>3. forked' \in [S!Slots -> Plans]
    BY NoWorkersForked DEF Restart
<1>4. ASSUME NEW r \in Logged(out') PROVE Reckoned(r)'
    <2>1. r \in Logged(ConfigLines) \/ Remarks(r) \/ Drops(r)
        BY LinesOfFirst DEF Restart
    <2>2. Configures(r) \/ Remarks(r) \/ Drops(r)
        BY <2>1, LinesOfConfig
    <2> QED BY <1>2, <2>2, ReckonedKinds
<1>5. Booking(st)'
    BY <1>1, <1>2 DEF Booking
<1> QED BY <1>1, <1>2, <1>3, <1>4, <1>5 DEF BookInv, Costed, Mirrors, Logged

LEMMA InitBook == Init => BookInv
<1> SUFFICES ASSUME Init PROVE BookInv
    OBVIOUS
<1>1. Costed(st) /\ Mirrors(st) /\ DOMAIN st.active = {}
    BY FreshBook DEF Init
<1>2. S!Active = {} /\ pc \in {"done", "launch"}
    BY DEF Init, S!Init, S!Active
<1>3. forked \in [S!Slots -> Plans]
    BY NoWorkersForked DEF Init
<1>4. ASSUME NEW r \in Logged(out) PROVE Reckoned(r)
    <2>1. r \in Logged(ConfigLines) \/ Remarks(r) \/ Drops(r)
        BY LinesOfFirst DEF Init
    <2>2. Configures(r) \/ Remarks(r) \/ Drops(r)
        BY <2>1, LinesOfConfig
    <2>3. /\ ~Books(r) /\ ~Reports(r, "active memory") /\ ~Reports(r, "active threads")
        BY <2>2, Zenon DEF Configures, Remarks, Drops, Books, Starts, Donates, Reports
    <2> QED BY <1>2, <2>3 DEF Reckoned
<1>5. Booking(st)
    BY <1>1, <1>2 DEF Booking
<1> QED BY <1>1, <1>2, <1>3, <1>4, <1>5, InitUtil DEF BookInv

LEMMA NextBook == BookInv /\ [Next]_vars => BookInv'
<1> SUFFICES ASSUME BookInv, [Next]_vars PROVE BookInv'
    OBVIOUS
<1>0. UtilInv'
    BY NextUtil DEF BookInv
<1>1. CASE SchedulerLogs
    BY <1>0, <1>1, SchedulerLogsBook
<1>2. CASE Launch
    BY <1>0, <1>2, LaunchBook
<1>3. CASE EndLaunch
    BY <1>0, <1>3, EndLaunchBook
<1>4. CASE Donate
    BY <1>0, <1>4, DonateBook
<1>5. ASSUME NEW i \in S!Slots, WorkerSteps(i) PROVE BookInv'
    BY <1>0, <1>5, WorkerStepsBook
<1>6. ASSUME NEW i \in S!Slots, Reap(i) PROVE BookInv'
    BY <1>0, <1>6, ReapBook
<1>7. CASE Dies
    BY <1>0, <1>7, DiesBook
<1>8. CASE Restart
    BY <1>0, <1>8, RestartBook
<1>9. CASE Tick \/ AllShown \/ UNCHANGED vars
    BY <1>0, <1>9, SameBook DEF Tick, AllShown, vars, program, workers
<1> QED BY <1>1, <1>2, <1>3, <1>4, <1>5, <1>6, <1>7, <1>8, <1>9 DEF Next

-----------------------------------------------------------------------------
(* The nodes that are shown running.                                       *)

\* The last line of a script ends its node, and only its last step is to exit.
LEMMA ScriptEnds ==
    ASSUME NEW n \in Node
    PROVE  /\ Len(Scripts[n]) \in Nat \ {0, 1}
           /\ \E action \in {"piece", "joined"} :
                Scripts[n][Len(Scripts[n]) - 1].r = NodeLine(n, action, 0)
           /\ \A a \in 1 .. Len(Scripts[n]) - 1 : Scripts[n][a].op # "exit"
<1>1. CASE S!NodeIsLeaf(n)
    <2>1. PICK a, b, c, d, e :
            /\ a = Says(NodeLine(n, "begin", 0))
            /\ b = Says(PhaseLine(n, "locking"))
            /\ c = Says(PhaseLine(n, "locked"))
            /\ d = Step("commit", NodeLine(n, "piece", 0), TRUE)
            /\ e = Does("exit")
        OBVIOUS
    <2>2. Scripts[n] = <<a, b, c, d, e>>
        BY <1>1, <2>1 DEF Scripts, LeafScript
    <2>3. d.r = NodeLine(n, "piece", 0)
        BY <2>1 DEF Step
    <2>4. a.op = "log" /\ b.op = "log" /\ c.op = "log" /\ d.op = "commit"
        BY <2>1, StepFields, Zenon
    <2>5. \A j \in 1 .. 4 : Scripts[n][j].op # "exit"
        BY <2>2, <2>4
    <2> QED BY <2>2, <2>3, <2>5
<1>2. CASE ~S!NodeIsLeaf(n)
    <2>1. PICK a, b, c, d, e, f, g, h, k, l, m, o :
            /\ a = Says(NodeLine(n, "begin", 0))
            /\ b = Says(Joining(n))
            /\ c = Says(PhaseLine(n, "locking"))
            /\ d = Says(PhaseLine(n, "locked"))
            /\ e = Step("log", PhaseLine(n, "loading"), TRUE)
            /\ f = Says(PhaseLine(n, "multiplying"))
            /\ g = Does("read")
            /\ h = Says(PhaseLine(n, "multiplying"))
            /\ k = Does("close")
            /\ l = Step("commit", Header(n, "R"), FALSE)
            /\ m = Step("delete", NodeLine(n, "joined", 0), FALSE)
            /\ o = Does("exit")
        OBVIOUS
    <2>2. Scripts[n] = <<a, b, c, d, e, f, g, h, k, l, m, o>>
        BY <1>2, <2>1 DEF Scripts, JoinScript
    <2>3. m.r = NodeLine(n, "joined", 0)
        BY <2>1 DEF Step
    <2>4. /\ a.op = "log" /\ b.op = "log" /\ c.op = "log" /\ d.op = "log" /\ e.op = "log"
          /\ f.op = "log" /\ g.op = "read" /\ h.op = "log" /\ k.op = "close"
          /\ l.op = "commit" /\ m.op = "delete"
        BY <2>1, StepFields, Zenon
    <2>5. \A j \in 1 .. 11 : Scripts[n][j].op # "exit"
        BY <2>2, <2>4
    <2> QED BY <2>2, <2>3, <2>5
<1> QED BY <1>1, <1>2

\* A record that ends a node leaves it running no more.
LEMMA DoneStops ==
    ASSUME NEW s, StateOK(s), NEW v, SameState(s, v), NEW t, SameMarks(v.tree, t),
           NEW key, key \in DOMAIN s.tree
    PROVE  LET u == [v EXCEPT !.tree = MarkNodeDone(t, key)]
           IN  key \notin Running(u.tree)
<1>1. StateOK(v) /\ DOMAIN v.tree = DOMAIN s.tree
    BY SameStateKept DEF SameState, SameMarks
<1>2. TrailOf(t) /\ DOMAIN t = DOMAIN v.tree
    BY <1>1, SameTrail DEF StateOK, SameMarks
<1>3. /\ TrailOf(MarkNodeDone(t, key))
      /\ Running(MarkNodeDone(t, key)) = Running(t) \ {key}
      /\ DOMAIN MarkNodeDone(t, key) = DOMAIN t
    BY <1>1, <1>2, DoneTrail
<1>4. [v EXCEPT !.tree = MarkNodeDone(t, key)].tree = MarkNodeDone(t, key)
    BY <1>1, <1>2, <1>3, TreeReplaced
<1> QED BY <1>3, <1>4

LEMMA JoinedStops ==
    ASSUME NEW s, StateOK(s), NEW r, r.key # NoKey
    PROVE  r.key \notin Running(HandleJoined(s, r).tree)
<1> DEFINE key == NodeOf(s, r.key)
           v == [s EXCEPT !.joins_done = @ + 1,
                          !.join_events = IF EntryOf(s, r.pid).resumed THEN @ ELSE @ + 1]
           t == MarkUnitsDone(v.tree, key, 1)
<1>1. HandleJoined(s, r) =
        IF key = NoKey THEN v ELSE [v EXCEPT !.tree = MarkNodeDone(t, key)]
    BY DEF HandleJoined
<1>2. SameState(s, v)
    BY OthersKeep DEF StateOK
<1>3. IF key = NoKey THEN r.key \notin DOMAIN s.tree
      ELSE key = r.key /\ key \in DOMAIN s.tree
    BY DEF NodeOf
<1> HIDE DEF v, key
<1>4. SameMarks(v.tree, t)
    BY <1>2, CountsKeepMarks
<1>d. DOMAIN v.tree = DOMAIN s.tree
    BY <1>2 DEF SameState, SameMarks
<1> HIDE DEF t
<1>5. CASE key = NoKey
    BY <1>1, <1>3, <1>d, <1>5 DEF Running
<1>6. CASE key # NoKey
    <2>1. key \notin Running([v EXCEPT !.tree = MarkNodeDone(t, key)].tree)
        BY <1>2, <1>3, <1>4, <1>6, DoneStops
    <2> QED BY <1>1, <1>3, <1>6, <2>1
<1> QED BY <1>5, <1>6

LEMMA PieceStops ==
    ASSUME NEW s, StateOK(s), NEW r, r.key # NoKey
    PROVE  r.key \notin Running(HandlePiece(s, r).tree)
<1> DEFINE key == NodeOf(s, r.key)
           v == [s EXCEPT !.pieces_done = @ + 1, !.piece_events = @ + 1]
           t == MarkUnitsDone(MarkLeavesDone(v.tree, key, 1), key, 1)
<1>1. HandlePiece(s, r) =
        IF key = NoKey THEN v ELSE [v EXCEPT !.tree = MarkNodeDone(t, key)]
    BY DEF HandlePiece
<1>2. SameState(s, v)
    BY OthersKeep DEF StateOK
<1>3. IF key = NoKey THEN r.key \notin DOMAIN s.tree
      ELSE key = r.key /\ key \in DOMAIN s.tree
    BY DEF NodeOf
<1> HIDE DEF v, key
<1>4. SameMarks(v.tree, t)
    BY <1>2, CountsKeepMarks
<1>d. DOMAIN v.tree = DOMAIN s.tree
    BY <1>2 DEF SameState, SameMarks
<1> HIDE DEF t
<1>5. CASE key = NoKey
    BY <1>1, <1>3, <1>d, <1>5 DEF Running
<1>6. CASE key # NoKey
    <2>1. key \notin Running([v EXCEPT !.tree = MarkNodeDone(t, key)].tree)
        BY <1>2, <1>3, <1>4, <1>6, DoneStops
    <2> QED BY <1>1, <1>3, <1>6, <2>1
<1> QED BY <1>5, <1>6

Ends(r) == r.fn = "node_process" /\ r.action \in {"piece", "joined"}

\* Reading a line, nothing comes to run but the node it begins, never the None
\* of a range off the tree, and the node it ends runs no more.
LEMMA RunningFollows ==
    ASSUME NEW s, StateOK(s), NEW r, Line(r), NEW ts,
           Begins(r) => r.key \notin Running(s.tree)
    PROVE  LET u == FeedLine(s, r, ts)
           IN  /\ Running(u.tree) \subseteq Running(s.tree) \cup (IF Begins(r) THEN {r.key} ELSE {})
               /\ Begins(r) /\ r.key = NoKey => Running(u.tree) \subseteq Running(s.tree)
               /\ Ends(r) /\ r.key # NoKey => r.key \notin Running(u.tree)
<1> DEFINE v == IF r.fn \in Stamped THEN ThreadTick(s, ts) ELSE s
           u == FeedLine(s, r, ts)
<1>1. u = Handle(v, r, ts)
    BY DEF FeedLine
<1>2. SameState(s, v)
    BY EntryKeeps, OthersKeep
<1>3. Running(u.tree) \subseteq Running(s.tree) \cup (IF Begins(r) THEN {r.key} ELSE {})
    BY FeedLineFeeds DEF Feeds
<1> HIDE DEF v, u
<1>4. StateOK(v) /\ Running(v.tree) = Running(s.tree)
    BY <1>2, SameStateKept
<1>5. r.fn = "node_process" => u = HandleNodeProcess(v, r)
    BY <1>1, Zenon DEF Handle
<1>6. ASSUME Begins(r), r.key = NoKey PROVE Running(u.tree) \subseteq Running(s.tree)
    <2>1. u = HandleBegin(v, r)
        BY <1>5, <1>6, Zenon DEF Begins, HandleNodeProcess
    <2>2. NodeOf(v, r.key) = NoKey
        BY <1>6 DEF NodeOf
    <2>3. u.tree = v.tree
        BY <1>4, <2>1, <2>2 DEF HandleBegin, SetEntry, StateOK
    <2> QED BY <1>4, <2>3
<1>7. ASSUME Ends(r), r.key # NoKey PROVE r.key \notin Running(u.tree)
    <2>1. CASE r.action = "joined"
        <3>1. u = HandleJoined(v, r)
            BY <1>5, <1>7, <2>1, Zenon DEF Ends, HandleNodeProcess
        <3> QED BY <1>4, <1>7, <3>1, JoinedStops
    <2>2. CASE r.action = "piece"
        <3>1. u = HandlePiece(v, r)
            BY <1>5, <1>7, <2>2, Zenon DEF Ends, HandleNodeProcess
        <3> QED BY <1>4, <1>7, <3>1, PieceStops
    <2> QED BY <1>7, <2>1, <2>2 DEF Ends
<1> QED BY <1>3, <1>6, <1>7 DEF u

-----------------------------------------------------------------------------
(* The inductive invariant of the costs that are summed from the tree.     *)

\* The cost n's node is shown with.
Estimate(s, n) == IF KeyOf[n] \in DOMAIN s.tree THEN s.tree[KeyOf[n]].mem_estimate ELSE 0

\* What is shown of a task's cost, and what its worker will log of it, is no more
\* than its plan's: a donation only ever raises that.
CostWithin(s, i) ==
    LET cost == plan[tasks[i]].mem_cost
    IN  /\ Estimate(s, tasks[i]) <= cost
        /\ tasks[i] \in DOMAIN s.active => s.active[tasks[i]].mem <= cost
        /\ forked[i].mem_cost <= cost

CostsWithin(s) ==
    /\ \A n \in Node : ~Begun(n) => Estimate(s, n) = 0
    /\ \A i \in S!Active : CostWithin(s, i)

\* A worker that has not logged the end of its node.
Working(i) == \/ phase[i] = "failed"
              \/ phase[i] \in S!Live /\ at[i] < Len(Scripts[tasks[i]])

WorkedBy(i, k) == k = KeyOf[tasks[i]] /\ Working(i)

\* A node is shown running for as long as a task of its own is at it.
RunningWorked(s) ==
    /\ NoKey \notin Running(s.tree)
    /\ Whole /\ pc # "down" => \A k \in Running(s.tree) : \E i \in S!Active : WorkedBy(i, k)

EstInv == BookInv /\ CostsWithin(st) /\ RunningWorked(st)

\* A node has the cost it had, none, its entry's or the one its worker logs.
LEMMA EstimateFrom ==
    ASSUME NEW s, NEW u, NEW r, Copied(s, u, r), LendingOK(u), NEW n \in Node
    PROVE  \/ Estimate(u, n) = 0
           \/ Estimate(u, n) = Estimate(s, n)
           \/ Joins(r) /\ KeyOf[n] = r.key /\ Estimate(u, n) = r.mem
           \/ n \in DOMAIN u.active /\ Estimate(u, n) = u.active[n].mem
<1>1. CASE KeyOf[n] \notin DOMAIN u.tree
    BY <1>1 DEF Estimate
<1>2. CASE KeyOf[n] \in DOMAIN u.tree
    <2>1. CostFrom(s, u, r, KeyOf[n]) /\ Estimate(u, n) = u.tree[KeyOf[n]].mem_estimate
        BY <1>2 DEF Copied, Estimate
    <2>2. ASSUME NEW p \in DOMAIN u.active, KeyOf[n] = KeyOf[p] PROVE p = n
        BY <2>2, KeyAssumption DEF LendingOK
    <2> QED BY <2>1, <2>2 DEF CostFrom, Estimate
<1> QED BY <1>1, <1>2

LEMMA EstimateIsCost ==
    ASSUME NEW s, Costed(s), NEW n
    PROVE  Estimate(s, n) \in Nat
BY DEF Costed, Rated, Estimate

\* A step that leaves the dashboard and every task that goes on as they are, or
\* raises the cost of its plan.
LEMMA SettledCosts ==
    ASSUME BookInv, CostsWithin(st), BookInv', st' = st,
           \A n \in Node : Begun(n) => Begun(n)',
           \A i \in (S!Active)' :
              \/ /\ i \in S!Active /\ tasks'[i] = tasks[i] /\ forked'[i] = forked[i]
                 /\ plan[tasks[i]].mem_cost <= plan'[tasks[i]].mem_cost
              \/ ~Begun(tasks'[i]) /\ forked'[i] = plan'[tasks'[i]]
    PROVE  CostsWithin(st)'
<1>1. \A n : Estimate(st, n)' = Estimate(st, n)
    BY DEF Estimate
<1>2. ASSUME NEW i \in (S!Active)' PROVE CostWithin(st, i)'
    <2>1. PICK n : n = tasks'[i]
        OBVIOUS
    <2> DEFINE e == st.active[n]
    <2>2. n \in Node /\ plan' \in [Node -> Plans] /\ i \in S!Slots
        <3>1. P!IInv' /\ P!GInv' /\ P!TypeOK'
            BY DEF BookInv, UtilInv, LentInv, TrailInv, P!IInv
        <3>2. plan' \in [Node -> [threads : 0 .. NProcess, mem_cost : Nat]]
            BY <3>1 DEF P!TypeOK
        <3>3. 0 .. NProcess \subseteq Nat
            BY ProgramAssumption DEF S!BudgetAssumption
        <3>4. plan' \in [Node -> Plans]
            BY <3>2, <3>3 DEF Plans
        <3> QED BY <2>1, <3>1, <3>4, NewBooks
    <2>3. plan'[n].mem_cost \in Nat /\ Estimate(st, n) \in Nat
        BY <2>2, EstimateIsCost DEF Plans, BookInv
    <2>4. n \in DOMAIN st.active => st.active[n].mem \in Nat
        BY DEF BookInv, Costed
    <2>5. /\ Estimate(st, n) <= plan'[n].mem_cost
          /\ n \in DOMAIN st.active => st.active[n].mem <= plan'[n].mem_cost
          /\ forked'[i].mem_cost <= plan'[n].mem_cost
        <3>1. CASE /\ i \in S!Active /\ tasks'[i] = tasks[i] /\ forked'[i] = forked[i]
                   /\ plan[tasks[i]].mem_cost <= plan'[tasks[i]].mem_cost
            <4>1. CostWithin(st, i) /\ n = tasks[i] /\ plan[n].mem_cost \in Nat
                BY <2>1, <2>2, <3>1, BookFacts DEF CostsWithin, Plans
            <4>2. forked[i].mem_cost \in Nat
                BY <2>2 DEF BookInv, Plans
            <4>3. plan[n].mem_cost <= plan'[n].mem_cost /\ forked'[i].mem_cost = forked[i].mem_cost
                BY <3>1, <4>1
            <4> QED BY <2>3, <2>4, <4>1, <4>2, <4>3 DEF CostWithin
        <3>2. CASE ~Begun(tasks'[i]) /\ forked'[i] = plan'[tasks'[i]]
            <4>1. ~Begun(n) /\ forked'[i] = plan'[n]
                BY <2>1, <3>2
            <4>2. Estimate(st, n) = 0 /\ n \notin DOMAIN st.active
                BY <2>2, <4>1, BookFacts DEF CostsWithin, LentInv, Unlent
            <4> QED BY <2>3, <4>1, <4>2
        <3> QED BY <3>1, <3>2
    <2> QED BY <2>1, <2>5 DEF CostWithin, Estimate
<1>3. \A n \in Node : ~Begun(n)' => Estimate(st, n)' = 0
    BY <1>1 DEF CostsWithin
<1> QED BY <1>2, <1>3 DEF CostsWithin

\* A step that leaves what is shown running as it is.
LEMMA SettledRunning ==
    ASSUME RunningWorked(st), st' = st, lost' = lost,
           pc' # "down" =>
              /\ pc # "down"
              /\ \A i \in S!Active : Working(i) =>
                    i \in (S!Active)' /\ tasks'[i] = tasks[i] /\ Working(i)'
    PROVE  RunningWorked(st)'
<1>1. Running(st.tree)' = Running(st.tree) /\ (Whole' <=> Whole)
    BY DEF Running, Whole
<1>2. ASSUME Whole', pc' # "down", NEW k \in Running(st.tree)
      PROVE  \E i \in (S!Active)' : WorkedBy(i, k)'
    <2>1. PICK i \in S!Active : WorkedBy(i, k)
        BY <1>1, <1>2 DEF RunningWorked
    <2>2. i \in (S!Active)' /\ tasks'[i] = tasks[i] /\ Working(i)'
        BY <1>2, <2>1 DEF WorkedBy
    <2>3. KeyOf[tasks'[i]] = k
        BY <2>1, <2>2 DEF WorkedBy
    <2>4. WorkedBy(i, k)'
        BY <2>2, <2>3 DEF WorkedBy
    <2> QED BY <2>2, <2>4
<1> QED BY <1>1, <1>2 DEF RunningWorked

\* A line that reaches the dashboard says no more of a cost than the plans do.
LEMMA LineCosts ==
    ASSUME BookInv, CostsWithin(st), NEW u, LendingOK(u), Unlent(u), NEW r, Copied(st, u, r),
           Books(r) => r.mem = plan[r.pid].mem_cost,
           Joins(r) => \E i \in S!Active : /\ r.key = KeyOf[tasks[i]]
                                           /\ r.mem = forked[i].mem_cost
    PROVE  CostsWithin(u)
<1>0. /\ \A i \in S!Active : i \in S!Slots /\ tasks[i] \in Node /\ Begun(tasks[i])
      /\ \A i, j \in S!Active : i # j => tasks[i] # tasks[j]
      /\ plan \in [Node -> Plans]
    BY BookFacts, ActiveFacts, ComputingFacts
<1>1. Costed(u) /\ \A p \in DOMAIN u.active : u.active[p].mem = ShownCost(st, r, p)
    BY DEF Copied
<1>2. ASSUME NEW n \in Node, ~Begun(n) PROVE Estimate(u, n) = 0
    <2>1. Estimate(st, n) = 0 /\ n \notin DOMAIN u.active
        BY <1>2 DEF CostsWithin, Unlent
    <2>2. ~(Joins(r) /\ KeyOf[n] = r.key)
        <3> SUFFICES ASSUME Joins(r), KeyOf[n] = r.key PROVE FALSE
            OBVIOUS
        <3>1. PICK i \in S!Active : r.key = KeyOf[tasks[i]]
            OBVIOUS
        <3>2. tasks[i] = n
            BY <1>0, <3>1, KeyAssumption
        <3> QED BY <1>0, <1>2, <3>2
    <2> QED BY <2>1, <2>2, EstimateFrom
<1>3. ASSUME NEW i \in S!Active PROVE CostWithin(u, i)
    <2>1. PICK n \in Node : n = tasks[i]
        BY <1>0
    <2>2. /\ Estimate(st, n) <= plan[n].mem_cost
          /\ n \in DOMAIN st.active => st.active[n].mem <= plan[n].mem_cost
          /\ forked[i].mem_cost <= plan[n].mem_cost
        BY <2>1 DEF CostsWithin, CostWithin
    <2>3. plan[n].mem_cost \in Nat /\ Estimate(u, n) \in Nat
        BY <1>0, <1>1, EstimateIsCost DEF Plans
    <2>4. ASSUME n \in DOMAIN u.active PROVE u.active[n].mem <= plan[n].mem_cost
        <3>1. u.active[n].mem = ShownCost(st, r, n)
            BY <1>1, <2>4
        <3>2. CASE Books(r) /\ n = r.pid
            BY <2>3, <3>1, <3>2 DEF ShownCost
        <3>3. CASE ~(Books(r) /\ n = r.pid)
            <4>1. u.active[n].mem = EntryOf(st, n).mem
                BY <3>1, <3>3 DEF ShownCost
            <4>2. n \notin DOMAIN st.active => u.active[n].mem = 0
                BY <4>1 DEF EntryOf, Known, NewEntry
            <4> QED BY <2>2, <2>3, <4>1, <4>2 DEF EntryOf, Known
        <3> QED BY <3>2, <3>3
    <2>5. Estimate(u, n) <= plan[n].mem_cost
        <3>1. CASE Joins(r) /\ KeyOf[n] = r.key /\ Estimate(u, n) = r.mem
            <4>1. PICK j \in S!Active : r.key = KeyOf[tasks[j]] /\ r.mem = forked[j].mem_cost
                BY <3>1
            <4>2. tasks[j] = tasks[i]
                BY <1>0, <2>1, <3>1, <4>1, KeyAssumption
            <4>3. j = i
                BY <1>0, <4>2
            <4> QED BY <2>2, <3>1, <4>1, <4>3
        <3> QED BY <2>2, <2>3, <2>4, <3>1, EstimateFrom
    <2> QED BY <2>1, <2>2, <2>4, <2>5 DEF CostWithin
<1> QED BY <1>2, <1>3 DEF CostsWithin

LEMMA SchedulerLogsCosts ==
    ASSUME EstInv, BookInv', SchedulerLogs
    PROVE  CostsWithin(st)' /\ RunningWorked(st)'
<1> DEFINE r == Head(out)
<1>0. BookInv /\ CostsWithin(st) /\ RunningWorked(st)
    BY DEF EstInv
<1>1. /\ UNCHANGED <<pc, plan, tasks, forked, status, phase, at>>
      /\ (S!Active)' = S!Active
      /\ Line(r) /\ Reckoned(r)
      /\ Drops(r) \/ Books(r) \/ Configures(r) \/ Notes(r)
    BY <1>0, HeadSent DEF program, workers, S!Active, S!Slots
<1> HIDE DEF r
<1>2. ~Begins(r) /\ ~Joins(r)
    BY <1>1, Zenon DEF Begins, Joins, Drops, Books, Starts, Donates, Configures, Notes
<1>3. CASE st' = st
    <2>1. CostsWithin(st)'
        BY <1>0, <1>1, <1>3 DEF CostsWithin, CostWithin, Estimate, Begun
    <2>2. Running(st.tree)' = Running(st.tree)
        BY <1>3 DEF Running
    <2>3. Whole' => Whole
        <3>1. lost.run \in Nat
            BY <1>0, BookFacts DEF LentInv
        <3> QED BY <3>1 DEF SchedulerLogs, Feed, Whole
    <2> QED BY <1>0, <1>1, <2>1, <2>2, <2>3 DEF RunningWorked, WorkedBy, Working
<1>4. CASE lost' = lost /\ \E ts \in 0 .. clock : st' = FeedLine(st, r, ts)
    <2>1. PICK ts \in 0 .. clock : st' = FeedLine(st, r, ts)
        BY <1>4
    <2>2. Copied(st, st', r)
        BY <1>0, <2>1, BookFacts, HeadSent, FeedLineCopied DEF BookInv, r
    <2>3. LendingOK(st') /\ Unlent(st')
        BY <1>1 DEF BookInv, UtilInv, LentInv, Unlent, Begun, LendingOK
    <2>4. CostsWithin(st')
        BY <1>0, <1>1, <1>2, <2>2, <2>3, LineCosts DEF Reckoned
    <2>5. CostsWithin(st)'
        BY <1>1, <2>4 DEF CostsWithin, CostWithin, Estimate, Begun
    <2>6. Running(st'.tree) \subseteq Running(st.tree)
        BY <1>0, <1>1, <1>2, <2>1, BookFacts, RunningFollows DEF TrailInv
    <2>7. (Whole' <=> Whole) /\ Running(st.tree)' = Running(st'.tree)
        BY <1>4 DEF Whole, Running
    <2> QED BY <1>0, <1>1, <2>5, <2>6, <2>7 DEF RunningWorked, WorkedBy, Working
<1>5. st' = st \/ (lost' = lost /\ \E ts \in 0 .. clock : st' = FeedLine(st, r, ts))
    <2>1. clock \in Nat
        BY <1>0, BookFacts DEF UtilInv
    <2> QED BY <2>1 DEF SchedulerLogs, Feed, r
<1> QED BY <1>3, <1>4, <1>5

\* The line that begins a node is its worker's first, and the line that ends it the
\* last but for the exit.
LEMMA FirstAndLast ==
    ASSUME TrailInv, NEW i \in Computing, Now(i).r # Silent
    PROVE  /\ Begins(Record(i)) => at[i] = 1
           /\ at[i] = Len(Scripts[tasks[i]]) - 1 => Ends(Record(i))
<1> DEFINE n == tasks[i]
           r == Record(i)
<1>1. n \in Node /\ at[i] \in 1 .. Len(Scripts[n])
    BY ComputingFacts DEF TrailInv, ScriptsFollowed, Computing
<1>2. ASSUME at[i] # 1 PROVE ~Begins(r)
    <2>1. at[i] \in 2 .. Len(Scripts[n])
        BY <1>1, <1>2
    <2>2. Later(n, Now(i))
        BY <1>1, <2>1, ScriptFacts DEF Now
    <2>3. CASE Now(i).r.fn = "split_piece"
        <3>1. r.fn = "split_piece"
            BY <2>3 DEF Record
        <3> HIDE DEF r
        <3> QED BY <3>1, Zenon DEF Begins
    <2>4. CASE \E action \in NodeActions \ {"begin"} : Now(i).r = NodeLine(n, action, 0)
        <3>1. PICK action \in NodeActions \ {"begin"} : Now(i).r = NodeLine(n, action, 0)
            BY <2>4
        <3>2. r.fn = "node_process" /\ r.action = action
            BY <3>1 DEF Record, NodeLine
        <3> HIDE DEF r
        <3> QED BY <3>1, <3>2 DEF Begins
    <2> QED BY <2>2, <2>3, <2>4 DEF Later
<1>3. ASSUME at[i] = Len(Scripts[n]) - 1 PROVE Ends(r)
    <2>1. PICK action \in {"piece", "joined"} : Now(i).r = NodeLine(n, action, 0)
        BY <1>1, <1>3, ScriptEnds DEF Now
    <2>2. NodeLine(n, action, 0).fn = "node_process" /\ NodeLine(n, action, 0).action = action
        BY DEF NodeLine
    <2>3. r.fn = "node_process" /\ r.action = action
        BY <2>1, <2>2 DEF Record
    <2> HIDE DEF r
    <2> QED BY <2>3 DEF Ends
<1> QED BY <1>2, <1>3

\* A worker runs on until the last step of its script.
LEMMA RunsOn ==
    ASSUME TrailInv, NEW i \in S!Slots, WorkerSteps(i), at[i] < Len(Scripts[tasks[i]])
    PROVE  phase'[i] \in S!Live
<1>1. /\ tasks[i] \in Node /\ at[i] \in 1 .. Len(Scripts[tasks[i]])
      /\ phase[i] \in S!Live /\ phase \in [S!Slots -> P!Phases]
    BY WorkerMoves, WorkerFacts DEF TrailInv, ScriptsFollowed
<1>2. Len(Scripts[tasks[i]]) \in Nat
    BY <1>1, ScriptEnds
<1>3. at[i] \in 1 .. Len(Scripts[tasks[i]]) - 1
    BY <1>1, <1>2
<1>4. Now(i).op # "exit"
    BY <1>1, <1>3, ScriptEnds DEF Now
<1>5. UNCHANGED program \/ S!CloseSlot(i) \/ S!Commit(i) \/ S!DeleteLeft(i)
    BY <1>4 DEF WorkerSteps
<1>6. CASE UNCHANGED program
    BY <1>1, <1>6 DEF program
<1>7. CASE S!CloseSlot(i) \/ S!Commit(i) \/ S!DeleteLeft(i)
    <2>1. phase'[i] \in {"closed", "committed", "deleting"}
        BY <1>1, <1>7 DEF S!CloseSlot, S!Commit, S!DeleteLeft
    <2> QED BY <2>1 DEF S!Live
<1> QED BY <1>5, <1>6, <1>7

LEMMA WorkerStepsCosts ==
    ASSUME EstInv, BookInv', NEW i \in S!Slots, WorkerSteps(i)
    PROVE  CostsWithin(st)'
<1> DEFINE r == Record(i)
<1>0. BookInv /\ CostsWithin(st) /\ TrailInv /\ P!IInv
    BY BookFacts DEF EstInv
<1>1. /\ UNCHANGED <<plan, tasks, forked, status>>
      /\ (S!Active)' = S!Active
    <2>1. tasks' = tasks /\ status' = status /\ forked' = forked
        BY <1>0, WorkerMoves DEF WorkerSteps
    <2>2. plan' = plan
        BY DEF WorkerSteps, program, S!CloseSlot, S!Commit, S!DeleteLeft, S!Exit, S!sched
    <2> QED BY <2>1, <2>2 DEF S!Active, S!Slots
<1>2. CASE st' = st
    BY <1>0, <1>1, <1>2 DEF CostsWithin, CostWithin, Estimate, Begun
<1>3. CASE Now(i).r # Silent /\ \E ts \in 0 .. clock : st' = FeedLine(st, r, ts)
    <2>1. PICK ts \in 0 .. clock : st' = FeedLine(st, r, ts)
        BY <1>3
    <2>2. i \in Computing
        BY DEF Computing, WorkerSteps, Alive
    <2>3. /\ Mine(tasks[i], r) /\ tasks[i] \in Node /\ i \in S!Active
          /\ Line(r) /\ Sent(st, r) /\ ~Books(r)
          /\ Joins(r) => r.mem = forked[i].mem_cost
        BY <1>0, <1>3, <2>2, RecordSent
    <2> HIDE DEF r
    <2>4. Copied(st, st', r)
        BY <1>0, <2>1, <2>3, BookFacts, FeedLineCopied DEF BookInv
    <2>5. LendingOK(st') /\ Unlent(st')
        BY <1>1 DEF BookInv, UtilInv, LentInv, Unlent, Begun, LendingOK
    <2>6. Joins(r) => r.key = KeyOf[tasks[i]]
        BY <2>3, Zenon DEF Joins, Mine
    <2>7. CostsWithin(st')
        BY <1>0, <2>3, <2>4, <2>5, <2>6, LineCosts
    <2> QED BY <1>1, <2>7 DEF CostsWithin, CostWithin, Estimate, Begun
<1>4. st' = st \/ (Now(i).r # Silent /\ \E ts \in 0 .. clock : st' = FeedLine(st, r, ts))
    <2>1. clock \in Nat
        BY <1>0, BookFacts DEF UtilInv
    <2> QED BY <2>1 DEF WorkerSteps, Feed
<1> QED BY <1>2, <1>3, <1>4

LEMMA WorkerStepsRunning ==
    ASSUME EstInv, BookInv', NEW i \in S!Slots, WorkerSteps(i)
    PROVE  RunningWorked(st)'
<1> DEFINE r == Record(i)
<1>0. BookInv /\ RunningWorked(st) /\ TrailInv /\ P!IInv
    BY BookFacts DEF EstInv
<1>1. PICK n \in Node : n = tasks[i]
    BY <1>0, WorkerMoves, WorkerFacts
<1>2. /\ tasks' = tasks /\ at' = [at EXCEPT ![i] = @ + 1] /\ phase[i] \in S!Live
      /\ \A j \in S!Slots \ {i} : phase'[j] = phase[j]
      /\ (S!Active)' = S!Active /\ pc' = pc
      /\ i \in Computing /\ i \in S!Active /\ at \in [S!Slots -> Nat]
      /\ at[i] \in 1 .. Len(Scripts[n]) /\ Len(Scripts[n]) \in Nat \ {0, 1}
    <2>1. /\ tasks' = tasks /\ at' = [at EXCEPT ![i] = @ + 1] /\ phase[i] \in S!Live
          /\ \A j \in S!Slots \ {i} : phase'[j] = phase[j]
        BY <1>0, WorkerMoves
    <2>2. pc' = pc
        BY DEF WorkerSteps, program, S!CloseSlot, S!Commit, S!DeleteLeft, S!Exit, S!sched
    <2>3. i \in Computing /\ i \in S!Active
        BY <1>0, <2>1, ComputingFacts DEF Computing
    <2>4. at[i] \in 1 .. Len(Scripts[n]) /\ at \in [S!Slots -> Nat]
        BY <1>0, <1>1, <2>1 DEF TrailInv, ScriptsFollowed
    <2> QED BY <2>1, <2>2, <2>3, <2>4, ScriptEnds DEF S!Active, S!Slots
<1>3. \A j \in S!Active : j \in S!Slots /\ (tasks[j] = n => j = i) /\ tasks[j] \in Node
    BY <1>0, <1>1, <1>2, ActiveFacts
\* What the line may set running, and the node it stops.
<1>4. PICK new :
        /\ Running(st'.tree) \subseteq Running(st.tree) \cup new
        /\ NoKey \notin new /\ new \subseteq {KeyOf[n]}
        /\ at[i] # 1 => new = {}
        /\ Whole' => Whole
        /\ Whole' /\ at[i] = Len(Scripts[n]) - 1 /\ KeyOf[n] # NoKey =>
                KeyOf[n] \notin Running(st'.tree)
    <2>1. CASE Now(i).r = Silent
        <3>1. st' = st /\ lost' = lost
            BY <2>1 DEF WorkerSteps
        <3>2. at[i] # Len(Scripts[n]) - 1
            <4> SUFFICES ASSUME at[i] = Len(Scripts[n]) - 1 PROVE FALSE
                OBVIOUS
            <4>1. PICK action : Now(i).r = NodeLine(n, action, 0)
                BY <1>1, ScriptEnds DEF Now
            <4> QED BY <2>1, <4>1 DEF Silent, NodeLine
        <3> QED BY <3>1, <3>2 DEF Whole
    <2>2. CASE /\ st' = st /\ lost' = [run |-> lost.run + 1, all |-> lost.all + 1]
        <3>1. lost.run \in Nat
            BY <1>0, BookFacts DEF LentInv
        <3>2. ~Whole'
            BY <2>2, <3>1 DEF Whole
        <3> WITNESS {}
        <3> QED BY <2>2, <3>2
    <2>3. CASE Now(i).r # Silent /\ lost' = lost /\ \E ts \in 0 .. clock : st' = FeedLine(st, r, ts)
        <3>1. PICK ts \in 0 .. clock : st' = FeedLine(st, r, ts)
            BY <2>3
        <3>2. Mine(n, r) /\ Line(r)
            BY <1>0, <1>1, <1>2, <2>3, RecordSent
        <3>3. /\ Begins(r) => at[i] = 1
              /\ at[i] = Len(Scripts[n]) - 1 => Ends(r)
            BY <1>0, <1>1, <1>2, <2>3, FirstAndLast
        <3> HIDE DEF r
        <3>4. (Begins(r) \/ Ends(r)) => r.key = KeyOf[n]
            BY <3>2, Zenon DEF Begins, Ends, Mine
        <3>5. Begins(r) => r.key \notin Running(st.tree)
            BY <1>0, <1>1, <1>2, <3>3, <3>4 DEF TrailInv, ScriptsFollowed
        <3>6. StateOK(st)
            BY <1>0 DEF TrailInv
        <3>7. /\ Running(st'.tree) \subseteq
                    Running(st.tree) \cup (IF Begins(r) THEN {r.key} ELSE {})
              /\ Begins(r) /\ r.key = NoKey => Running(st'.tree) \subseteq Running(st.tree)
              /\ Ends(r) /\ r.key # NoKey => r.key \notin Running(st'.tree)
            BY <3>1, <3>2, <3>5, <3>6, RunningFollows
        <3> WITNESS IF Begins(r) /\ r.key # NoKey THEN {KeyOf[n]} ELSE {}
        <3> QED BY <2>3, <3>3, <3>4, <3>7 DEF Whole
    <2>4. clock \in Nat
        BY <1>0, BookFacts DEF UtilInv
    <2> QED BY <2>1, <2>2, <2>3, <2>4 DEF WorkerSteps, Feed
<1>5. NoKey \notin Running(st'.tree) /\ Running(st.tree)' = Running(st'.tree)
    BY <1>0, <1>4 DEF RunningWorked, Running
<1>6. ASSUME Whole', pc # "down", NEW k \in Running(st'.tree)
      PROVE  \E j \in S!Active : WorkedBy(j, k)'
    <2>1. k \in Running(st.tree) => \E j \in S!Active : WorkedBy(j, k)
        BY <1>0, <1>4, <1>6 DEF RunningWorked
    <2>2. CASE k # KeyOf[n]
        <3>1. PICK j \in S!Active : WorkedBy(j, k)
            BY <1>4, <2>1, <2>2
        <3>2. j # i /\ j \in S!Slots
            BY <1>1, <1>3, <2>2, <3>1 DEF WorkedBy
        <3>3. phase'[j] = phase[j] /\ at'[j] = at[j] /\ tasks' = tasks
            BY <1>2, <3>2
        <3>4. WorkedBy(j, k)'
            BY <3>1, <3>3 DEF WorkedBy, Working
        <3> QED BY <3>4
    <2>3. CASE k = KeyOf[n]
        <3>1. at[i] # Len(Scripts[n])
            <4> SUFFICES ASSUME at[i] = Len(Scripts[n]) PROVE FALSE
                OBVIOUS
            <4>1. at[i] # 1
                BY <1>2
            <4>2. PICK j \in S!Active : WorkedBy(j, k)
                BY <1>4, <2>1, <4>1
            <4>3. tasks[j] = n
                BY <1>3, <2>3, <4>2, KeyAssumption DEF WorkedBy
            <4>4. Working(i)
                BY <1>3, <4>2, <4>3 DEF WorkedBy
            <4> QED BY <1>1, <1>2, <4>4 DEF Working, S!Live
        <3>2. at[i] # Len(Scripts[n]) - 1
            BY <1>4, <1>5, <1>6, <2>3
        <3>3. at[i] + 1 < Len(Scripts[n]) /\ at'[i] = at[i] + 1
            BY <1>2, <3>1, <3>2
        <3>4. phase'[i] \in S!Live
            BY <1>0, <1>1, <1>2, <3>3, RunsOn
        <3>5. tasks'[i] = n
            BY <1>1, <1>2
        <3>6. WorkedBy(i, k)'
            BY <2>3, <3>3, <3>4, <3>5 DEF WorkedBy, Working, S!Live
        <3> QED BY <1>2, <3>6
    <2> QED BY <2>2, <2>3
<1> QED BY <1>2, <1>5, <1>6 DEF RunningWorked

\* A donation costs its task no less than it did.
LEMMA DonationCosts ==
    ASSUME BookInv, BookInv', NEW n \in Node, NEW i \in S!Active, i \in (S!Active)',
           tasks[i] = n, tasks'[i] = n, plan[n].threads <= plan'[n].threads
    PROVE  plan[n].mem_cost <= plan'[n].mem_cost
<1>0. /\ P!GInv /\ P!IInv /\ P!TypeOK /\ P!GInv' /\ P!IInv' /\ P!TypeOK'
      /\ NProcess \in Nat
    BY ProgramAssumption
       DEF BookInv, UtilInv, LentInv, TrailInv, P!IInv, S!BudgetAssumption
<1>1. i \in P!Active /\ i \in (P!Active)'
    BY SameBooks DEF P!Active, S!Active, P!Slots, S!Slots
<1>2. /\ plan[n].mem_cost = S!NodeEstimateMemory(n, plan[n].threads)
      /\ plan'[n].mem_cost = S!NodeEstimateMemory(n, plan'[n].threads)
    <2>1. plan[n].mem_cost = P!NodeEstimateMemory(n, plan[n].threads)
        BY <1>0, <1>1 DEF P!GInv, P!PlansPriced
    <2>2. plan'[n].mem_cost = P!NodeEstimateMemory(n, plan'[n].threads)
        BY <1>0, <1>1 DEF P!GInv, P!PlansPriced, P!NodeEstimateMemory, P!NodeIsLeaf, P!Kids
    <2> QED BY <2>1, <2>2, SameThreads
<1>3. plan[n].threads \in 1 .. NProcess
    <2>1. plan[n].threads >= 1
        BY <1>0, <1>1 DEF P!IInv, P!PlansPositive
    <2>2. plan[n].threads \in 0 .. NProcess
        BY <1>0 DEF P!TypeOK
    <2> QED BY <1>0, <2>1, <2>2
<1>4. plan'[n].threads \in 1 .. NProcess
    <2>1. plan'[n].threads \in 0 .. NProcess
        BY <1>0 DEF P!TypeOK
    <2> QED BY <1>0, <1>3, <2>1
<1>5. CASE S!NodeIsLeaf(n)
    <2>1. LeafCost \in Nat
        BY ProgramAssumption DEF S!CostAssumption
    <2> QED BY <1>2, <1>5, <2>1 DEF S!NodeEstimateMemory
<1>6. CASE ~S!NodeIsLeaf(n)
    BY <1>2, <1>3, <1>4, <1>6, FanOutAssumption DEF S!NodeEstimateMemory
<1> QED BY <1>5, <1>6

LEMMA LaunchCosts ==
    ASSUME EstInv, BookInv', Launch
    PROVE  CostsWithin(st)' /\ RunningWorked(st)'
<1>0. /\ BookInv /\ CostsWithin(st) /\ RunningWorked(st) /\ LentInv /\ TrailInv' /\ P!GInv'
      /\ P!IInv /\ plan \in [Node -> Plans]
    BY BookFacts DEF EstInv, BookInv, UtilInv, LentInv
<1>1. PICK i \in S!Slots, n \in Node, lines \in StoredLines : Launches(i, n, lines)
    BY <1>0, LaunchFacts
<1>2. /\ st' = st /\ lost' = lost /\ i \notin S!Active
      /\ tasks'[i] = n /\ forked' = [forked EXCEPT ![i] = plan'[n]] /\ ~Begun(n)
      /\ \A m \in Node : Begun(m) => Begun(m)'
      /\ \A j \in S!Slots \ {i} : tasks'[j] = tasks[j] /\ at'[j] = at[j] /\ phase'[j] = phase[j]
    BY <1>1 DEF Launches
<1>3. pc' = pc /\ pc = "launch" /\ plan' = [plan EXCEPT ![n] = plan'[n]]
    <2>1. \E p : plan' = [plan EXCEPT ![n] = p]
        BY <1>1 DEF Launches, S!TaskStart
    <2> QED BY <1>0, <2>1 DEF Launch, S!Launch
<1>4. ~Begun(tasks'[i]) /\ forked'[i] = plan'[tasks'[i]]
    <2>1. forked'[i] = plan'[n]
        BY <1>0, <1>2 DEF BookInv
    <2> QED BY <1>2, <2>1
<1>5. ASSUME NEW j \in (S!Active)', j # i
      PROVE  /\ j \in S!Active /\ tasks'[j] = tasks[j] /\ forked'[j] = forked[j]
             /\ plan[tasks[j]].mem_cost <= plan'[tasks[j]].mem_cost
    <2>1. j \in S!Active /\ tasks'[j] = tasks[j]
        BY <1>2, <1>5 DEF S!Active, S!Slots
    <2>2. tasks[j] \in Node /\ tasks[j] # n
        BY <1>0, <1>2, <2>1, ComputingFacts
    <2>3. plan'[tasks[j]] = plan[tasks[j]] /\ plan[tasks[j]].mem_cost \in Nat
        BY <1>0, <1>3, <2>2 DEF Plans
    <2>4. forked'[j] = forked[j]
        BY <1>0, <1>2, <1>5 DEF BookInv, S!Active
    <2> QED BY <2>1, <2>3, <2>4
<1>6. CostsWithin(st)'
    BY <1>0, <1>2, <1>4, <1>5, SettledCosts
<1>7. \A j \in S!Active : Working(j) =>
        j \in (S!Active)' /\ tasks'[j] = tasks[j] /\ Working(j)'
    <2> SUFFICES ASSUME NEW j \in S!Active, Working(j)
                 PROVE  j \in (S!Active)' /\ tasks'[j] = tasks[j] /\ Working(j)'
        OBVIOUS
    <2>1. j \in S!Slots \ {i}
        BY <1>2 DEF S!Active
    <2>2. tasks'[j] = tasks[j] /\ at'[j] = at[j] /\ phase'[j] = phase[j]
        BY <1>2, <2>1
    <2> QED BY <2>1, <2>2 DEF S!Active, S!Slots, Working
<1>8. RunningWorked(st)'
    BY <1>0, <1>2, <1>3, <1>7, SettledRunning
<1> QED BY <1>6, <1>8

\* A step that leaves the tasks and their workers as they are.
LEMMA QuietCosts ==
    ASSUME EstInv, BookInv', UNCHANGED <<st, lost, forked, tasks, phase, at>>,
           pc' # "down" => pc # "down",
           \A n \in Node : Begun(n) => Begun(n)',
           \A i \in S!Active : plan[tasks[i]].mem_cost <= plan'[tasks[i]].mem_cost
    PROVE  CostsWithin(st)' /\ RunningWorked(st)'
<1>1. (S!Active)' = S!Active
    BY DEF S!Active, S!Slots
<1>2. CostsWithin(st)'
    BY <1>1, SettledCosts DEF EstInv
<1>3. \A i \in S!Active : Working(i) => Working(i)'
    BY DEF Working
<1> QED BY <1>1, <1>2, <1>3, SettledRunning DEF EstInv

\* Likewise one that leaves the plans, too.
LEMMA SameCosts ==
    ASSUME EstInv, BookInv', UNCHANGED <<st, lost, forked, tasks, phase, at, plan>>,
           pc' # "down" => pc # "down",
           \A n \in Node : Begun(n) => Begun(n)'
    PROVE  CostsWithin(st)' /\ RunningWorked(st)'
<1>1. \A i \in S!Active : plan[tasks[i]].mem_cost \in Nat /\ plan' = plan
    BY BookFacts, ActiveFacts DEF EstInv, Plans
<1> QED BY <1>1, QuietCosts

LEMMA EndLaunchCosts ==
    ASSUME EstInv, BookInv', EndLaunch
    PROVE  CostsWithin(st)' /\ RunningWorked(st)'
<1>1. /\ UNCHANGED <<plan, tasks, st, lost, forked, phase, at>>
      /\ pc = "launch"
      /\ status' = status \/ status' = S!Walked
    BY DEF EndLaunch, S!EndLaunch, S!workers, workers
<1>2. \A n \in Node : Begun(n) => Begun(n)'
    BY <1>1, BookFacts, WalkFacts DEF EstInv, Begun
<1> QED BY <1>1, <1>2, SameCosts

LEMMA DonateCosts ==
    ASSUME EstInv, BookInv', Donate
    PROVE  CostsWithin(st)' /\ RunningWorked(st)'
<1>0. /\ BookInv /\ P!IInv /\ plan \in [Node -> Plans]
      /\ \A i \in S!Active : i \in S!Slots /\ tasks[i] \in Node
      /\ \A i, j \in S!Active : i # j => tasks[i] # tasks[j]
    BY BookFacts, ActiveFacts DEF EstInv
<1>1. /\ UNCHANGED <<forked, lost, st, at, tasks, phase, status>>
      /\ pc # "down" /\ (S!Active)' = S!Active
    <2>1. UNCHANGED <<forked, lost, st, at>>
        BY DEF Donate, workers
    <2>2. UNCHANGED <<tasks, status, phase>> /\ pc # "down"
        BY DEF Donate, S!DonateLoad, S!DonateRefused, S!DonateAccepted, S!DonateEnd, S!workers
    <2> QED BY <2>1, <2>2 DEF S!Active, S!Slots
<1>2. \A n \in Node : Begun(n) => Begun(n)'
    BY <1>1 DEF Begun
<1>3. CASE UNCHANGED plan
    BY <1>1, <1>2, <1>3, SameCosts
<1>4. CASE S!DonateAccepted
    <2> DEFINE n == tasks[di]
    <2>1. PICK t : t = S!OfferThreads(n)
        OBVIOUS
    <2>2. pc = "offer" /\ t > plan[n].threads
          /\ \E m : plan' = [plan EXCEPT ![n] = [threads |-> t, mem_cost |-> m]]
        BY <1>4, <2>1 DEF S!DonateAccepted, S!OfferHolds
    <2>3. di \in S!Active /\ n \in Node
        BY <1>0, <2>2, SameBooks DEF P!IInv, P!TasksKnown
    <2>4. plan'[n].threads = t /\ plan'[n] \in Plans /\ plan[n].threads \in Nat
        <3>1. plan'[n].threads = t
            BY <1>0, <2>2, <2>3
        <3>2. P!TypeOK' /\ NProcess \in Nat
            BY ProgramAssumption
               DEF BookInv, UtilInv, LentInv, TrailInv, P!IInv, S!BudgetAssumption
        <3>3. plan'[n] \in [threads : 0 .. NProcess, mem_cost : Nat]
            BY <2>3, <3>2 DEF P!TypeOK
        <3> QED BY <1>0, <2>3, <3>1, <3>2, <3>3 DEF Plans
    <2>5. plan[n].threads <= plan'[n].threads
        BY <2>2, <2>4 DEF Plans
    <2>6. plan[n].mem_cost <= plan'[n].mem_cost
        BY <1>0, <1>1, <2>3, <2>5, DonationCosts
    <2>7. ASSUME NEW i \in S!Active PROVE plan[tasks[i]].mem_cost <= plan'[tasks[i]].mem_cost
        <3>1. CASE i = di
            BY <2>6, <3>1
        <3>2. CASE i # di
            <4>1. tasks[i] # n /\ tasks[i] \in Node
                BY <1>0, <2>3, <3>2
            <4>2. plan'[tasks[i]] = plan[tasks[i]] /\ plan[tasks[i]].mem_cost \in Nat
                BY <1>0, <2>2, <4>1 DEF Plans
            <4> QED BY <4>2
        <3> QED BY <3>1, <3>2
    <2> QED BY <1>1, <1>2, <2>7, QuietCosts
<1>5. UNCHANGED plan \/ S!DonateAccepted
    BY DEF Donate, S!DonateLoad, S!DonateRefused, S!DonateEnd
<1> QED BY <1>3, <1>4, <1>5

LEMMA ReapCosts ==
    ASSUME EstInv, BookInv', NEW i \in S!Slots, Reap(i)
    PROVE  CostsWithin(st)' /\ RunningWorked(st)'
<1>0. /\ BookInv /\ CostsWithin(st) /\ RunningWorked(st) /\ P!IInv /\ plan \in [Node -> Plans]
      /\ \A j \in S!Active : j \in S!Slots /\ tasks[j] \in Node
      /\ \A j, k \in S!Active : j # k => tasks[j] # tasks[k]
      /\ tasks \in [S!Slots -> Node \cup {NoNode}] /\ NoNode \notin Node
      /\ status \in [Node -> {"unmade", "open", "processing", "done"}]
      /\ phase \in [S!Slots -> P!Phases] /\ at \in [S!Slots -> Nat]
    BY BookFacts, ActiveFacts, WorkerFacts, ProgramAssumption
       DEF EstInv, S!NodeAssumption, TrailInv, ScriptsFollowed
<1>1. UNCHANGED <<st, lost>> /\ pc = "wait" /\ phase[i] \in {"exited", "failed"}
    BY DEF Reap, S!TaskEnd, S!TaskCheckExit
<1>2. i \in S!Active
    BY <1>0, <1>1, SameTree, SameBooks DEF P!IInv, P!TasksKnown
<1> DEFINE n == tasks[i]
<1>3. CASE /\ S!TaskEnd(i) /\ at' = [at EXCEPT ![i] = 0]
           /\ forked' = [forked EXCEPT ![i] = S!NoPlan]
    <2>1. /\ tasks' = [tasks EXCEPT ![i] = NoNode] /\ plan' = [plan EXCEPT ![n] = S!NoPlan]
          /\ status' = [status EXCEPT ![n] = "done"] /\ phase[i] = "exited"
          /\ \E x : phase' = [phase EXCEPT ![i] = x]
        BY <1>3 DEF S!TaskEnd
    <2>2. \A j \in S!Active \ {i} : /\ j \in (S!Active)' /\ tasks'[j] = tasks[j]
                                    /\ at'[j] = at[j] /\ phase'[j] = phase[j]
                                    /\ forked'[j] = forked[j]
        BY <1>0, <1>3, <2>1 DEF S!Active, S!Slots, BookInv
    <2>3. \A j \in (S!Active)' : j \in S!Active \ {i} /\ tasks'[j] = tasks[j] /\ tasks[j] # n
        BY <1>0, <1>2, <2>1 DEF S!Active, S!Slots
    <2>4. ASSUME NEW j \in (S!Active)'
          PROVE  /\ j \in S!Active /\ tasks'[j] = tasks[j] /\ forked'[j] = forked[j]
                 /\ plan[tasks[j]].mem_cost <= plan'[tasks[j]].mem_cost
        <3>1. plan'[tasks[j]] = plan[tasks[j]] /\ plan[tasks[j]].mem_cost \in Nat
            BY <1>0, <2>1, <2>3 DEF Plans
        <3> QED BY <2>2, <2>3, <3>1
    <2>5. \A m \in Node : Begun(m) => Begun(m)'
        BY <1>0, <2>1 DEF Begun
    <2>6. CostsWithin(st)'
        BY <1>0, <1>1, <2>4, <2>5, SettledCosts
    <2>7. ASSUME NEW j \in S!Active, Working(j)
          PROVE  j \in (S!Active)' /\ tasks'[j] = tasks[j] /\ Working(j)'
        <3>1. j # i
            BY <2>1, <2>7 DEF Working, S!Live
        <3> QED BY <2>2, <2>7, <3>1 DEF Working
    <2> QED BY <1>0, <1>1, <2>6, <2>7, SettledRunning
<1>4. CASE S!TaskCheckExit(i) /\ UNCHANGED workers
    <2>1. pc' = "down" /\ UNCHANGED <<forked, at, tasks, phase, status, plan>>
        BY <1>4 DEF S!TaskCheckExit, workers, S!workers
    <2> QED BY <1>0, <1>1, <2>1, SameCosts DEF Begun
<1> QED BY <1>3, <1>4 DEF Reap

LEMMA DiesCosts ==
    ASSUME EstInv, BookInv', Dies
    PROVE  CostsWithin(st)' /\ RunningWorked(st)'
<1>0. /\ BookInv /\ CostsWithin(st) /\ RunningWorked(st)
      /\ \A i \in S!Active : i \in S!Slots /\ tasks[i] \in Node
      /\ phase \in [S!Slots -> P!Phases] /\ plan \in [Node -> Plans]
    BY BookFacts, ActiveFacts, WorkerFacts DEF EstInv
<1>1. UNCHANGED <<plan, tasks, st, lost, forked, at, status>>
    BY DEF Dies, S!WorkerDies, S!Crash, S!sched, workers
<1>2. (S!Active)' = S!Active /\ \A n \in Node : Begun(n) => Begun(n)'
    BY <1>1 DEF S!Active, S!Slots, Begun
<1>3. CostsWithin(st)'
    <2>1. \A i \in S!Active : plan[tasks[i]].mem_cost <= plan'[tasks[i]].mem_cost
        BY <1>0, <1>1 DEF Plans
    <2> QED BY <1>0, <1>1, <1>2, <2>1, SettledCosts
<1>4. RunningWorked(st)'
    <2>1. CASE \E i \in S!Slots : S!WorkerDies(i)
        <3>1. PICK i \in S!Slots : S!WorkerDies(i)
            BY <2>1
        <3>2. pc' = pc /\ phase' = [phase EXCEPT ![i] = "failed"]
            BY <3>1 DEF S!WorkerDies, S!sched
        <3>3. \A j \in S!Active : Working(j) => Working(j)'
            BY <1>0, <1>1, <3>2 DEF Working
        <3> QED BY <1>0, <1>1, <1>2, <3>2, <3>3, SettledRunning
    <2>2. CASE S!Crash
        <3>1. pc' = "down"
            BY <2>2 DEF S!Crash
        <3> QED BY <1>0, <1>1, <3>1, SettledRunning
    <2> QED BY <2>1, <2>2 DEF Dies
<1> QED BY <1>3, <1>4

LEMMA FreshCosts ==
    ASSUME NEW config
    PROVE  LET s == FreshState(config)
           IN  Running(s.tree) = {} /\ \A n : Estimate(s, n) = 0
BY FreshLent, FreshTrail DEF Estimate

LEMMA InitEst == Init => EstInv
<1> SUFFICES ASSUME Init PROVE EstInv
    OBVIOUS
<1>1. Running(st.tree) = {} /\ \A n : Estimate(st, n) = 0
    BY FreshCosts DEF Init
<1>2. S!Active = {}
    BY DEF Init, S!Init, S!Active
<1> QED BY <1>1, <1>2, InitBook DEF EstInv, CostsWithin, RunningWorked

LEMMA NextEst == EstInv /\ [Next]_vars => EstInv'
<1> SUFFICES ASSUME EstInv, [Next]_vars PROVE EstInv'
    OBVIOUS
<1>0. BookInv'
    BY NextBook DEF EstInv
<1> SUFFICES CostsWithin(st)' /\ RunningWorked(st)'
    BY <1>0 DEF EstInv
<1>1. CASE SchedulerLogs
    BY <1>0, <1>1, SchedulerLogsCosts
<1>2. CASE Launch
    BY <1>0, <1>2, LaunchCosts
<1>3. CASE EndLaunch
    BY <1>0, <1>3, EndLaunchCosts
<1>4. CASE Donate
    BY <1>0, <1>4, DonateCosts
<1>5. ASSUME NEW i \in S!Slots, WorkerSteps(i) PROVE CostsWithin(st)' /\ RunningWorked(st)'
    BY <1>0, <1>5, WorkerStepsCosts, WorkerStepsRunning
<1>6. ASSUME NEW i \in S!Slots, Reap(i) PROVE CostsWithin(st)' /\ RunningWorked(st)'
    BY <1>0, <1>6, ReapCosts
<1>7. CASE Dies
    BY <1>0, <1>7, DiesCosts
<1>8. CASE Restart
    <2>1. /\ Running(st'.tree) = {} /\ \A n : Estimate(st', n) = 0
          /\ (S!Active)' = {}
        BY <1>8, FreshCosts DEF Restart, S!Restart, S!Active
    <2>2. Running(st.tree)' = {} /\ \A n : Estimate(st, n)' = 0
        BY <2>1 DEF Running, Estimate
    <2> QED BY <2>1, <2>2 DEF CostsWithin, RunningWorked
<1>9. CASE Tick \/ AllShown \/ UNCHANGED vars
    BY <1>0, <1>9, SameCosts DEF Tick, AllShown, vars, program, workers, Begun
<1> QED BY <1>1, <1>2, <1>3, <1>4, <1>5, <1>6, <1>7, <1>8, <1>9 DEF Next

-----------------------------------------------------------------------------
(* The costs that are shown, summed.                                       *)

\* The nodes whose cost counts.
Counted(s) == {k \in DOMAIN s.tree :
                /\ s.tree[k].in_progress
                /\ \A a \in DOMAIN s.tree : Within(k, a) => ~s.tree[a].own_done}

LEMMA EstimatesSum ==
    ASSUME NEW s, IsFiniteSet(Counted(s))
    PROVE  LET D == Counted(s)
           IN  \E h : /\ Sums(h, [k \in D |-> s.tree[k].mem_estimate], D)
                      /\ ActiveMemEstimate(s) = h[D]
<1> DEFINE D == Counted(s)
           f == [k \in D |-> s.tree[k].mem_estimate]
           Turn(g) == [T \in SUBSET D |->
                        IF T = {} THEN 0
                        ELSE LET x == CHOOSE x \in T : TRUE
                             IN  s.tree[x].mem_estimate + g[T \ {x}]]
           iter == CHOOSE g : g = Turn(g)
<1>1. ASSUME NEW g PROVE Sums(g, f, D) <=> g = Turn(g)
    <2>1. \A T \in SUBSET D : T # {} => Chosen(T) \in D
        BY DEF Chosen
    <2>2. \A T \in SUBSET D : T # {} => f[Chosen(T)] = s.tree[Chosen(T)].mem_estimate
        BY <2>1
    <2> DEFINE Summed(T) == IF T = {} THEN 0 ELSE f[Chosen(T)] + g[T \ {Chosen(T)}]
               Coded(T) == IF T = {} THEN 0
                           ELSE s.tree[Chosen(T)].mem_estimate + g[T \ {Chosen(T)}]
    <2>3. \A T \in SUBSET D : Summed(T) = Coded(T)
        <3> HIDE DEF f
        <3> QED BY <2>2
    <2>4. Sums(g, f, D) <=> g = [T \in SUBSET D |-> Summed(T)]
        BY DEF Sums
    <2>5. g = Turn(g) <=> g = [T \in SUBSET D |-> Coded(T)]
        BY DEF Chosen
    <2> HIDE DEF Summed, Coded, Turn, D, f
    <2>6. [T \in SUBSET D |-> Summed(T)] = [T \in SUBSET D |-> Coded(T)]
        BY <2>3
    <2> QED BY <2>4, <2>5, <2>6
<1>2. \E h : Sums(h, f, D)
    <2> HIDE DEF f
    <2> QED BY SumsExist
<1>3. iter = Turn(iter)
    <2> HIDE DEF Turn, f, D
    <2> QED BY <1>1, <1>2
<1>4. ActiveMemEstimate(s) = iter[D]
    BY DEF ActiveMemEstimate, Counted, MapThenSumSet, MapThenFoldSet
<1> HIDE DEF iter
<1>5. Sums(iter, f, D)
    <2> HIDE DEF Turn, f, D
    <2> QED BY <1>1, <1>3
<1> QED BY <1>4, <1>5

LEMMA LedgerMoves ==
    ASSUME NEW f \in [P!Slots -> Nat], NEW total \in Nat, P!Ledger(f, total),
           NEW i \in P!Slots, NEW v \in Nat
    PROVE  total - f[i] + v \in Nat /\ P!Ledger([f EXCEPT ![i] = v], total - f[i] + v)
BY P!LedgerUpdate, ProgramAssumption
   DEF S!Root, P!Root, S!IsFiniteSet, P!IsFiniteSet, S!NodeAssumption,
       S!BinaryAssumption, S!BudgetAssumption, S!CostAssumption, S!CacheAssumption

\* Amounts that each fit a slot of their own, if they are any, come to no more than the
\* ledger's total.
LEMMA SumWithinLedger ==
    ASSUME NEW D, IsFiniteSet(D), NEW f, \A x \in D : f[x] \in Nat, NEW h, Sums(h, f, D),
           NEW w, \A x \in D : w[x] \in P!Slots,
           \A x, y \in D : f[x] # 0 /\ f[y] # 0 /\ w[x] = w[y] => x = y,
           NEW m \in [P!Slots -> Nat], NEW total \in Nat, P!Ledger(m, total),
           \A x \in D : f[x] # 0 => f[x] <= m[w[x]]
    PROVE  h[D] <= total
<1> DEFINE Fits2(T, a, t) == P!Ledger(a, t) /\ \A x \in T : f[x] # 0 => f[x] <= a[w[x]]
           X == {T \in SUBSET D : \A a \in [P!Slots -> Nat], t \in Nat :
                    Fits2(T, a, t) => h[T] \in Nat /\ h[T] <= t}
<1>h. /\ h[{}] = 0
      /\ \A T \in SUBSET D : T # {} =>
            Chosen(T) \in T /\ h[T] = f[Chosen(T)] + h[T \ {Chosen(T)}]
    <2>1. Sums(h, f, D)
        OBVIOUS
    <2> QED BY ONLY <2>1, SumsAt
<1>1. {} \in X
    BY <1>h
<1>2. ASSUME NEW T \in SUBSET D, T # {}, \A x \in T : T \ {x} \in X PROVE T \in X
    <2> SUFFICES ASSUME NEW a \in [P!Slots -> Nat], NEW t \in Nat, Fits2(T, a, t)
                 PROVE  h[T] \in Nat /\ h[T] <= t
        OBVIOUS
    <2>1. PICK x : x = Chosen(T)
        OBVIOUS
    <2>2. x \in T /\ x \in D /\ h[T] = f[x] + h[T \ {x}]
        BY <1>2, <2>1, <1>h
    <2>3. PICK i \in P!Slots : i = w[x]
        BY <2>2
    <2>4. f[x] \in Nat /\ a[i] \in Nat /\ (f[x] # 0 => f[x] <= a[i])
        BY <2>2, <2>3
    <2>5. T \ {x} \in X
        BY <1>2, <2>2
    <2>6. CASE f[x] = 0
        <3>1. Fits2(T \ {x}, a, t)
            OBVIOUS
        <3>2. h[T \ {x}] \in Nat /\ h[T \ {x}] <= t
            <4> HIDE DEF Fits2
            <4> QED BY <2>5, <3>1
        <3> QED BY <2>2, <2>6, <3>2
    <2>7. CASE f[x] # 0
        <3> DEFINE b == [a EXCEPT ![i] = 0]
                   u == t - a[i] + 0
        <3>1. u \in Nat /\ P!Ledger(b, u) /\ b \in [P!Slots -> Nat]
            <4>1. u \in Nat /\ P!Ledger(b, u)
                BY LedgerMoves
            <4> QED BY <4>1
        <3>2. \A y \in T \ {x} : f[y] # 0 => f[y] <= b[w[y]]
            <4> SUFFICES ASSUME NEW y \in T \ {x}, f[y] # 0 PROVE f[y] <= b[w[y]]
                OBVIOUS
            <4>1. w[y] # i /\ w[y] \in P!Slots /\ f[y] <= a[w[y]]
                BY <2>2, <2>3, <2>7
            <4> QED BY <4>1
        <3>3. h[T \ {x}] \in Nat /\ h[T \ {x}] <= u
            <4> HIDE DEF b, u
            <4> QED BY <2>5, <3>1, <3>2
        <3> QED BY <2>2, <2>4, <2>7, <3>3
    <2> QED BY <2>6, <2>7
<1>3. SUBSET D \subseteq X
    <2> HIDE DEF X
    <2> QED BY <1>1, <1>2, SubsetInduction
<1>4. Fits2(D, m, total)
    OBVIOUS
<1>5. D \in X
    BY <1>3
<1> HIDE DEF Fits2
<1> QED BY <1>4, <1>5

\* The nodes that are shown running have tasks of their own, and each is shown at no
\* more than its task's plan: so together at no more than is booked.
LEMMA EstimateWithinTotal ==
    ASSUME EstInv, Whole, pc # "down"
    PROVE  ActiveMemEstimate(st) <= total_mem_cost
<1> DEFINE D == Counted(st)
           f == [k \in D |-> st.tree[k].mem_estimate]
           w == [k \in D |-> CHOOSE i \in S!Active : WorkedBy(i, k)]
<1>0. /\ CostsWithin(st) /\ RunningWorked(st) /\ Costed(st) /\ StateOK(st)
      /\ P!IInv /\ plan \in [Node -> Plans] /\ total_mem_cost \in Nat
    BY BookFacts DEF EstInv, BookInv, TrailInv
<1>1. IsFiniteSet(D)
    <2>1. D \subseteq Running(st.tree) /\ IsFiniteSet(Running(st.tree))
        BY <1>0 DEF StateOK, TrailOf, Running, Counted
    <2> QED BY <2>1, FS_Subset
<1>2. PICK h : Sums(h, f, D) /\ ActiveMemEstimate(st) = h[D]
    BY <1>1, EstimatesSum
<1>3. \A k \in D : /\ w[k] \in S!Active /\ k = KeyOf[tasks[w[k]]]
                   /\ k \in DOMAIN st.tree
    <2> SUFFICES ASSUME NEW k \in D
                 PROVE  w[k] \in S!Active /\ k = KeyOf[tasks[w[k]]] /\ k \in DOMAIN st.tree
        OBVIOUS
    <2>1. \E i \in S!Active : WorkedBy(i, k)
        BY <1>0 DEF RunningWorked, Running, Counted
    <2>2. w[k] \in S!Active /\ WorkedBy(w[k], k)
        BY <2>1
    <2> QED BY <2>2 DEF WorkedBy, Counted
<1> HIDE DEF w
<1>4. \A k \in D : w[k] \in P!Slots
    BY <1>0, <1>3, ActiveFacts, SameTree
<1>5. \A j, k \in D : w[j] = w[k] => j = k
    BY <1>3
<1>6. /\ P!MemoryOf \in [P!Slots -> Nat]
      /\ \A i \in S!Active : P!MemoryOf[i] = plan[tasks[i]].mem_cost
    <2>1. tasks \in [S!Slots -> Node \cup {NoNode}] /\ P!Slots = S!Slots
        BY <1>0, WorkerFacts, SameTree
    <2>2. \A i \in P!Slots :
            (IF tasks[i] = NoNode THEN 0 ELSE plan[tasks[i]].mem_cost) \in Nat
        BY <1>0, <2>1 DEF Plans
    <2>3. \A i \in S!Active : i \in P!Slots /\ tasks[i] # NoNode
        BY <2>1 DEF S!Active
    <2> QED BY <2>2, <2>3 DEF P!MemoryOf
<1>7. P!Ledger(P!MemoryOf, total_mem_cost)
    BY <1>0 DEF P!IInv, P!Ledgers
<1>8. \A k \in D : f[k] \in Nat /\ f[k] <= P!MemoryOf[w[k]]
    <2> SUFFICES ASSUME NEW k \in D PROVE f[k] \in Nat /\ f[k] <= P!MemoryOf[w[k]]
        OBVIOUS
    <2>1. /\ f[k] = Estimate(st, tasks[w[k]]) /\ f[k] \in Nat
        BY <1>0, <1>3 DEF Estimate, Costed, Rated
    <2>2. Estimate(st, tasks[w[k]]) <= plan[tasks[w[k]]].mem_cost
        BY <1>0, <1>3 DEF CostsWithin, CostWithin
    <2> QED BY <1>3, <1>6, <2>1, <2>2
<1> HIDE DEF D, f
<1>9. h[D] <= total_mem_cost
    <2>1. total_mem_cost \in Nat /\ P!MemoryOf \in [P!Slots -> Nat]
        BY <1>0, <1>6
    <2> QED BY <1>1, <1>2, <1>4, <1>5, <1>7, <1>8, <2>1, SumWithinLedger
<1> QED BY <1>2, <1>9

-----------------------------------------------------------------------------
(* The books.                                                              *)

LEMMA BooksOnceRead ==
    ASSUME EstInv, Whole, out = << >>, pc # "down"
    PROVE  /\ DOMAIN st.active = {tasks[i] : i \in S!Active}
           /\ \A i \in S!Active : Shows(st, tasks[i])
<1>1. Booking(st) /\ Logged(out) = {}
    BY LoggedLines DEF EstInv, BookInv
<1>2. \A p : ~DropPending(p) /\ ~BookPending(p)
    BY <1>1 DEF DropPending, BookPending
<1>3. \A i \in S!Active : Shows(st, tasks[i])
    BY <1>1, <1>2 DEF Booking
<1>4. \A i \in S!Active : tasks[i] \in DOMAIN st.active
    BY <1>3 DEF Shows
<1>5. \A p \in DOMAIN st.active : \E i \in S!Active : p = tasks[i]
    BY <1>1, <1>2 DEF Booking
<1> QED BY <1>3, <1>4, <1>5

\* What is live on a node and what is waited for come to what it is shown with.
LEMMA BadgeSums ==
    ASSUME NEW n, n.threads \in Nat, n.threads_live \in Nat, n.threads_live <= n.threads
    PROVE  LivePending(n)[1] + LivePending(n)[2] = n.threads
<1>1. EntryThreads(n) \in Nat /\ EntryThreads(n) <= n.threads
    BY DEF EntryThreads
<1>2. AtLeast(0, n.threads - EntryThreads(n)) = n.threads - EntryThreads(n)
    BY <1>1 DEF AtLeast
<1>3. /\ LivePending(n)[1] = EntryThreads(n)
      /\ LivePending(n)[2] = AtLeast(0, n.threads - EntryThreads(n))
    BY DEF LivePending
<1> HIDE DEF LivePending
<1> QED BY <1>1, <1>2, <1>3

LEMMA BadgeIsPlan ==
    ASSUME EstInv, NEW i \in S!Active, Shows(st, tasks[i]),
           st.active[tasks[i]].node # NoKey
    PROVE  LET e == st.active[tasks[i]]
           IN  /\ e.node = KeyOf[tasks[i]]
               /\ st.tree[e.node].in_progress =>
                    LivePending(st.tree[e.node])[1] + LivePending(st.tree[e.node])[2]
                        = plan[tasks[i]].threads
<1> DEFINE p == tasks[i]
           e == st.active[p]
           n == st.tree[e.node]
<1>0. /\ LendingOK(st) /\ Mirrors(st) /\ Ordered(st) /\ P!IInv
      /\ plan \in [Node -> Plans]
    BY BookFacts DEF EstInv, BookInv, UtilInv, Metered
<1>1. /\ p \in DOMAIN st.active /\ e.threads = plan[p].threads
    BY DEF Shows
<1>2. e.node = KeyOf[p] /\ e.node \in DOMAIN st.tree /\ Lent(e) /\ Lent(n)
    BY <1>0, <1>1 DEF LendingOK
<1>3. e.threads_live <= e.threads
    BY <1>0, <1>1 DEF Ordered
<1>4. plan[p].threads >= 1 /\ plan[p].threads \in Nat
    BY <1>0, SameBooks, ActiveFacts DEF P!IInv, P!PlansPositive, Plans
<1>5. ASSUME n.in_progress
      PROVE  LivePending(n)[1] + LivePending(n)[2] = plan[p].threads
    <2>1. e.threads # 0
        BY <1>1, <1>4
    <2>2. Loans(n) = Loans(e)
        BY <1>0, <1>1, <1>5, <2>1 DEF Mirrors, InStep
    <2>3. n.threads = e.threads /\ n.threads_live = e.threads_live
        BY <2>2 DEF Loans
    <2>4. n.threads \in Nat /\ n.threads_live \in Nat /\ n.threads_live <= n.threads
        BY <1>2, <1>3, <2>3 DEF Lent
    <2>5. LivePending(n)[1] + LivePending(n)[2] = n.threads
        <3> HIDE DEF n
        <3> QED BY <2>4, BadgeSums
    <2> HIDE DEF n, e, p
    <2> QED BY <1>1, <2>3, <2>5
<1> QED BY <1>2, <1>5

\* With no line left to read, the totals that were reported are the scheduler's.
LEMMA TotalsOnceRead ==
    ASSUME EstInv, Whole, out = << >>, pc = "wait"
    PROVE  /\ st.mem_booked = total_mem_cost
           /\ st.threads_reported = total_threads
<1>1. Totalled(st) /\ Logged(out) = {}
    BY LoggedLines DEF EstInv, BookInv
<1>2. ~Reporting("active memory") /\ ~Reporting("active threads")
    BY <1>1 DEF Reporting
<1> QED BY <1>1, <1>2 DEF Totalled

LEMMA EstMirrors == EstInv => BooksMirrored
<1> SUFFICES ASSUME EstInv, Whole, out = << >>, pc \notin {"down", "done"}
             PROVE  /\ DOMAIN st.active = {tasks[i] : i \in S!Active}
                    /\ \A i \in S!Active :
                        LET n == tasks[i]
                            e == st.active[n]
                        IN  /\ e.threads = plan[n].threads
                            /\ e.mem = plan[n].mem_cost
                            /\ e.node # NoKey =>
                                /\ e.node = KeyOf[n]
                                /\ st.tree[e.node].in_progress =>
                                    LET badge == LivePending(st.tree[e.node])
                                    IN  badge[1] + badge[2] = plan[n].threads
                    /\ pc = "wait" => /\ st.mem_booked = total_mem_cost
                                      /\ st.threads_reported = total_threads
                                      /\ ActiveMemEstimate(st) <= total_mem_cost
    BY DEF BooksMirrored
<1>0. pc # "down"
    OBVIOUS
<1>1. /\ DOMAIN st.active = {tasks[i] : i \in S!Active}
      /\ \A i \in S!Active : Shows(st, tasks[i])
    BY <1>0, BooksOnceRead
<1>2. ASSUME NEW i \in S!Active
      PROVE  LET n == tasks[i]
                 e == st.active[n]
             IN  /\ e.threads = plan[n].threads
                 /\ e.mem = plan[n].mem_cost
                 /\ e.node # NoKey =>
                    /\ e.node = KeyOf[n]
                    /\ st.tree[e.node].in_progress =>
                        LET badge == LivePending(st.tree[e.node])
                        IN  badge[1] + badge[2] = plan[n].threads
    <2>1. Shows(st, tasks[i])
        BY <1>1
    <2>2. /\ st.active[tasks[i]].threads = plan[tasks[i]].threads
          /\ st.active[tasks[i]].mem = plan[tasks[i]].mem_cost
        BY <2>1 DEF Shows
    <2> QED BY <2>1, <2>2, BadgeIsPlan
<1>3. pc = "wait" => /\ st.mem_booked = total_mem_cost
                     /\ st.threads_reported = total_threads
                     /\ ActiveMemEstimate(st) <= total_mem_cost
    BY <1>0, TotalsOnceRead, EstimateWithinTotal
<1> QED BY <1>1, <1>2, <1>3

\* What the dashboard shows as booked is what the scheduler has booked: once the log
\* is read, in a run none of whose lines was lost, its entries are the scheduler's
\* tasks with the threads and the memory of their plans, the badge on a running node
\* adds up to its task's threads, and the totals of the header, reported or summed
\* over the tree, are those the scheduler goes by (handle_task_start,
\* attach_task_plan and active_mem_estimate, dashboard.py:841-855, 1024-1056,
\* 1343-1349). It is so because whatever is not shown yet is on a line still to
\* come, and that line says what the scheduler has booked by now.
THEOREM BooksAreMirrored == Spec => []BooksMirrored
<1>1. EstInv => BooksMirrored
    BY EstMirrors
<1>2. Init => EstInv
    BY InitEst
<1>3. EstInv /\ [Next]_vars => EstInv'
    BY NextEst
<1> QED BY <1>1, <1>2, <1>3, PTL DEF Spec

-----------------------------------------------------------------------------
(* Folds along a sequence.  The library's fold goes through the subsets of *)
(* the indices, each time by the largest.                                  *)

LEMMA MaxIsLargest ==
    ASSUME NEW n \in Nat, NEW T \in SUBSET (1 .. n), T # {}
    PROVE  Max(T) \in T /\ \A y \in T : y <= Max(T)
<1> DEFINE above == {m \in Nat : \A y \in T : y <= m}
<1>1. above \subseteq Nat /\ n \in above
    OBVIOUS
<1>2. PICK m \in above : \A k \in above : m <= k
    <2> HIDE DEF above
    <2> QED BY <1>1, LeastNumber
<1>3. m \in T
    <2> SUFFICES ASSUME m \notin T PROVE FALSE
        OBVIOUS
    <2>1. PICK y : y \in T
        OBVIOUS
    <2>2. m \in Nat /\ y \in Nat /\ y <= m /\ y >= 1
        BY <2>1
    <2>3. \A z \in T : z \in Nat /\ z <= m - 1
        OBVIOUS
    <2>4. m - 1 \in above
        BY <2>2, <2>3
    <2> QED BY <1>2, <2>2, <2>4
<1>4. \E x \in T : \A y \in T : x >= y
    BY <1>3
<1>5. Max(T) \in T /\ \A y \in T : Max(T) >= y
    BY <1>4 DEF Max
<1> QED BY <1>5

LEMMA MaxOfPrefix ==
    ASSUME NEW k \in Nat \ {0}
    PROVE  Max(1 .. k) = k /\ (1 .. k) \ {k} = 1 .. k - 1
<1>1. Max(1 .. k) \in 1 .. k /\ \A y \in 1 .. k : y <= Max(1 .. k)
    <2>1. 1 .. k \in SUBSET (1 .. k) /\ 1 .. k # {}
        OBVIOUS
    <2> QED BY <2>1, MaxIsLargest
<1> QED BY <1>1

\* h folds op over each subset of 1 .. n.
FoldsOver(h, op, base, n) ==
    h = [T \in SUBSET (1 .. n) |->
            IF T = {} THEN base ELSE op[<<h[T \ {Max(T)}], Max(T)>>]]

\* Whatever takes a value of V and a number to a value of V can be folded.
LEMMA FoldsExist ==
    ASSUME NEW n \in Nat, NEW V, NEW base \in V, NEW op \in [V \X (1 .. n) -> V]
    PROVE  \E h : /\ FoldsOver(h, op, base, n)
                  /\ \A T \in SUBSET (1 .. n) : h[T] \in V
<1> DEFINE I == 1 .. n
           More(h, T) == IF T = {} THEN base ELSE op[<<h[T \ {Max(T)}], Max(T)>>]
           UpTo(h, k) == h = [T \in SUBSET I |->
                                IF Cardinality(T) <= k THEN More(h, T) ELSE base]
           Folded(k) == \E h : UpTo(h, k)
           N == {k \in Nat : Folded(k)}
<1>0. IsFiniteSet(I) /\ Cardinality(I) \in Nat
    BY FS_Interval, FS_CardinalityType
<1>1. \A T \in SUBSET I : /\ IsFiniteSet(T) /\ Cardinality(T) \in Nat
                          /\ Cardinality(T) <= Cardinality(I)
                          /\ Cardinality(T) = 0 <=> T = {}
    BY <1>0, FS_Subset, FS_CardinalityType, FS_EmptySet
<1>m. \A T \in SUBSET I : T # {} => Max(T) \in T
    BY MaxIsLargest
<1> HIDE DEF I
<1>2. 0 \in N
    <2> DEFINE h == [T \in SUBSET I |-> base]
    <2>1. \A T \in SUBSET I : Cardinality(T) <= 0 => More(h, T) = base
        BY <1>1
    <2>2. UpTo(h, 0)
        <3> HIDE DEF More
        <3> QED BY <2>1
    <2> QED BY <2>2
<1>3. ASSUME NEW k \in Nat, k \in N PROVE k + 1 \in N
    <2>1. PICK h : UpTo(h, k)
        BY <1>3
    <2> DEFINE g == [T \in SUBSET I |-> IF Cardinality(T) <= k + 1 THEN More(h, T) ELSE base]
    <2>2. ASSUME NEW T \in SUBSET I, Cardinality(T) <= k + 1
          PROVE  More(h, T) = More(g, T)
        <3>1. CASE T = {}
            BY <3>1
        <3>2. CASE T # {}
            <4> DEFINE R == T \ {Max(T)}
            <4>1. Max(T) \in T
                BY <3>2, <1>m
            <4>2. R \in SUBSET I /\ Cardinality(R) = Cardinality(T) - 1
                BY <4>1, <1>1, FS_RemoveElement
            <4>3. Cardinality(R) <= k /\ Cardinality(R) <= k + 1 /\ Cardinality(R) \in Nat
                BY <1>1, <2>2, <4>2
            <4>4. h[R] = More(h, R)
                <5> HIDE DEF R, More
                <5> QED BY <2>1, <4>2, <4>3
            <4>5. g[R] = More(h, R)
                <5> HIDE DEF R, More
                <5> QED BY <4>2, <4>3
            <4> HIDE DEF g
            <4>6. h[R] = g[R]
                BY <4>4, <4>5
            <4> QED BY <3>2, <4>6
        <3> QED BY <3>1, <3>2
    <2>3. UpTo(g, k + 1)
        <3> DEFINE G(T) == IF Cardinality(T) <= k + 1 THEN More(g, T) ELSE base
                   H(T) == IF Cardinality(T) <= k + 1 THEN More(h, T) ELSE base
        <3>1. \A T \in SUBSET I : H(T) = G(T)
            BY <2>2
        <3>2. g = [T \in SUBSET I |-> H(T)]
            OBVIOUS
        <3> HIDE DEF g, G, H, More
        <3>4. g = [T \in SUBSET I |-> G(T)]
            BY <3>1, <3>2
        <3> QED BY <3>4 DEF G
    <2>4. \E q : UpTo(q, k + 1)
        <3> HIDE DEF g, UpTo
        <3> WITNESS g
        <3> QED BY <2>3
    <2>5. Folded(k + 1)
        BY <2>4
    <2> HIDE DEF Folded
    <2> QED BY <2>5
<1>4. Nat \subseteq N
    <2> HIDE DEF N
    <2> QED BY <1>2, <1>3, SetInduction
<1>6. PICK h : UpTo(h, Cardinality(I))
    BY <1>0, <1>4
<1>7. h = [T \in SUBSET I |-> More(h, T)]
    <2>1. \A T \in SUBSET I : Cardinality(T) <= Cardinality(I)
        BY <1>1
    <2> HIDE DEF More
    <2> QED BY <1>6, <2>1
<1>8. FoldsOver(h, op, base, n)
    BY <1>7 DEF FoldsOver, I
<1>9. \A T \in SUBSET I : h[T] \in V
    <2> DEFINE X == {T \in SUBSET I : h[T] \in V}
    <2>1. {} \in X
        <3>1. h[{}] = More(h, {})
            <4> HIDE DEF More
            <4> QED BY <1>7
        <3> QED BY <3>1
    <2>2. ASSUME NEW T \in SUBSET I, T # {}, \A x \in T : T \ {x} \in X PROVE T \in X
        <3>1. h[T] = More(h, T)
            <4> HIDE DEF More
            <4> QED BY <1>7
        <3>2. Max(T) \in T /\ Max(T) \in I
            BY <1>m, <2>2
        <3>3. h[T \ {Max(T)}] \in V
            BY <2>2, <3>2
        <3>4. <<h[T \ {Max(T)}], Max(T)>> \in V \X I
            BY <3>2, <3>3
        <3> QED BY <2>2, <3>1, <3>4 DEF I
    <2> HIDE DEF X
    <2>3. SUBSET I \subseteq X
        BY <1>0, <2>1, <2>2, SubsetInduction
    <2> QED BY <2>3 DEF X
<1> QED BY <1>8, <1>9 DEF I

-----------------------------------------------------------------------------
(* Sums along a sequence.                                                  *)

\* g adds up f, one number after the other.
Runs(g, f, n) ==
    /\ g \in [0 .. n -> Int]
    /\ g[0] = 0
    /\ \A k \in 1 .. n : g[k] = g[k - 1] + f[k]

LEMMA SumRuns ==
    ASSUME NEW n \in Nat, NEW s \in [1 .. n -> Int]
    PROVE  \E g : Runs(g, s, n) /\ SumOfSeq(s) = g[n]
<1> DEFINE Turn(g) == [T \in SUBSET (1 .. n) |->
                        IF T = {} THEN 0
                        ELSE LET x == Max(T) IN g[T \ {x}] + s[x]]
           iter == CHOOSE g : g = Turn(g)
           op == [x \in Int \X (1 .. n) |-> x[1] + s[x[2]]]
<1>0. DOMAIN s = 1 .. n
    OBVIOUS
<1>m. \A T \in SUBSET (1 .. n) : T # {} => Max(T) \in T
    BY MaxIsLargest
<1>1. \E h : h = Turn(h)
    <2>1. 0 \in Int /\ op \in [Int \X (1 .. n) -> Int]
        OBVIOUS
    <2>2. PICK h : FoldsOver(h, op, 0, n) /\ \A T \in SUBSET (1 .. n) : h[T] \in Int
        <3> HIDE DEF op
        <3> QED BY <2>1, FoldsExist
    <2> DEFINE F(T) == IF T = {} THEN 0 ELSE op[<<h[T \ {Max(T)}], Max(T)>>]
               G(T) == IF T = {} THEN 0 ELSE h[T \ {Max(T)}] + s[Max(T)]
    <2>3. \A T \in SUBSET (1 .. n) : F(T) = G(T)
        <3> SUFFICES ASSUME NEW T \in SUBSET (1 .. n), T # {}
                     PROVE  op[<<h[T \ {Max(T)}], Max(T)>>] = h[T \ {Max(T)}] + s[Max(T)]
            OBVIOUS
        <3>1. Max(T) \in 1 .. n
            BY <1>m
        <3>2. PICK x \in 1 .. n, v \in Int : x = Max(T) /\ v = h[T \ {Max(T)}]
            BY <2>2, <3>1
        <3>3. op[<<v, x>>] = v + s[x]
            OBVIOUS
        <3> HIDE DEF op
        <3> QED BY <3>2, <3>3
    <2>4. h = [T \in SUBSET (1 .. n) |-> F(T)]
        BY <2>2 DEF FoldsOver
    <2>5. h = [T \in SUBSET (1 .. n) |-> G(T)]
        <3> HIDE DEF F, G
        <3> QED BY <2>3, <2>4
    <2>6. h = Turn(h)
        BY <2>5
    <2> HIDE DEF Turn
    <2> QED BY <2>6
<1>2. iter = Turn(iter)
    <2> HIDE DEF Turn
    <2> QED BY <1>1
<1>3. SumOfSeq(s) = iter[1 .. n]
    BY <1>0 DEF SumOfSeq, FoldLeft, MapThenFoldSet
<1> HIDE DEF iter
<1> DEFINE g == [k \in 0 .. n |-> iter[1 .. k]]
<1>4. g[0] = 0
    <2>1. 1 .. 0 = {} /\ 0 \in 0 .. n
        OBVIOUS
    <2>2. Turn(iter)[{}] = 0
        OBVIOUS
    <2> HIDE DEF Turn
    <2> QED BY <1>2, <2>1, <2>2
<1>5. \A k \in 1 .. n : g[k] = g[k - 1] + s[k]
    <2> SUFFICES ASSUME NEW k \in 1 .. n PROVE g[k] = g[k - 1] + s[k]
        OBVIOUS
    <2>1. /\ 1 .. k \in SUBSET (1 .. n) /\ 1 .. k # {} /\ k \in Nat \ {0}
          /\ k \in 0 .. n /\ k - 1 \in 0 .. n
        <3>1. k \in Nat /\ k >= 1 /\ k <= n
            OBVIOUS
        <3>2. 1 .. k \in SUBSET (1 .. n)
            BY <3>1
        <3>3. 1 .. k # {}
            BY <3>1
        <3>4. k \in Nat \ {0} /\ k \in 0 .. n /\ k - 1 \in 0 .. n
            BY <3>1
        <3> QED BY <3>2, <3>3, <3>4
    <2>2. Turn(iter)[1 .. k] = iter[(1 .. k) \ {Max(1 .. k)}] + s[Max(1 .. k)]
        BY <2>1
    <2>3. iter[1 .. k] = iter[1 .. k - 1] + s[k]
        <3> HIDE DEF Turn
        <3> QED BY <1>2, <2>1, <2>2, MaxOfPrefix
    <2> QED BY <2>1, <2>3
<1> HIDE DEF Turn
<1>6. g \in [0 .. n -> Int]
    <2> DEFINE N == {k \in Nat : k <= n => g[k] \in Int}
    <2>1. 0 \in N
        BY <1>4
    <2>2. ASSUME NEW k \in Nat, k \in N PROVE k + 1 \in N
        <3> SUFFICES ASSUME k + 1 <= n PROVE g[k + 1] \in Int
            OBVIOUS
        <3>1. k + 1 \in 1 .. n /\ g[k] \in Int /\ s[k + 1] \in Int
            BY <2>2
        <3> HIDE DEF g
        <3>2. g[k + 1] = g[(k + 1) - 1] + s[k + 1] /\ (k + 1) - 1 = k
            BY <1>5, <3>1
        <3> QED BY <3>1, <3>2
    <2>3. Nat \subseteq N
        <3> HIDE DEF N
        <3> QED BY <2>1, <2>2, SetInduction
    <2>4. \A k \in 0 .. n : g[k] \in Int
        <3> HIDE DEF g
        <3> QED BY <2>3
    <2> QED BY <2>4
<1>7. SumOfSeq(s) = g[n]
    BY <1>3
<1>8. Runs(g, s, n)
    BY <1>4, <1>5, <1>6 DEF Runs
<1> HIDE DEF g
<1> QED BY <1>7, <1>8

\* A run is all there is to a sum.
LEMMA RunIsSum ==
    ASSUME NEW n \in Nat, NEW s \in [1 .. n -> Int], NEW g, Runs(g, s, n)
    PROVE  SumOfSeq(s) = g[n]
<1>1. PICK h : Runs(h, s, n) /\ SumOfSeq(s) = h[n]
    BY SumRuns
<1> DEFINE N == {k \in Nat : k <= n => g[k] = h[k]}
<1>2. 0 \in N
    BY <1>1 DEF Runs
<1>3. ASSUME NEW k \in Nat, k \in N PROVE k + 1 \in N
    <2> SUFFICES ASSUME k + 1 <= n PROVE g[k + 1] = h[k + 1]
        OBVIOUS
    <2>1. k + 1 \in 1 .. n /\ g[k] = h[k] /\ (k + 1) - 1 = k
        BY <1>3
    <2> QED BY <1>1, <2>1 DEF Runs
<1>4. Nat \subseteq N
    <2> HIDE DEF N
    <2> QED BY <1>2, <1>3, SetInduction
<1> QED BY <1>1, <1>4

LEMMA SumOfTwo ==
    ASSUME NEW a \in Int, NEW b \in Int
    PROVE  SumOfSeq(<<a, b>>) = a + b
<1> DEFINE s == <<a, b>>
<1>1. s \in [1 .. 2 -> Int] /\ s[1] = a /\ s[2] = b
    OBVIOUS
<1> HIDE DEF s
<1>2. PICK g : Runs(g, s, 2) /\ SumOfSeq(s) = g[2]
    BY <1>1, SumRuns
<1>3. g[1] = g[0] + s[1] /\ g[2] = g[1] + s[2] /\ g[0] = 0
    BY <1>2 DEF Runs
<1>4. SumOfSeq(s) = a + b
    BY <1>1, <1>2, <1>3
<1> QED BY <1>4 DEF s

LEMMA SumOfThree ==
    ASSUME NEW a \in Int, NEW b \in Int, NEW c \in Int
    PROVE  SumOfSeq(<<a, b, c>>) = a + b + c
<1> DEFINE s == <<a, b, c>>
<1>1. s \in [1 .. 3 -> Int] /\ s[1] = a /\ s[2] = b /\ s[3] = c
    OBVIOUS
<1> HIDE DEF s
<1>2. PICK g : Runs(g, s, 3) /\ SumOfSeq(s) = g[3]
    BY <1>1, SumRuns
<1>3. g[1] = g[0] + s[1] /\ g[2] = g[1] + s[2] /\ g[3] = g[2] + s[3] /\ g[0] = 0
    BY <1>2 DEF Runs
<1>4. SumOfSeq(s) = a + b + c
    BY <1>1, <1>2, <1>3
<1> QED BY <1>4 DEF s

LEMMA SumAdds ==
    ASSUME NEW n \in Nat, NEW f \in [1 .. n -> Int], NEW g \in [1 .. n -> Int]
    PROVE  SumOfSeq([i \in 1 .. n |-> f[i] + g[i]]) = SumOfSeq(f) + SumOfSeq(g)
<1>1. PICK a : Runs(a, f, n) /\ SumOfSeq(f) = a[n]
    BY SumRuns
<1>2. PICK b : Runs(b, g, n) /\ SumOfSeq(g) = b[n]
    BY SumRuns
<1> DEFINE s == [i \in 1 .. n |-> f[i] + g[i]]
           c == [k \in 0 .. n |-> a[k] + b[k]]
<1>3. Runs(c, s, n)
    <2>1. c \in [0 .. n -> Int] /\ c[0] = 0
        BY <1>1, <1>2 DEF Runs
    <2>2. ASSUME NEW k \in 1 .. n PROVE c[k] = c[k - 1] + s[k]
        <3>1. /\ k \in 0 .. n /\ k - 1 \in 0 .. n
              /\ a[k - 1] \in Int /\ b[k - 1] \in Int /\ f[k] \in Int /\ g[k] \in Int
            BY <1>1, <1>2 DEF Runs
        <3>2. a[k] = a[k - 1] + f[k] /\ b[k] = b[k - 1] + g[k]
            BY <1>1, <1>2 DEF Runs
        <3> QED BY <3>1, <3>2
    <2> QED BY <2>1, <2>2 DEF Runs
<1>4. s \in [1 .. n -> Int]
    OBVIOUS
<1>5. SumOfSeq(s) = c[n]
    <2> HIDE DEF s, c
    <2> QED BY <1>3, <1>4, RunIsSum
<1>6. c[n] = a[n] + b[n]
    OBVIOUS
<1> QED BY <1>1, <1>2, <1>5, <1>6

\* The ones of a set add up to how many it has.
LEMMA SumCounts ==
    ASSUME NEW n \in Nat, NEW Q \in SUBSET (1 .. n)
    PROVE  SumOfSeq([i \in 1 .. n |-> IF i \in Q THEN 1 ELSE 0]) = Cardinality(Q)
<1> DEFINE s == [i \in 1 .. n |-> IF i \in Q THEN 1 ELSE 0]
           g == [k \in 0 .. n |-> Cardinality(Q \cap 1 .. k)]
<1>1. \A k \in Nat : IsFiniteSet(Q \cap 1 .. k) /\ Cardinality(Q \cap 1 .. k) \in Nat
    <2> SUFFICES ASSUME NEW k \in Nat
                 PROVE  IsFiniteSet(Q \cap 1 .. k) /\ Cardinality(Q \cap 1 .. k) \in Nat
        OBVIOUS
    <2>1. IsFiniteSet(1 .. k) /\ Q \cap 1 .. k \in SUBSET (1 .. k)
        BY FS_Interval
    <2> QED BY <2>1, FS_Subset, FS_CardinalityType
<1>2. g[0] = 0
    <2>1. Q \cap 1 .. 0 = {}
        OBVIOUS
    <2> QED BY <2>1, FS_EmptySet
<1>3. ASSUME NEW k \in 1 .. n PROVE g[k] = g[k - 1] + s[k]
    <2>1. k \in 0 .. n /\ k - 1 \in 0 .. n /\ k - 1 \in Nat
        OBVIOUS
    <2>2. CASE k \in Q
        <3>1. Q \cap 1 .. k = (Q \cap 1 .. k - 1) \cup {k} /\ k \notin Q \cap 1 .. k - 1
            BY <2>2
        <3>2. Cardinality((Q \cap 1 .. k - 1) \cup {k}) = Cardinality(Q \cap 1 .. k - 1) + 1
            BY <1>1, <2>1, <3>1, FS_AddElement
        <3> QED BY <2>1, <2>2, <3>1, <3>2
    <2>3. CASE k \notin Q
        <3>1. Q \cap 1 .. k = Q \cap 1 .. k - 1
            BY <2>3
        <3> QED BY <1>1, <2>1, <2>3, <3>1
    <2> QED BY <2>2, <2>3
<1>4. Runs(g, s, n)
    <2>1. g \in [0 .. n -> Int]
        BY <1>1
    <2> HIDE DEF g, s
    <2> QED BY <1>2, <1>3, <2>1 DEF Runs
<1>5. s \in [1 .. n -> Int]
    OBVIOUS
<1>6. SumOfSeq(s) = g[n]
    <2> HIDE DEF s, g
    <2> QED BY <1>4, <1>5, RunIsSum
<1>7. Q \cap 1 .. n = Q
    OBVIOUS
<1>8. n \in 0 .. n
    OBVIOUS
<1> QED BY <1>6, <1>7, <1>8

-----------------------------------------------------------------------------
(* A bar, apportioned by largest remainder.                                *)

\* How many come before i when the larger remainder does, then the lower index.
Ahead(r, i) == {j \in DOMAIN r : r[j] > r[i] \/ (r[j] = r[i] /\ j < i)}

\* As many as are asked for are among the first, up to all.
LEMMA FirstsCounted ==
    ASSUME NEW n \in Nat, NEW r \in [1 .. n -> Nat], NEW left \in 0 .. n
    PROVE  Cardinality({i \in 1 .. n : Cardinality(Ahead(r, i)) < left}) = left
<1> DEFINE I == 1 .. n
           R == 0 .. n - 1
           rank == [i \in I |-> Cardinality(Ahead(r, i))]
           Q == {i \in I : rank[i] < left}
           place == [i \in Q |-> rank[i]]
<1>1. IsFiniteSet(I) /\ Cardinality(I) = n /\ IsFiniteSet(R) /\ Cardinality(R) = n
    <2>1. IsFiniteSet(I) /\ Cardinality(I) = IF 1 > n THEN 0 ELSE n - 1 + 1
        BY FS_Interval
    <2>2. IsFiniteSet(R) /\ Cardinality(R) = IF 0 > n - 1 THEN 0 ELSE (n - 1) - 0 + 1
        BY FS_Interval
    <2> QED BY <2>1, <2>2
<1>2. \A i \in I : /\ Ahead(r, i) \in SUBSET I /\ IsFiniteSet(Ahead(r, i))
                   /\ Cardinality(Ahead(r, i)) \in Nat /\ i \notin Ahead(r, i)
    <2>1. \A i \in I : Ahead(r, i) \in SUBSET I /\ i \notin Ahead(r, i)
        BY DEF Ahead
    <2> QED BY <1>1, <2>1, FS_Subset, FS_CardinalityType
<1>3. \A i, j \in I : i \in Ahead(r, j) => rank[i] < rank[j]
    <2> SUFFICES ASSUME NEW i \in I, NEW j \in I, i \in Ahead(r, j)
                 PROVE  rank[i] < rank[j]
        OBVIOUS
    <2>1. Ahead(r, i) \cup {i} \subseteq Ahead(r, j)
        BY DEF Ahead
    <2>2. Cardinality(Ahead(r, i) \cup {i}) = Cardinality(Ahead(r, i)) + 1
        BY <1>2, FS_AddElement
    <2>3. Cardinality(Ahead(r, i) \cup {i}) <= Cardinality(Ahead(r, j))
        BY <1>2, <2>1, FS_Subset
    <2> QED BY <1>2, <2>2, <2>3
<1>4. \A i, j \in I : i # j => i \in Ahead(r, j) \/ j \in Ahead(r, i)
    BY DEF Ahead
<1>5. \A i \in I : rank[i] \in R
    <2> SUFFICES ASSUME NEW i \in I PROVE rank[i] \in R
        OBVIOUS
    <2>1. Ahead(r, i) \cup {i} \subseteq I
        BY <1>2
    <2>2. Cardinality(Ahead(r, i) \cup {i}) = Cardinality(Ahead(r, i)) + 1
        BY <1>2, FS_AddElement
    <2>3. Cardinality(Ahead(r, i) \cup {i}) <= Cardinality(I)
        BY <1>1, <2>1, FS_Subset
    <2> QED BY <1>1, <1>2, <2>2, <2>3
<1>6. rank \in [I -> R] /\ \A i, j \in I : rank[i] = rank[j] => i = j
    <2>1. rank \in [I -> R]
        BY <1>5
    <2>2. ASSUME NEW i \in I, NEW j \in I, rank[i] = rank[j] PROVE i = j
        <3>1. rank[i] \in Int /\ ~(rank[i] < rank[j]) /\ ~(rank[j] < rank[i])
            <4> HIDE DEF rank
            <4> QED BY <1>5, <2>2
        <3> HIDE DEF rank, I
        <3> QED BY <1>3, <1>4, <3>1
    <2> QED BY <2>1, <2>2
<1> HIDE DEF I, R, rank
<1>7. rank \in Surjection(I, R)
    <2>1. rank \in Injection(I, R)
        BY <1>6 DEF Injection, IsInjective
    <2> QED BY <1>1, <2>1, FS_Injection
<1>8. \A k \in R : \E i \in I : rank[i] = k
    BY <1>7 DEF Surjection
<1>9. place \in Bijection(Q, 0 .. left - 1)
    <2>1. \A k \in 0 .. left - 1 : k \in R /\ k < left
        BY DEF R
    <2>2. place \in [Q -> 0 .. left - 1]
        <3>1. \A i \in Q : rank[i] \in 0 .. left - 1
            BY <1>6 DEF R
        <3> QED BY <3>1
    <2>3. \A i, j \in Q : place[i] = place[j] => i = j
        BY <1>6
    <2>4. \A k \in 0 .. left - 1 : \E i \in Q : place[i] = k
        BY <1>8, <2>1
    <2> HIDE DEF place, Q
    <2> QED BY <2>2, <2>3, <2>4 DEF Bijection, Injection, IsInjective, Surjection
<1>10. IsFiniteSet(Q) /\ Cardinality(Q) = left
    <2>1. IsFiniteSet(Q)
        <3>1. Q \in SUBSET I
            OBVIOUS
        <3> QED BY <1>1, <3>1, FS_Subset
    <2>2. ExistsBijection(Q, 0 .. left - 1)
        <3> HIDE DEF place, Q
        <3> QED BY <1>9 DEF ExistsBijection
    <2>3. Cardinality(0 .. left - 1) = left
        BY FS_Interval
    <2> HIDE DEF Q, place
    <2> QED BY <2>1, <2>2, <2>3, FS_Bijection
<1> QED BY <1>10 DEF I, rank

LEMMA Divided ==
    ASSUME NEW a \in Nat, NEW d \in Nat \ {0}
    PROVE  /\ a \div d \in Nat /\ a % d \in Nat /\ a % d < d
           /\ a = d * (a \div d) + (a % d)
<1>1. a \div d \in Int /\ a % d \in 0 .. d - 1
    OBVIOUS
<1>2. a = d * (a \div d) + (a % d)
    BY SMTT(60)
<1>3. a \div d >= 0
    OBVIOUS
<1> QED BY <1>1, <1>2, <1>3

LEMMA BelowIsWithin ==
    ASSUME NEW m \in Nat, NEW x \in Int, 0 <= x, x < m
    PROVE  x \in 0 .. m
OBVIOUS

LEMMA ProductsOrdered ==
    ASSUME NEW d \in Nat \ {0}, NEW x \in Int, NEW m \in Nat,
           0 <= d * x, d * x <= m * (d - 1), m >= 1
    PROVE  0 <= x /\ x < m
<1>1. ASSUME x < 0 PROVE FALSE
    <2>1. d * x <= d * (0 - 1)
        BY <1>1
    <2> QED BY <2>1
<1>2. ASSUME x >= m PROVE FALSE
    <2>1. d * x >= d * m
        BY <1>2
    <2>2. m * (d - 1) = d * m - m
        OBVIOUS
    <2>3. d * m \in Int /\ d * x \in Int
        OBVIOUS
    <2> QED BY <2>1, <2>2, <2>3
<1> QED BY <1>1, <1>2

\* What whole cells leave over is less than a cell for each segment.
LEMMA FloorsLeave ==
    ASSUME NEW n \in Nat \ {0}, NEW c \in [1 .. n -> Nat], NEW w \in Nat,
           NEW total \in Nat \ {0}, SumOfSeq(c) = total,
           NEW fl \in [1 .. n -> Nat], NEW r \in [1 .. n -> Nat],
           \A i \in 1 .. n : w * c[i] = total * fl[i] + r[i] /\ r[i] < total
    PROVE  w - SumOfSeq(fl) \in 0 .. n
<1>0. n \in Nat /\ c \in [1 .. n -> Int] /\ fl \in [1 .. n -> Int]
    OBVIOUS
<1>1. PICK C : Runs(C, c, n) /\ SumOfSeq(c) = C[n]
    BY <1>0, SumRuns
<1>2. PICK F : Runs(F, fl, n) /\ SumOfSeq(fl) = F[n]
    BY <1>0, SumRuns
<1> DEFINE Left(k) == w * C[k] - total * F[k]
           N == {k \in Nat : k <= n => 0 <= Left(k) /\ Left(k) <= k * (total - 1)}
<1>3. 0 \in N
    <2>1. C[0] = 0 /\ F[0] = 0
        BY <1>1, <1>2 DEF Runs
    <2> QED BY <2>1
<1>4. ASSUME NEW k \in Nat, k \in N PROVE k + 1 \in N
    <2> SUFFICES ASSUME k + 1 <= n
                 PROVE  0 <= Left(k + 1) /\ Left(k + 1) <= (k + 1) * (total - 1)
        OBVIOUS
    <2>1. k + 1 \in 1 .. n /\ k \in 0 .. n /\ (k + 1) - 1 = k
        OBVIOUS
    <2>2. PICK p, q \in Int : p = C[k] /\ q = F[k]
        BY <1>1, <1>2, <2>1 DEF Runs
    <2>3. PICK x, y, z \in Nat : x = c[k + 1] /\ y = fl[k + 1] /\ z = r[k + 1]
        BY <2>1
    <2>4. C[k + 1] = p + x /\ F[k + 1] = q + y
        BY <1>1, <1>2, <2>1, <2>2, <2>3 DEF Runs
    <2>5. w * x = total * y + z /\ z <= total - 1
        BY <2>1, <2>3
    <2>6. 0 <= w * p - total * q /\ w * p - total * q <= k * (total - 1)
        BY <1>4, <2>1, <2>2
    <2>7. w * (p + x) = w * p + w * x /\ total * (q + y) = total * q + total * y
        OBVIOUS
    <2>8. (k + 1) * (total - 1) = k * (total - 1) + (total - 1)
        OBVIOUS
    <2>9. Left(k + 1) = w * (p + x) - total * (q + y)
        BY <2>4
    <2>10. /\ w * p \in Int /\ w * x \in Int /\ total * q \in Int /\ total * y \in Int
           /\ k * (total - 1) \in Int
        OBVIOUS
    <2>11. PICK wp, wx, tq, ty, kt \in Int :
               /\ wp = w * p /\ wx = w * x /\ tq = total * q /\ ty = total * y
               /\ kt = k * (total - 1)
        BY <2>10
    <2> HIDE DEF Left
    <2>12. Left(k + 1) = wp + wx - (tq + ty)
        BY <2>7, <2>9, <2>11
    <2>13. (k + 1) * (total - 1) = kt + (total - 1)
        BY <2>8, <2>11
    <2>14. wx = ty + z /\ z <= total - 1 /\ 0 <= wp - tq /\ wp - tq <= kt
        BY <2>5, <2>6, <2>11
    <2>15. 0 <= wp + wx - (tq + ty) /\ wp + wx - (tq + ty) <= kt + (total - 1)
        BY <2>14
    <2> QED BY <2>12, <2>13, <2>15
<1>5. Nat \subseteq N
    <2> HIDE DEF N
    <2> QED BY <1>3, <1>4, SetInduction
<1>6. 0 <= Left(n) /\ Left(n) <= n * (total - 1)
    <2> HIDE DEF Left
    <2> QED BY <1>5
<1> DEFINE x == w - F[n]
<1>7. F[n] \in Int /\ x \in Int
    <2>1. n \in 0 .. n /\ F \in [0 .. n -> Int]
        BY <1>2 DEF Runs
    <2>2. F[n] \in Int
        BY <2>1
    <2> QED BY <2>2
<1>8. Left(n) = total * x
    <2>1. Left(n) = w * total - total * F[n]
        BY <1>1
    <2>2. \A y \in Int : total * (w - y) = total * w - total * y
        OBVIOUS
    <2>3. total * (w - F[n]) = total * w - total * F[n] /\ total * w = w * total
        <3> HIDE DEF x
        <3> QED BY <1>7, <2>2
    <2> HIDE DEF Left
    <2> QED BY <2>1, <2>3
<1> HIDE DEF Left
<1>9. 0 <= x /\ x < n
    <2>1. x \in Int /\ n \in Nat /\ n >= 1
        BY <1>7
    <2> HIDE DEF x
    <2>2. 0 <= total * x /\ total * x <= n * (total - 1)
        BY <1>6, <1>8
    <2> QED BY <2>1, <2>2, ProductsOrdered
<1>10. SumOfSeq(fl) = F[n]
    BY <1>2
<1>11. x \in 0 .. n
    <2> HIDE DEF x
    <2> QED BY <1>7, <1>9, BelowIsWithin
<1> QED BY <1>10, <1>11

\* The segments of a bar always sum to its width.
LEMMA ApportionedFills ==
    ASSUME NEW n \in Nat \ {0}, NEW c \in [1 .. n -> Nat], SumOfSeq(c) # 0, NEW w \in Nat,
           SumOfSeq(c) \in Nat
    PROVE  /\ Apportioned(w, c) \in [1 .. n -> Nat]
           /\ SumOfSeq(Apportioned(w, c)) = w
<1>1. PICK total \in Nat \ {0} : total = SumOfSeq(c)
    OBVIOUS
<1> DEFINE I == 1 .. n
           fl == [i \in I |-> (w * c[i]) \div total]
           r == [i \in I |-> (w * c[i]) % total]
           left == w - SumOfSeq(fl)
           Q == {i \in I : Cardinality(Ahead(r, i)) < left}
           b == [i \in I |-> IF i \in Q THEN 1 ELSE 0]
<1>2. \A i \in I : /\ (w * c[i]) \div total \in Nat /\ (w * c[i]) % total \in Nat
                   /\ (w * c[i]) % total < total
                   /\ w * c[i] = total * ((w * c[i]) \div total) + ((w * c[i]) % total)
    <2> SUFFICES ASSUME NEW i \in I
                 PROVE  /\ (w * c[i]) \div total \in Nat /\ (w * c[i]) % total \in Nat
                        /\ (w * c[i]) % total < total
                        /\ w * c[i] = total * ((w * c[i]) \div total) + ((w * c[i]) % total)
        OBVIOUS
    <2>1. PICK a \in Nat : a = w * c[i]
        OBVIOUS
    <2>2. /\ a \div total \in Nat /\ a % total \in Nat /\ a % total < total
          /\ a = total * (a \div total) + (a % total)
        BY Divided
    <2> QED BY <2>1, <2>2
<1>3. /\ fl \in [I -> Nat] /\ r \in [I -> Nat]
      /\ \A i \in I : w * c[i] = total * fl[i] + r[i] /\ r[i] < total
    <2> DEFINE q(i) == (w * c[i]) \div total
               m(i) == (w * c[i]) % total
    <2>1. \A i \in I : q(i) \in Nat /\ m(i) \in Nat /\ m(i) < total
        BY <1>2
    <2>2. \A i \in I : w * c[i] = total * q(i) + m(i)
        BY <1>2
    <2>3. fl = [i \in I |-> q(i)] /\ r = [i \in I |-> m(i)]
        OBVIOUS
    <2> HIDE DEF q, m, fl, r
    <2>4. fl \in [I -> Nat] /\ r \in [I -> Nat] /\ \A i \in I : fl[i] = q(i) /\ r[i] = m(i)
        BY <2>1, <2>3
    <2> QED BY <2>1, <2>2, <2>4
<1>4. DOMAIN c = I
    OBVIOUS
<1>5. Apportioned(w, c) = [i \in I |-> fl[i] + b[i]]
    <2>1. \A i \in I : Ahead(r, i) = {j \in I : r[j] > r[i] \/ (r[j] = r[i] /\ j < i)}
        BY DEF Ahead
    <2> DEFINE Rest(i) == (w * c[i]) % total
               AheadOf(i) == {j \in I : Rest(j) > Rest(i) \/ (Rest(j) = Rest(i) /\ j < i)}
               Coded(i) == fl[i] + (IF Cardinality(AheadOf(i)) < left THEN 1 ELSE 0)
    <2>2. \A i \in I : AheadOf(i) = Ahead(r, i)
        BY <2>1
    <2>3. Apportioned(w, c) = [i \in I |-> Coded(i)]
        BY <1>1, <1>4 DEF Apportioned
    <2>4. \A i \in I : Coded(i) = fl[i] + b[i]
        <3> HIDE DEF AheadOf, fl, left, r
        <3> QED BY <2>2
    <2> HIDE DEF Coded, fl, b
    <2> QED BY <2>3, <2>4
<1> HIDE DEF fl, r
<1>6. left \in 0 .. n
    BY <1>1, <1>3, FloorsLeave
<1> HIDE DEF left
<1>7. Cardinality(Q) = left
    BY <1>3, <1>6, FirstsCounted
<1>8. Q \in SUBSET I /\ b \in [I -> Nat]
    OBVIOUS
<1>9. SumOfSeq(b) = left
    <2> HIDE DEF Q
    <2> QED BY <1>7, <1>8, SumCounts
<1> HIDE DEF b, Q
<1>10. SumOfSeq([i \in I |-> fl[i] + b[i]]) = SumOfSeq(fl) + SumOfSeq(b)
    <2>1. fl \in [I -> Int] /\ b \in [I -> Int]
        BY <1>3, <1>8
    <2> QED BY <2>1, SumAdds
<1>11. SumOfSeq(fl) \in Int
    <2>1. fl \in [I -> Int]
        BY <1>3
    <2>2. PICK g : Runs(g, fl, n) /\ SumOfSeq(fl) = g[n]
        BY <2>1, SumRuns
    <2> QED BY <2>2 DEF Runs
<1>12. SumOfSeq(fl) + left = w
    BY <1>11 DEF left
<1>13. [i \in I |-> fl[i] + b[i]] \in [I -> Nat]
    <2>1. ASSUME NEW i \in I PROVE fl[i] + b[i] \in Nat
        <3>1. fl[i] \in Nat /\ b[i] \in Nat
            BY <1>3, <1>8
        <3> QED BY <3>1
    <2> HIDE DEF I
    <2> QED BY <2>1
<1> QED BY <1>5, <1>9, <1>10, <1>12, <1>13

-----------------------------------------------------------------------------
(* Cells moved from one segment of a bar to another.                       *)

\* A sum is no less than that of smaller terms.
LEMMA SumOrdered ==
    ASSUME NEW n \in Nat, NEW f \in [1 .. n -> Int], NEW g \in [1 .. n -> Int],
           \A i \in 1 .. n : f[i] <= g[i]
    PROVE  SumOfSeq(f) <= SumOfSeq(g)
<1>1. PICK a : Runs(a, f, n) /\ SumOfSeq(f) = a[n]
    BY SumRuns
<1>2. PICK b : Runs(b, g, n) /\ SumOfSeq(g) = b[n]
    BY SumRuns
<1> DEFINE N == {k \in Nat : k <= n => a[k] <= b[k]}
<1>3. 0 \in N
    BY <1>1, <1>2 DEF Runs
<1>4. ASSUME NEW k \in Nat, k \in N PROVE k + 1 \in N
    <2> SUFFICES ASSUME k + 1 <= n PROVE a[k + 1] <= b[k + 1]
        OBVIOUS
    <2>1. k + 1 \in 1 .. n /\ k \in 0 .. n /\ (k + 1) - 1 = k
        OBVIOUS
    <2>2. /\ a[k + 1] = a[k] + f[k + 1] /\ b[k + 1] = b[k] + g[k + 1]
          /\ a[k] \in Int /\ b[k] \in Int /\ f[k + 1] \in Int /\ g[k + 1] \in Int
        BY <1>1, <1>2, <2>1 DEF Runs
    <2>3. a[k] <= b[k] /\ f[k + 1] <= g[k + 1]
        BY <1>4, <2>1
    <2> QED BY <2>2, <2>3
<1>5. Nat \subseteq N
    <2> HIDE DEF N
    <2> QED BY <1>3, <1>4, SetInduction
<1> QED BY <1>1, <1>2, <1>5

LEMMA SumIsInt ==
    ASSUME NEW n \in Nat, NEW f \in [1 .. n -> Int]
    PROVE  SumOfSeq(f) \in Int
<1>1. PICK a : Runs(a, f, n) /\ SumOfSeq(f) = a[n]
    BY SumRuns
<1>2. a \in [0 .. n -> Int] /\ n \in 0 .. n
    BY <1>1 DEF Runs
<1> QED BY <1>1, <1>2

\* A cell taken at d and given at i leaves the sum as it is.
LEMMA SumMoved ==
    ASSUME NEW n \in Nat, NEW f \in [1 .. n -> Int], NEW g \in [1 .. n -> Int],
           NEW d \in 1 .. n, NEW i \in 1 .. n, d # i,
           g[d] = f[d] - 1, g[i] = f[i] + 1,
           \A j \in 1 .. n \ {d, i} : g[j] = f[j]
    PROVE  SumOfSeq(g) = SumOfSeq(f)
<1> DEFINE I == 1 .. n
           One(e) == [j \in I |-> IF j \in {e} THEN 1 ELSE 0]
<1>1. ASSUME NEW e \in I PROVE One(e) \in [I -> Int] /\ SumOfSeq(One(e)) = 1
    <2>1. {e} \in SUBSET I /\ Cardinality({e}) = 1
        BY FS_Singleton
    <2>2. SumOfSeq([j \in 1 .. n |-> IF j \in {e} THEN 1 ELSE 0]) = Cardinality({e})
        BY <2>1, SumCounts
    <2> QED BY <2>1, <2>2
<1>2. [j \in I |-> g[j] + One(d)[j]] = [j \in I |-> f[j] + One(i)[j]]
    <2>1. ASSUME NEW j \in I PROVE g[j] + One(d)[j] = f[j] + One(i)[j]
        <3>1. f[j] \in Int /\ g[j] \in Int
            OBVIOUS
        <3>2. CASE j = d
            BY <3>1, <3>2
        <3>3. CASE j = i
            BY <3>1, <3>3
        <3>4. CASE j \notin {d, i}
            BY <3>1, <3>4
        <3> QED BY <3>2, <3>3, <3>4
    <2> HIDE DEF One
    <2> QED BY <2>1
<1> HIDE DEF One
<1>3. SumOfSeq([j \in 1 .. n |-> g[j] + One(d)[j]]) = SumOfSeq(g) + 1
    <2>1. One(d) \in [1 .. n -> Int] /\ SumOfSeq(One(d)) = 1
        BY <1>1
    <2>2. SumOfSeq([j \in 1 .. n |-> g[j] + One(d)[j]]) = SumOfSeq(g) + SumOfSeq(One(d))
        BY <2>1, SumAdds
    <2> QED BY <2>1, <2>2
<1>4. SumOfSeq([j \in 1 .. n |-> f[j] + One(i)[j]]) = SumOfSeq(f) + 1
    <2>1. One(i) \in [1 .. n -> Int] /\ SumOfSeq(One(i)) = 1
        BY <1>1
    <2>2. SumOfSeq([j \in 1 .. n |-> f[j] + One(i)[j]]) = SumOfSeq(f) + SumOfSeq(One(i))
        BY <2>1, SumAdds
    <2> QED BY <2>1, <2>2
<1>5. SumOfSeq(f) \in Int /\ SumOfSeq(g) \in Int
    BY SumIsInt
<1>6. [j \in 1 .. n |-> g[j] + One(d)[j]] = [j \in 1 .. n |-> f[j] + One(i)[j]]
    BY <1>2
<1>7. SumOfSeq(g) + 1 = SumOfSeq(f) + 1
    BY ONLY <1>3, <1>4, <1>6
<1> QED BY ONLY <1>5, <1>7

\* The first of the largest segments, which gives the cell.
Donor(f) ==
    CHOOSE d \in DOMAIN f :
        /\ \A j \in DOMAIN f : f[j] <= f[d]
        /\ \A j \in 1 .. d - 1 : f[j] < f[d]

LEMMA DonorExists ==
    ASSUME NEW n \in Nat \ {0}, NEW f \in [1 .. n -> Nat]
    PROVE  Donor(f) \in 1 .. n /\ \A j \in 1 .. n : f[j] <= f[Donor(f)]
<1> DEFINE I == 1 .. n
           above == {m \in Nat : \A j \in I : f[j] <= m}
<1>1. above # {}
    <2> DEFINE N == {k \in Nat : k <= n => \E m \in Nat : \A j \in 1 .. k : f[j] <= m}
    <2>1. 0 \in N
        OBVIOUS
    <2>2. ASSUME NEW k \in Nat, k \in N PROVE k + 1 \in N
        <3> SUFFICES ASSUME k + 1 <= n
                     PROVE  \E m \in Nat : \A j \in 1 .. k + 1 : f[j] <= m
            OBVIOUS
        <3>1. PICK m \in Nat : \A j \in 1 .. k : f[j] <= m
            BY <2>2
        <3>2. PICK x \in Nat : x = f[k + 1]
            OBVIOUS
        <3>3. m + x \in Nat /\ \A j \in 1 .. k + 1 : f[j] <= m + x
            <4>1. \A j \in 1 .. k + 1 : j \in 1 .. k \/ j = k + 1
                OBVIOUS
            <4>2. \A j \in 1 .. k + 1 : f[j] \in Nat
                OBVIOUS
            <4> QED BY <3>1, <3>2, <4>1, <4>2
        <3> QED BY <3>3
    <2>3. Nat \subseteq N
        <3> HIDE DEF N
        <3> QED BY <2>1, <2>2, SetInduction
    <2>4. \E m \in Nat : \A j \in 1 .. n : f[j] <= m
        <3>1. n \in N
            <4> HIDE DEF N
            <4> QED BY <2>3
        <3> QED BY <3>1
    <2> QED BY <2>4
<1>2. PICK m \in above : \A k \in above : m <= k
    <2>1. above \subseteq Nat
        OBVIOUS
    <2> HIDE DEF above
    <2> QED BY <1>1, <2>1, LeastNumber
<1> DEFINE tops == {d \in I : f[d] = m}
<1>3. tops # {}
    <2> SUFFICES ASSUME \A d \in I : f[d] # m PROVE FALSE
        OBVIOUS
    <2>1. 1 \in I /\ f[1] \in Nat /\ f[1] <= m /\ f[1] # m
        BY <1>2
    <2>2. m - 1 \in Nat
        BY <2>1
    <2>3. \A j \in I : f[j] \in Nat /\ f[j] <= m /\ f[j] # m
        BY <1>2
    <2>4. \A j \in I : f[j] <= m - 1
        BY <2>3
    <2>5. m - 1 \in above
        BY <2>2, <2>4
    <2> QED BY <1>2, <2>5
<1>4. PICK d \in tops : \A k \in tops : d <= k
    <2>1. tops \subseteq Nat
        OBVIOUS
    <2> HIDE DEF tops
    <2> QED BY <1>3, <2>1, LeastNumber
<1>5. /\ \A j \in I : f[j] <= f[d]
      /\ \A j \in 1 .. d - 1 : f[j] < f[d]
    <2>1. d \in I /\ f[d] = m /\ \A j \in I : f[j] \in Nat /\ f[j] <= m
        BY <1>2, <1>4
    <2>2. ASSUME NEW j \in 1 .. d - 1 PROVE f[j] < f[d]
        <3>1. j \in I /\ ~(d <= j)
            BY <2>1
        <3>2. f[j] # m
            BY <1>4, <3>1
        <3> QED BY <2>1, <3>1, <3>2
    <2> QED BY <2>1, <2>2
<1>6. DOMAIN f = I
    OBVIOUS
<1>7. d \in DOMAIN f
    BY <1>4, <1>6
<1>8. /\ Donor(f) \in DOMAIN f
      /\ \A j \in DOMAIN f : f[j] <= f[Donor(f)]
    <2>1. \E e \in DOMAIN f : /\ \A j \in DOMAIN f : f[j] <= f[e]
                              /\ \A j \in 1 .. e - 1 : f[j] < f[e]
        BY <1>5, <1>6, <1>7
    <2> QED BY <2>1 DEF Donor
<1> QED BY <1>6, <1>8

\* One turn of the loop over the segments (dashboard.py:1713-1719).
CellKept(c, f, i) ==
    IF c[i] > 0 /\ f[i] = 0 /\ f[Donor(f)] > 1
    THEN [f EXCEPT ![Donor(f)] = @ - 1, ![i] = 1] ELSE f

LEMMA ACellIsKept ==
    ASSUME NEW n \in Nat \ {0}, NEW c \in [1 .. n -> Nat], NEW f \in [1 .. n -> Nat],
           NEW i \in 1 .. n
    PROVE  LET g == CellKept(c, f, i)
           IN  /\ g \in [1 .. n -> Nat]
               /\ SumOfSeq(g) = SumOfSeq(f)
               /\ \A j \in 1 .. n : f[j] > 0 => g[j] > 0
               /\ n <= SumOfSeq(f) /\ c[i] > 0 => g[i] > 0
<1> DEFINE g == CellKept(c, f, i)
<1>0. PICK d \in 1 .. n : d = Donor(f) /\ \A j \in 1 .. n : f[j] <= f[d]
    BY DonorExists
<1>1. ASSUME f[i] = 0, n <= SumOfSeq(f) PROVE f[d] > 1
    <2> SUFFICES ASSUME f[d] <= 1 PROVE FALSE
        BY <1>0
    <2> DEFINE Q == 1 .. n \ {i}
               one == [j \in 1 .. n |-> IF j \in Q THEN 1 ELSE 0]
    <2>1. \A j \in 1 .. n : f[j] \in Nat /\ f[j] <= 1
        BY <1>0
    <2>2. \A j \in 1 .. n : f[j] <= one[j]
        BY <1>1, <2>1
    <2>3. f \in [1 .. n -> Int] /\ one \in [1 .. n -> Int] /\ n \in Nat
        OBVIOUS
    <2>4. Q \in SUBSET (1 .. n)
        OBVIOUS
    <2>5. Cardinality(Q) = n - 1
        <3>1. IsFiniteSet(1 .. n) /\ Cardinality(1 .. n) = n
            <4>1. Cardinality(1 .. n) = IF 1 > n THEN 0 ELSE n - 1 + 1
                BY FS_Interval
            <4> QED BY <4>1, FS_Interval
        <3>2. Cardinality((1 .. n) \ {i}) = Cardinality(1 .. n) - 1
            BY <3>1, FS_RemoveElement
        <3>3. Q = (1 .. n) \ {i}
            OBVIOUS
        <3> HIDE DEF Q
        <3> QED BY <3>1, <3>2, <3>3
    <2>6. SumOfSeq(one) = n - 1
        <3> HIDE DEF Q
        <3> QED BY <2>3, <2>4, <2>5, SumCounts
    <2> HIDE DEF one, Q
    <2>7. SumOfSeq(f) <= SumOfSeq(one)
        BY <2>2, <2>3, SumOrdered
    <2>8. SumOfSeq(f) \in Int
        BY <2>3, SumIsInt
    <2> QED BY <1>1, <2>6, <2>7, <2>8
<1>2. CASE c[i] > 0 /\ f[i] = 0 /\ f[d] > 1
    <2>1. g = [f EXCEPT ![d] = @ - 1, ![i] = 1]
        BY <1>0, <1>2 DEF CellKept
    <2>2. d # i
        BY <1>2
    <2>3. /\ g[d] = f[d] - 1 /\ g[i] = 1 /\ \A j \in 1 .. n \ {d, i} : g[j] = f[j]
          /\ g \in [1 .. n -> Nat]
        <3>1. f[d] - 1 \in Nat
            BY <1>2
        <3> HIDE DEF g
        <3> QED BY <2>1, <2>2, <3>1
    <2> HIDE DEF g
    <2>4. SumOfSeq(g) = SumOfSeq(f)
        <3>1. g[i] = f[i] + 1
            BY <1>2, <2>3
        <3>2. f \in [1 .. n -> Int] /\ g \in [1 .. n -> Int] /\ n \in Nat
            BY <2>3
        <3> QED BY <2>2, <2>3, <3>1, <3>2, SumMoved
    <2>5. ASSUME NEW j \in 1 .. n, f[j] > 0 PROVE g[j] > 0
        <3>1. CASE j = d
            BY <1>2, <2>3, <3>1
        <3>2. CASE j = i
            BY <2>3, <3>2
        <3>3. CASE j \notin {d, i}
            BY <2>3, <2>5, <3>3
        <3> QED BY <3>1, <3>2, <3>3
    <2> QED BY <2>3, <2>4, <2>5 DEF g
<1>3. CASE ~(c[i] > 0 /\ f[i] = 0 /\ f[d] > 1)
    <2>1. g = f
        BY <1>0, <1>3 DEF CellKept
    <2>2. f[i] \in Nat
        OBVIOUS
    <2> HIDE DEF g
    <2>3. n <= SumOfSeq(f) /\ c[i] > 0 => f[i] > 0
        BY <1>1, <1>3, <2>2
    <2> QED BY <2>1, <2>3 DEF g
<1> QED BY <1>2, <1>3

\* Every non-zero count keeps a cell and the bar keeps its width, if it has a cell
\* for each segment.
LEMMA CellsAreKept ==
    ASSUME NEW n \in Nat \ {0}, NEW c \in [1 .. n -> Nat], NEW f \in [1 .. n -> Nat]
    PROVE  /\ KeepACell(c, f) \in [1 .. n -> Nat]
           /\ SumOfSeq(KeepACell(c, f)) = SumOfSeq(f)
           /\ n <= SumOfSeq(f) =>
                \A j \in 1 .. n : c[j] > 0 => KeepACell(c, f)[j] > 0
<1> DEFINE I == 1 .. n
           V == [1 .. n -> Nat]
           id == [i \in I |-> i]
           Turn(g) == [T \in SUBSET I |->
                        IF T = {} THEN f
                        ELSE LET x == Max(T) IN CellKept(c, g[T \ {x}], id[x])]
           iter == CHOOSE g : g = Turn(g)
           op == [x \in V \X I |-> CellKept(c, x[1], x[2])]
<1>0. DOMAIN c = I /\ DOMAIN id = I /\ f \in V
    OBVIOUS
<1>m. \A T \in SUBSET I : T # {} => Max(T) \in T
    BY MaxIsLargest
<1>1. \A g \in V, i \in I :
        /\ CellKept(c, g, i) \in V
        /\ SumOfSeq(CellKept(c, g, i)) = SumOfSeq(g)
        /\ \A j \in I : g[j] > 0 => CellKept(c, g, i)[j] > 0
        /\ n <= SumOfSeq(g) /\ c[i] > 0 => CellKept(c, g, i)[i] > 0
    BY ACellIsKept
<1>2. \E h : h = Turn(h)
    <2>1. op \in [V \X I -> V]
        <3>1. \A x \in V \X I : CellKept(c, x[1], x[2]) \in V
            BY <1>1
        <3> HIDE DEF V, I
        <3> QED BY <3>1
    <2>2. PICK h : FoldsOver(h, op, f, n) /\ \A T \in SUBSET I : h[T] \in V
        <3> HIDE DEF op, V
        <3> QED BY <1>0, <2>1, FoldsExist
    <2> DEFINE F(T) == IF T = {} THEN f ELSE op[<<h[T \ {Max(T)}], Max(T)>>]
               G(T) == IF T = {} THEN f ELSE CellKept(c, h[T \ {Max(T)}], id[Max(T)])
    <2>3. \A T \in SUBSET I : F(T) = G(T)
        <3> SUFFICES ASSUME NEW T \in SUBSET I PROVE F(T) = G(T)
            <4> HIDE DEF F, G
            <4> QED OBVIOUS
        <3>0. CASE T = {}
            <4> HIDE DEF op, id
            <4> QED BY <3>0
        <3> SUFFICES ASSUME T # {}
                     PROVE  op[<<h[T \ {Max(T)}], Max(T)>>]
                                = CellKept(c, h[T \ {Max(T)}], id[Max(T)])
            <4> HIDE DEF op, id
            <4> QED BY <3>0
        <3>1. Max(T) \in I /\ T \ {Max(T)} \in SUBSET I
            BY <1>m
        <3>2. PICK x \in I, v \in V : x = Max(T) /\ v = h[T \ {Max(T)}]
            <4> HIDE DEF V, I
            <4> QED BY <2>2, <3>1
        <3>3. op[<<v, x>>] = CellKept(c, v, x) /\ id[x] = x
            <4> HIDE DEF V, I
            <4> QED OBVIOUS
        <3> HIDE DEF op, id, V, I
        <3> QED BY <3>2, <3>3
    <2>4. h = [T \in SUBSET I |-> F(T)]
        BY <2>2 DEF FoldsOver
    <2>5. h = [T \in SUBSET I |-> G(T)]
        <3> HIDE DEF F, G
        <3> QED BY <2>3, <2>4
    <2>6. h = Turn(h)
        BY <2>5
    <2> HIDE DEF Turn
    <2> QED BY <2>6
<1>3. iter = Turn(iter)
    <2> HIDE DEF Turn
    <2> QED BY <1>2
<1>4. KeepACell(c, f) = iter[I]
    BY <1>0 DEF KeepACell, FoldLeft, MapThenFoldSet, CellKept, Donor
<1> HIDE DEF iter
<1>5. iter[{}] = f
    <2>1. Turn(iter)[{}] = f
        OBVIOUS
    <2> HIDE DEF Turn
    <2> QED BY <1>3, <2>1
<1>6. \A k \in 1 .. n : iter[1 .. k] = CellKept(c, iter[1 .. k - 1], k)
    <2> SUFFICES ASSUME NEW k \in 1 .. n
                 PROVE  iter[1 .. k] = CellKept(c, iter[1 .. k - 1], k)
        OBVIOUS
    <2>1. 1 .. k \in SUBSET I /\ 1 .. k # {} /\ k \in Nat \ {0} /\ k \in I
        <3>1. k \in Nat /\ k >= 1 /\ k <= n
            OBVIOUS
        <3>2. 1 .. k \in SUBSET I
            BY <3>1
        <3>3. 1 .. k # {}
            <4>1. 1 \in 1 .. k
                BY <3>1
            <4> QED BY <4>1
        <3> QED BY <3>1, <3>2, <3>3
    <2>2. Turn(iter)[1 .. k] =
            CellKept(c, iter[(1 .. k) \ {Max(1 .. k)}], id[Max(1 .. k)])
        BY <2>1
    <2>3. id[k] = k
        BY <2>1
    <2> HIDE DEF Turn, id
    <2> QED BY <1>3, <2>1, <2>2, <2>3, MaxOfPrefix
<1> HIDE DEF Turn, V
<1> DEFINE Good(k) ==
        /\ iter[1 .. k] \in V
        /\ SumOfSeq(iter[1 .. k]) = SumOfSeq(f)
        /\ n <= SumOfSeq(f) => \A j \in 1 .. k : c[j] > 0 => iter[1 .. k][j] > 0
    N == {k \in Nat : k <= n => Good(k)}
<1>7. 0 \in N
    <2>1. 1 .. 0 = {}
        OBVIOUS
    <2>2. iter[1 .. 0] = f
        BY <1>5, <2>1
    <2>3. Good(0)
        BY <1>0, <2>1, <2>2
    <2> HIDE DEF Good
    <2> QED BY <2>3
<1>8. ASSUME NEW k \in Nat, k \in N PROVE k + 1 \in N
    <2> SUFFICES ASSUME k + 1 <= n PROVE Good(k + 1)
        OBVIOUS
    <2>1. k + 1 \in I /\ (k + 1) - 1 = k /\ Good(k)
        <3> HIDE DEF Good
        <3> QED BY <1>8
    <2>2. iter[1 .. k + 1] = CellKept(c, iter[1 .. k], k + 1)
        BY <1>6, <2>1
    <2> DEFINE g == iter[1 .. k]
               q == CellKept(c, g, k + 1)
    <2>3. /\ q \in V /\ SumOfSeq(q) = SumOfSeq(g)
          /\ \A j \in I : g[j] > 0 => q[j] > 0
          /\ n <= SumOfSeq(g) /\ c[k + 1] > 0 => q[k + 1] > 0
        BY <1>1, <2>1
    <2>4. /\ g \in V /\ SumOfSeq(g) = SumOfSeq(f)
          /\ n <= SumOfSeq(f) => \A j \in 1 .. k : c[j] > 0 => g[j] > 0
        BY <2>1
    <2> HIDE DEF q, g
    <2>5. ASSUME n <= SumOfSeq(f), NEW j \in 1 .. k + 1, c[j] > 0 PROVE q[j] > 0
        <3>1. CASE j = k + 1
            BY <2>3, <2>4, <2>5, <3>1
        <3>2. CASE j # k + 1
            <4>1. j \in 1 .. k /\ j \in I
                BY <2>1, <3>2
            <4> QED BY <2>3, <2>4, <2>5, <4>1
        <3> QED BY <3>1, <3>2
    <2>6. iter[1 .. k + 1] = q
        BY <2>2 DEF q, g
    <2> QED BY <2>3, <2>4, <2>5, <2>6
<1>9. Nat \subseteq N
    <2> HIDE DEF N
    <2> QED BY <1>7, <1>8, SetInduction
<1>10. Good(n)
    <2> HIDE DEF Good
    <2> QED BY <1>9
<1> QED BY <1>4, <1>10 DEF V

LEMMA SumIsNat ==
    ASSUME NEW n \in Nat, NEW f \in [1 .. n -> Nat]
    PROVE  SumOfSeq(f) \in Nat
<1> DEFINE Q == {}
           z == [i \in 1 .. n |-> IF i \in Q THEN 1 ELSE 0]
<1>1. SumOfSeq(z) = Cardinality(Q)
    <2>1. Q \in SUBSET (1 .. n)
        OBVIOUS
    <2> HIDE DEF Q
    <2> QED BY <2>1, SumCounts
<1>2. Cardinality(Q) = 0
    BY FS_EmptySet
<1>3. z \in [1 .. n -> Int] /\ f \in [1 .. n -> Int] /\ \A i \in 1 .. n : z[i] <= f[i]
    OBVIOUS
<1> HIDE DEF z, Q
<1>4. SumOfSeq(z) <= SumOfSeq(f)
    BY <1>3, SumOrdered
<1>5. SumOfSeq(f) \in Int
    BY <1>3, SumIsInt
<1> QED BY <1>1, <1>2, <1>4, <1>5

\* However its counts divide, a bar of w cells has w cells: no segment has fewer than
\* none, and each that stands for something has one, if there is a cell for each
\* (render_bar, dashboard.py:1669-1719).
THEOREM BarsFill ==
    ASSUME NEW n \in Nat \ {0}, NEW c \in [1 .. n -> Nat], SumOfSeq(c) # 0, NEW w \in Nat
    PROVE  /\ Fills(w, c) \in [1 .. n -> Nat] /\ CursorFills(w, c) \in [1 .. n -> Nat]
           /\ SumOfSeq(Fills(w, c)) = w
           /\ SumOfSeq(CursorFills(w, c)) = w
           /\ n <= w => \A j \in 1 .. n : c[j] > 0 => Fills(w, c)[j] > 0
<1> DEFINE a == Apportioned(w, c)
<1>1. SumOfSeq(c) \in Nat
    BY SumIsNat
<1>2. a \in [1 .. n -> Nat] /\ SumOfSeq(a) = w
    BY <1>1, ApportionedFills
<1> HIDE DEF a
<1>3. /\ KeepACell(c, a) \in [1 .. n -> Nat]
      /\ SumOfSeq(KeepACell(c, a)) = SumOfSeq(a)
      /\ n <= SumOfSeq(a) => \A j \in 1 .. n : c[j] > 0 => KeepACell(c, a)[j] > 0
    BY <1>2, CellsAreKept
<1> QED BY <1>2, <1>3 DEF Fills, CursorFills, a

-----------------------------------------------------------------------------
(* What the bars are drawn from.                                           *)

TallyFields == {"total_pieces", "index_max", "pieces_done", "joins_done",
                "lock_requests", "lock_misses", "mem_booked", "threads_reported",
                "mem_launch", "mem_max"}

\* Whatever is counted is a number, and no request misses the lock but one.
Tallied(s) ==
    /\ \A f \in TallyFields : s[f] \in Nat
    /\ s.lock_misses <= s.lock_requests

LEMMA TallyInState == TallyFields \subseteq StateFields
BY DEF TallyFields, StateFields, FreshState

LEMMA TallyKept ==
    ASSUME NEW s, DOMAIN s = StateFields, Tallied(s), NEW u, NEW F, Only(s, u, F),
           \A f \in TallyFields \cap F : u[f] \in Nat,
           {"lock_requests", "lock_misses"} \cap F = {} \/ u.lock_misses <= u.lock_requests
    PROVE  Tallied(u)
<1>1. \A f \in TallyFields : u[f] \in Nat
    BY TallyInState DEF Tallied, Only
<1>2. CASE {"lock_requests", "lock_misses"} \cap F = {}
    <2>1. {"lock_requests", "lock_misses"} \subseteq DOMAIN s
        BY TallyInState DEF TallyFields
    <2>2. u.lock_requests = s.lock_requests /\ u.lock_misses = s.lock_misses
        BY <1>2, <2>1 DEF Only
    <2> QED BY <1>1, <2>2 DEF Tallied
<1> QED BY <1>1, <1>2 DEF Tallied

LEMMA TallyElsewhere ==
    ASSUME NEW s, DOMAIN s = StateFields, Tallied(s), NEW u, NEW F, Only(s, u, F),
           TallyFields \cap F = {}
    PROVE  Tallied(u)
<1>1. {"lock_requests", "lock_misses"} \cap F = {}
    BY DEF TallyFields
<1> QED BY <1>1, TallyKept

\* What was found stored stands for whole pieces.
Covers(r) ==
    r.fn = "node_process" /\ r.action = "already stored" =>
        LeavesCovered(r.key) \in Nat \ {0}

LEMMA WorkTallied ==
    ASSUME NEW s, DOMAIN s = StateFields, Tallied(s), NEW r, r.action \in NodeActions,
           r.action = "already stored" => LeavesCovered(r.key) \in Nat \ {0}
    PROVE  Tallied(HandleNodeProcess(s, r))
<1> DEFINE u == HandleNodeProcess(s, r)
           Counting(v) == /\ {"pieces_done", "joins_done"} \subseteq DOMAIN v
                          /\ v.pieces_done \in Nat /\ v.joins_done \in Nat
<1>0. /\ {"pieces_done", "joins_done"} \subseteq DOMAIN s
      /\ s.pieces_done \in Nat /\ s.joins_done \in Nat
    BY TallyInState DEF TallyFields, Tallied
<1> SUFFICES u.pieces_done \in Nat /\ u.joins_done \in Nat
    <2>1. Only(s, u, WorkFields)
        BY OnlyWork
    <2> HIDE DEF u
    <2>2. TallyFields \cap WorkFields = {"pieces_done", "joins_done"}
          /\ {"lock_requests", "lock_misses"} \cap WorkFields = {}
        BY DEF TallyFields, WorkFields
    <2>3. Tallied(u)
        BY <2>1, <2>2, TallyKept
    <2> QED BY <2>3 DEF u
<1>a. s.pieces_done \in Nat /\ s.joins_done \in Nat
    BY <1>0
<1>s. \A v : Only(s, v, {"tree", "active"}) =>
        v.pieces_done = s.pieces_done /\ v.joins_done = s.joins_done
    BY <1>0 DEF Only
<1>t. \A v, t : Counting(v) => Counting([v EXCEPT !.tree = t])
    OBVIOUS
<1>1. CASE r.action = "begin"
    <2> DEFINE key == NodeOf(s, r.key)
               s1  == SetEntry(s, r.pid, [EntryOf(s, r.pid) EXCEPT
                                            !.node = key, !.resumed = FALSE])
               s2  == [s1 EXCEPT !.tree[key].in_progress = TRUE, !.tree[key].pid = r.pid]
               s3  == AttachTaskPlan(s2, r.pid, key)
               s4  == [s3 EXCEPT !.tree = MarkActive(s3.tree, key, 1)]
    <2>1. u = IF key = NoKey THEN s1 ELSE s4
        <3>1. u = HandleBegin(s, r)
            BY <1>1, Zenon DEF HandleNodeProcess
        <3> QED BY <3>1 DEF HandleBegin
    <2>2. Only(s, s1, {"active"})
        BY OnlyEntries
    <2> HIDE DEF s1, key, u
    <2>3. Only(s1, s2, {"tree"})
        BY DEF Only
    <2> HIDE DEF s2
    <2>4. Only(s2, s3, {"tree"})
        BY OnlyAttached
    <2> HIDE DEF s3
    <2>5. Only(s3, s4, {"tree"})
        BY OnlyTree
    <2> HIDE DEF s4
    <2>6. Only(s, s1, {"tree", "active"}) /\ Only(s, s4, {"tree", "active"})
        BY <2>2, <2>3, <2>4, <2>5 DEF Only
    <2> QED BY <1>0, <1>s, <2>1, <2>6
<1>2. CASE r.action = "already stored"
    <2> DEFINE key     == NodeOf(s, r.key)
               covered == LeavesCovered(r.key)
               s0      == DropEntry(s, r.pid)
               s1      == [s0 EXCEPT !.pieces_done = @ + covered,
                                     !.joins_done = @ + covered - 1]
               t       == MarkNodeDone(MarkUnitsDone(MarkLeavesDone(s1.tree, key, covered),
                                                     key, 2 * covered - 1), key)
               s2      == [s1 EXCEPT !.tree = t]
    <2>1. u = IF key = NoKey THEN s1 ELSE s2
        <3>1. u = HandleAlreadyStored(s, r)
            BY <1>2, Zenon DEF HandleNodeProcess
        <3> QED BY <3>1 DEF HandleAlreadyStored
    <2>2. Only(s, s0, {"active"})
        BY OnlyEntries
    <2>3. covered \in Nat \ {0}
        BY <1>2
    <2> HIDE DEF s0, key, covered, t, u
    <2>4. s0.pieces_done = s.pieces_done /\ s0.joins_done = s.joins_done
          /\ {"pieces_done", "joins_done"} \subseteq DOMAIN s0
        BY <1>0, <2>2 DEF Only
    <2>5. Counting(s1)
        <3>1. /\ s1.pieces_done = s0.pieces_done + covered
              /\ s1.joins_done = s0.joins_done + covered - 1
              /\ DOMAIN s1 = DOMAIN s0
            BY <2>4
        <3>2. s.pieces_done + covered \in Nat /\ s.joins_done + covered - 1 \in Nat
            BY ONLY <1>a, <2>3
        <3> QED BY <2>4, <3>1, <3>2
    <2> HIDE DEF s1
    <2> QED BY <1>t, <2>1, <2>5
<1>3. CASE r.action = "joining"
    <2>1. u = HandleJoining(s, r)
        BY <1>3, Zenon DEF HandleNodeProcess
    <2>2. Only(s, HandleJoining(s, r), {"tree", "active"})
        BY DEF HandleJoining, Only
    <2> QED BY <1>0, <1>s, <2>1, <2>2
<1>4. CASE r.action = "joined"
    <2> DEFINE key == NodeOf(s, r.key)
               x   == EntryOf(s, r.pid).resumed
               s1  == [s EXCEPT !.joins_done = @ + 1,
                                !.join_events = IF x THEN @ ELSE @ + 1]
               t   == MarkNodeDone(MarkUnitsDone(s1.tree, key, 1), key)
               s2  == [s1 EXCEPT !.tree = t]
    <2>1. u = IF key = NoKey THEN s1 ELSE s2
        <3>1. u = HandleJoined(s, r)
            BY <1>4, Zenon DEF HandleNodeProcess
        <3> QED BY <3>1 DEF HandleJoined
    <2> HIDE DEF key, x, t, u
    <2>2. Counting(s1)
        <3>1. /\ s1.pieces_done = s.pieces_done /\ s1.joins_done = s.joins_done + 1
              /\ DOMAIN s1 = DOMAIN s
            BY <1>0
        <3>2. s.pieces_done + 1 \in Nat /\ s.joins_done + 1 \in Nat
            BY ONLY <1>a
        <3> QED BY <1>0, <3>1, <3>2
    <2> HIDE DEF s1
    <2> QED BY <1>t, <2>1, <2>2
<1>5. CASE r.action = "piece"
    <2> DEFINE key == NodeOf(s, r.key)
               s1  == [s EXCEPT !.pieces_done = @ + 1, !.piece_events = @ + 1]
               t   == MarkNodeDone(MarkUnitsDone(MarkLeavesDone(s1.tree, key, 1), key, 1), key)
               s2  == [s1 EXCEPT !.tree = t]
    <2>1. u = IF key = NoKey THEN s1 ELSE s2
        <3>1. u = HandlePiece(s, r)
            BY <1>5, Zenon DEF HandleNodeProcess
        <3> QED BY <3>1 DEF HandlePiece
    <2> HIDE DEF key, t, u
    <2>2. Counting(s1)
        <3>1. /\ s1.pieces_done = s.pieces_done + 1 /\ s1.joins_done = s.joins_done
              /\ DOMAIN s1 = DOMAIN s
            BY <1>0
        <3>2. s.pieces_done + 1 \in Nat /\ s.joins_done + 1 \in Nat
            BY ONLY <1>a
        <3> QED BY <1>0, <3>1, <3>2
    <2> HIDE DEF s1
    <2> QED BY <1>t, <2>1, <2>2
<1> QED BY <1>1, <1>2, <1>3, <1>4, <1>5, Zenon DEF NodeActions

\* A request is counted with its miss.
LEMMA PhaseTallied ==
    ASSUME NEW s, DOMAIN s = StateFields, Tallied(s), NEW r
    PROVE  Tallied(HandlePhaseLine(s, r))
<1> DEFINE key == EntryOf(s, r.pid).node
           s1  == IF Known(s, r.pid)
                  THEN SetEntry(s, r.pid, PhaseEntry(s.active[r.pid], r)) ELSE s
           s2  == PhaseLock(s1, r)
           s3  == [s2 EXCEPT !.tree[key] = PhaseNode(@, r)]
           s4  == AttachTaskPlan(s3, r.pid, key)
<1>1. HandlePhaseLine(s, r) \in {s2, s3, s4}
    BY DEF HandlePhaseLine
<1>2. Only(s, s1, {"active"})
    BY OnlyEntries DEF Only
<1> HIDE DEF s1
<1>3. Tallied(s1) /\ DOMAIN s1 = StateFields
    <2>1. TallyFields \cap {"active"} = {}
        BY DEF TallyFields
    <2> QED BY <1>2, <2>1, TallyElsewhere DEF Only
<1>4. Tallied(s2) /\ DOMAIN s2 = StateFields
    <2>0. /\ s1.lock_requests \in Nat /\ s1.lock_misses \in Nat
          /\ s1.lock_misses <= s1.lock_requests
          /\ {"lock_requests", "lock_misses"} \subseteq DOMAIN s1
        BY <1>3, TallyInState DEF Tallied, TallyFields
    <2> DEFINE F == {"locking_pids", "lock_requests", "lock_misses"}
    <2>1. /\ Only(s1, s2, F)
          /\ s2.lock_requests \in Nat /\ s2.lock_misses \in Nat
          /\ s2.lock_misses <= s2.lock_requests
        <3>1. CASE r.action = "locking"
            <4>1. s2 = [s1 EXCEPT !.locking_pids = @ \cup {r.pid}]
                BY <3>1 DEF PhaseLock
            <4> QED BY <2>0, <4>1 DEF Only
        <3>2. CASE r.action = "locked"
            <4> DEFINE m == IF r.lock = "MISS" THEN 1 ELSE 0
            <4>1. s2 = [s1 EXCEPT !.locking_pids = @ \ {r.pid}, !.lock_requests = @ + 1,
                                  !.lock_misses = @ + m]
                BY <3>2, Zenon DEF PhaseLock
            <4>2. m \in {0, 1}
                OBVIOUS
            <4> HIDE DEF m, s2
            <4>3. Only(s1, s2, F)
                BY <4>1 DEF Only
            <4>4. s2.lock_requests = s1.lock_requests + 1 /\ s2.lock_misses = s1.lock_misses + m
                BY <2>0, <4>1
            <4> QED BY <2>0, <4>2, <4>3, <4>4
        <3>3. CASE r.action \notin {"locking", "locked"}
            <4>1. s2 = s1
                BY <3>3, Zenon DEF PhaseLock
            <4> HIDE DEF s2
            <4> QED BY <2>0, <4>1 DEF Only
        <3> QED BY <3>1, <3>2, <3>3
    <2> HIDE DEF s2
    <2>2. TallyFields \cap F = {"lock_requests", "lock_misses"}
        BY DEF TallyFields
    <2>3. Tallied(s2)
        <3> HIDE DEF F
        <3> QED BY <1>3, <2>1, <2>2, TallyKept
    <2> QED BY <1>3, <2>1, <2>3 DEF Only
<1> HIDE DEF s2, key
<1>5. Only(s2, s3, {"tree"})
    BY DEF Only
<1> HIDE DEF s3
<1>6. Only(s3, s4, {"tree"})
    BY OnlyAttached
<1> HIDE DEF s4
<1>7. TallyFields \cap {"tree"} = {}
    BY DEF TallyFields
<1>8. Tallied(s3) /\ DOMAIN s3 = StateFields
    BY <1>4, <1>5, <1>7, TallyElsewhere DEF Only
<1>9. Tallied(s4)
    BY <1>6, <1>7, <1>8, TallyElsewhere
<1> QED BY <1>1, <1>4, <1>8, <1>9

LEMMA ApplyTallied ==
    ASSUME NEW s, DOMAIN s = StateFields, Tallied(s), NEW N \in Nat
    PROVE  /\ Tallied(ApplyIndexMax(s, N))
           /\ DOMAIN ApplyIndexMax(s, N) = StateFields
<1> DEFINE u == ApplyIndexMax(s, N)
           pieces == N \div PiecesPerLeaf
           t == IF s.chunk_span = 0 THEN NoTree ELSE BuildTree(N, s.chunk_span)
<1>1. u = [s EXCEPT !.total_pieces = pieces, !.index_max = N,
                    !.tree_chunk_span = s.chunk_span, !.tree = t]
    BY DEF ApplyIndexMax
<1>2. pieces \in Nat
    <2>1. PiecesPerLeaf \in Nat \ {0}
        BY PieceSizeAssumption, PowerDoubles DEF PiecesPerLeaf
    <2> HIDE DEF PiecesPerLeaf
    <2>2. \A a \in Nat, b \in Nat \ {0} : a \div b \in Nat
        OBVIOUS
    <2> QED BY <2>1, <2>2
<1>3. {"total_pieces", "index_max"} \subseteq DOMAIN s
    BY TallyInState DEF TallyFields
<1> HIDE DEF u, pieces, t
<1>4. Only(s, u, ShapeFields) /\ DOMAIN u = StateFields
    BY <1>1 DEF Only, ShapeFields
<1>5. u.total_pieces \in Nat /\ u.index_max \in Nat
    <2>1. u.total_pieces = pieces /\ u.index_max = N
        BY <1>1, <1>3
    <2> QED BY <1>2, <2>1
<1>6. /\ TallyFields \cap ShapeFields = {"total_pieces", "index_max"}
      /\ {"lock_requests", "lock_misses"} \cap ShapeFields = {}
    BY DEF TallyFields, ShapeFields
<1>7. Tallied(u)
    BY <1>4, <1>5, <1>6, TallyKept
<1> QED BY <1>4, <1>7 DEF u

LEMMA ConfigTallied ==
    ASSUME NEW s, DOMAIN s = StateFields, Tallied(s), NEW name, NEW val \in Nat
    PROVE  Tallied(HandleConfig(s, name, val))
<1> DEFINE prev == s.prev_config
           config == (name :> val) @@ s.config
           diff == IF name \in DOMAIN prev /\ prev[name] # val
                   THEN s.config_diff \cup {name} ELSE s.config_diff
           v == [s EXCEPT !.config = config, !.config_diff = diff]
           u == HandleConfigOf(v, name, val)
<1>1. HandleConfig(s, name, val) = u
    BY DEF HandleConfig
<1> HIDE DEF config, diff
<1>2. Tallied(v) /\ DOMAIN v = StateFields
    <2>1. Only(s, v, {"config", "config_diff"}) /\ DOMAIN v = StateFields
        BY DEF Only
    <2>2. TallyFields \cap {"config", "config_diff"} = {}
        BY DEF TallyFields
    <2> QED BY <2>1, <2>2, TallyElsewhere
<1> HIDE DEF v
<1>e. ASSUME NEW w, NEW F, Only(v, w, F), TallyFields \cap F = {} PROVE Tallied(w)
    BY <1>2, <1>e, TallyElsewhere
<1> SUFFICES Tallied(u)
    BY <1>1
<1>3. CASE name = "piece size"
    <2>1. u = v \/ (ArgSize # 0 /\ u = ApplyIndexMax(v, GetIndexMax(ArgSize)))
        BY <1>3, Zenon DEF HandleConfigOf
    <2> HIDE DEF u
    <2>2. GetIndexMax(ArgSize) \in Nat
        BY ArgAssumption, IndexMaxType
    <2> QED BY <1>2, <2>1, <2>2, ApplyTallied
<1>4. CASE name = "run size"
    <2>1. u = v \/ u = ApplyIndexMax(v, val)
        BY <1>4, Zenon DEF HandleConfigOf
    <2> HIDE DEF u
    <2> QED BY <1>2, <2>1, ApplyTallied
<1>5. CASE name = "chunk span"
    <2> DEFINE w == [v EXCEPT !.chunk_span = val]
    <2>1. u = w \/ u = ApplyIndexMax(w, v.index_max)
        BY <1>5, Zenon DEF HandleConfigOf
    <2>2. Only(v, w, {"chunk_span"}) /\ DOMAIN w = StateFields
        BY <1>2 DEF Only
    <2>3. TallyFields \cap {"chunk_span"} = {}
        BY DEF TallyFields
    <2> HIDE DEF u, w
    <2>4. Tallied(w)
        BY <1>e, <2>2, <2>3
    <2>5. v.index_max \in Nat
        BY <1>2 DEF Tallied, TallyFields
    <2> QED BY <2>1, <2>2, <2>4, <2>5, ApplyTallied
<1>6. CASE name = "mem max"
    <2>1. u = [v EXCEPT !.mem_max = val]
        BY <1>6, Zenon DEF HandleConfigOf
    <2>2. "mem_max" \in DOMAIN v
        BY <1>2, TallyInState DEF TallyFields
    <2> HIDE DEF u
    <2>3. Only(v, u, {"mem_max"}) /\ u.mem_max = val
        BY <2>1, <2>2 DEF Only
    <2>4. \A f \in TallyFields \cap {"mem_max"} : u[f] \in Nat
        BY <2>3
    <2>5. {"lock_requests", "lock_misses"} \cap {"mem_max"} = {}
        OBVIOUS
    <2> QED BY <1>2, <2>3, <2>4, <2>5, TallyKept
<1>7. CASE name = "mem launch"
    <2>1. u = [v EXCEPT !.mem_launch = val]
        BY <1>7, Zenon DEF HandleConfigOf
    <2>2. "mem_launch" \in DOMAIN v
        BY <1>2, TallyInState DEF TallyFields
    <2> HIDE DEF u
    <2>3. Only(v, u, {"mem_launch"}) /\ u.mem_launch = val
        BY <2>1, <2>2 DEF Only
    <2>4. \A f \in TallyFields \cap {"mem_launch"} : u[f] \in Nat
        BY <2>3
    <2>5. {"lock_requests", "lock_misses"} \cap {"mem_launch"} = {}
        OBVIOUS
    <2> QED BY <1>2, <2>3, <2>4, <2>5, TallyKept
<1>8. CASE name \notin {"piece size", "run size", "chunk span", "mem max",
                      "mem launch"}
    <2> DEFINE F == {"n_process_logged", "disk_lock_enabled"}
    <2>1. \/ u = v
          \/ u = [v EXCEPT !.n_process_logged = val]
          \/ u = [v EXCEPT !.disk_lock_enabled = (val # 0)]
        BY <1>8, Zenon DEF HandleConfigOf
    <2> HIDE DEF u
    <2>2. Only(v, u, F)
        BY <2>1 DEF Only
    <2>3. TallyFields \cap F = {}
        BY DEF TallyFields
    <2> HIDE DEF F
    <2> QED BY <1>e, <2>2, <2>3
<1> QED BY <1>3, <1>4, <1>5, <1>6, <1>7, <1>8, Zenon

\* A run that finds its result stored has done every unit there is.
LEMMA RootTallied ==
    ASSUME NEW s, DOMAIN s = StateFields, Tallied(s), NEW action \in PhaseActions
    PROVE  Tallied(HandlePhase(s, action))
<1> DEFINE F == {"phase", "done", "tree"}
<1>0. TallyFields \cap F = {}
    BY DEF TallyFields
<1>e. ASSUME NEW v, DOMAIN v = StateFields, Tallied(v), NEW w, Only(v, w, F)
      PROVE  Tallied(w) /\ DOMAIN w = StateFields
    <2> HIDE DEF F
    <2> QED BY <1>0, <1>e, TallyElsewhere DEF Only
<1>1. ASSUME NEW name PROVE Tallied(SetPhase(s, name)) /\ DOMAIN SetPhase(s, name) = StateFields
    <2>1. Only(s, SetPhase(s, name), F)
        BY DEF SetPhase, Only
    <2> HIDE DEF F
    <2> QED BY <1>e, <2>1
<1>2. CASE action \in {"dividing", "divided", "binary split solved"}
    <2>1. HandlePhase(s, action) = SetPhase(s, action)
        BY <1>2, Zenon DEF HandlePhase
    <2> QED BY <1>1, <2>1
<1>3. CASE action = "pi already stored"
    <2> DEFINE w == SetPhase(s, action)
               root == <<1, w.index_max>>
               v == IF w.total_pieces = 0 THEN w
                    ELSE [w EXCEPT !.pieces_done = w.total_pieces,
                                   !.joins_done = w.total_pieces - 1]
               L == w.tree[root].leaves_total
               t == MarkNodeDone(MarkUnitsDone(MarkLeavesDone(v.tree, root, L), root,
                                               2 * L - 1), root)
               x == [v EXCEPT !.tree = t]
    <2>1. HandlePhase(s, action) = AllDone(w)
        BY <1>3, Zenon DEF HandlePhase
    <2>2. AllDone(w) = IF w.tree = NoTree THEN v ELSE x
        BY DEF AllDone
    <2>3. Tallied(w) /\ DOMAIN w = StateFields
        BY <1>1
    <2> HIDE DEF w, t
    <2>4. Tallied(v) /\ DOMAIN v = StateFields
        <3>1. CASE w.total_pieces = 0
            BY <2>3, <3>1
        <3>2. CASE w.total_pieces # 0
            <4>1. w.total_pieces \in Nat
                BY <2>3 DEF Tallied, TallyFields
            <4>2. w.total_pieces - 1 \in Nat
                BY ONLY <3>2, <4>1
            <4>3. {"pieces_done", "joins_done"} \subseteq DOMAIN w
                BY <2>3, TallyInState DEF TallyFields
            <4>4. /\ Only(w, v, {"pieces_done", "joins_done"}) /\ DOMAIN v = StateFields
                  /\ v.pieces_done = w.total_pieces /\ v.joins_done = w.total_pieces - 1
                BY <2>3, <3>2, <4>3 DEF Only
            <4> HIDE DEF v
            <4>5. \A f \in TallyFields \cap {"pieces_done", "joins_done"} : v[f] \in Nat
                BY <4>1, <4>2, <4>4
            <4>6. {"lock_requests", "lock_misses"} \cap {"pieces_done", "joins_done"} = {}
                OBVIOUS
            <4> QED BY <2>3, <4>4, <4>5, <4>6, TallyKept
        <3> QED BY <3>1, <3>2
    <2> HIDE DEF v
    <2>5. Only(v, x, F)
        BY DEF Only
    <2> HIDE DEF x, F
    <2> QED BY <1>e, <2>1, <2>2, <2>4, <2>5
<1>4. CASE action = "display begin"
    <2>1. HandlePhase(s, action) = SetPhase(s, "displaying")
        BY <1>4, Zenon DEF HandlePhase
    <2> QED BY <1>1, <2>1
<1>5. CASE action = "display end"
    <2> DEFINE v == SetPhase(s, "displayed")
    <2>1. HandlePhase(s, action) = [v EXCEPT !.done = TRUE]
        BY <1>5, Zenon DEF HandlePhase
    <2>2. Tallied(v) /\ DOMAIN v = StateFields
        BY <1>1
    <2> HIDE DEF v
    <2>3. Only(v, [v EXCEPT !.done = TRUE], F)
        BY DEF Only
    <2> HIDE DEF F
    <2> QED BY <1>e, <2>1, <2>2, <2>3
<1> QED BY <1>2, <1>3, <1>4, <1>5, Zenon DEF PhaseActions

\* The phase is set by the root's records, and the ceiling by its own.
Follows(s, u, r) ==
    /\ u.phase = s.phase \/ r.fn = "pi"
    /\ IF Configures(r) /\ r.action = "mem max" THEN u.mem_max = r.val
       ELSE u.mem_max = s.mem_max

LEMMA HandleTallied ==
    ASSUME NEW s, DOMAIN s = StateFields, Tallied(s), NEW r, Line(r), Covers(r),
           r.fn = "scheduler" => r.val \in Nat, NEW ts
    PROVE  /\ Tallied(Handle(s, r, ts))
           /\ Follows(s, Handle(s, r, ts), r)
<1> DEFINE u == Handle(s, r, ts)
<1>0. {"phase", "mem_max"} \subseteq DOMAIN s
    BY FieldsOfState
<1>a. ASSUME NEW F, Only(s, u, F), F \cap {"phase", "mem_max"} = {}, r.fn # "pi_tree"
      PROVE  Follows(s, u, r)
    BY <1>0, <1>a DEF Only, Follows, Configures
<1>b. ASSUME NEW F, Only(s, u, F), TallyFields \cap F = {} PROVE Tallied(u)
    <2> HIDE DEF u
    <2> QED BY <1>b, TallyElsewhere
<1> SUFFICES Tallied(u) /\ Follows(s, u, r)
    OBVIOUS
<1>1. CASE r.fn = "node_process"
    <2>1. u = HandleNodeProcess(s, r)
        BY <1>1, Zenon DEF Handle
    <2>2. r.action \in NodeActions
        BY <1>1, Zenon DEF Line
    <2>3. r.action = "already stored" => LeavesCovered(r.key) \in Nat \ {0}
        BY <1>1 DEF Covers
    <2> HIDE DEF u
    <2>4. Only(s, u, WorkFields) /\ WorkFields \cap {"phase", "mem_max"} = {}
        BY <2>1, <2>2, OnlyWork DEF WorkFields
    <2> QED BY <1>1, <1>a, <2>1, <2>2, <2>3, <2>4, WorkTallied
<1>2. CASE r.fn = "split_piece"
    <2>1. u = HandlePhaseLine(s, r)
        BY <1>2, Zenon DEF Handle
    <2> HIDE DEF u
    <2>2. Only(s, u, PhaseFields) /\ PhaseFields \cap {"phase", "mem_max"} = {}
        BY <2>1, OnlyPhase DEF PhaseFields
    <2> QED BY <1>2, <1>a, <2>1, <2>2, PhaseTallied
<1>3. CASE r.fn \in {"task_start", "task_donate"}
    <2>1. u = HandleTaskStart(s, r, ts)
        BY <1>3, Zenon DEF Handle
    <2> HIDE DEF u
    <2>2. Only(s, u, StartFields) /\ StartFields \cap {"phase", "mem_max"} = {}
        BY <2>1, OnlyStart DEF StartFields
    <2>3. TallyFields \cap StartFields = {}
        BY DEF StartFields, TallyFields
    <2> QED BY <1>3, <1>a, <1>b, <2>2, <2>3
<1>4. CASE r.fn \in {"task_end", "task_check_exit", "node_can_launch"}
    <2> DEFINE F == {"active", "locking_pids", "task_exit", "halt", "halt_seen"}
    <2>1. u \in {HandleTaskEnd(s, r), HandleTaskExit(s, r), HandleHalt(s, r)}
        <3>1. CASE r.fn = "task_end"
            BY <3>1, Zenon DEF Handle
        <3>2. CASE r.fn = "task_check_exit"
            BY <3>2, Zenon DEF Handle
        <3>3. CASE r.fn = "node_can_launch"
            BY <3>3, Zenon DEF Handle
        <3> QED BY <1>4, <3>1, <3>2, <3>3
    <2> HIDE DEF u
    <2>2. Only(s, u, F)
        BY <2>1, OnlyEnd DEF Only
    <2>3. F \cap {"phase", "mem_max"} = {} /\ TallyFields \cap F = {}
        BY DEF TallyFields
    <2> HIDE DEF F
    <2> QED BY <1>4, <1>a, <1>b, <2>2, <2>3
<1>5. CASE r.fn = "scheduler"
    <2>1. u = HandleScheduler(s, r)
        BY <1>5, Zenon DEF Handle
    <2>2. r.action \in Totals
        BY <1>5, Zenon DEF Line, Totals
    <2> DEFINE F == {"active_max", "mem_booked", "threads_reported"}
    <2>3. TotalsFollow(s, u, r)
        BY HandleTotals
    <2> HIDE DEF u
    <2>4. Only(s, u, F)
        <3>1. Only(s, u, {TotalField(r.action)})
            BY <2>1, <2>2, OnlyTotal
        <3>2. TotalField(r.action) \in F
            <4>1. CASE r.action = "active processes"
                BY <4>1, Zenon DEF TotalField
            <4>2. CASE r.action = "active threads"
                BY <4>2, Zenon DEF TotalField
            <4>3. CASE r.action = "active memory"
                BY <4>3, Zenon DEF TotalField
            <4> QED BY <2>2, <4>1, <4>2, <4>3, Zenon DEF Totals
        <3> HIDE DEF F
        <3> QED BY <3>1, <3>2 DEF Only
    <2>5. s.mem_booked \in Nat /\ s.threads_reported \in Nat
        BY DEF Tallied, TallyFields
    <2>6. u.mem_booked \in Nat /\ u.threads_reported \in Nat
        BY <1>5, <2>3, <2>5 DEF TotalsFollow, TotalIs
    <2>7. \A f \in TallyFields \cap F : u[f] \in Nat
        BY <2>6 DEF TallyFields
    <2>8. /\ F \cap {"phase", "mem_max"} = {}
          /\ {"lock_requests", "lock_misses"} \cap F = {}
        OBVIOUS
    <2> HIDE DEF F
    <2>9. Tallied(u)
        BY <2>4, <2>7, <2>8, TallyKept
    <2> QED BY <1>5, <1>a, <2>4, <2>8, <2>9
<1>6. CASE r.fn = "pi_tree"
    <2>1. u = HandleConfig(s, r.action, r.val)
        BY <1>6, Zenon DEF Handle
    <2>2. r.val \in Nat
        BY <1>6, Zenon DEF Line
    <2> HIDE DEF u
    <2>3. Tallied(u)
        BY <2>1, <2>2, ConfigTallied
    <2>4. Only(s, u, ConfigFields(r.action))
        BY <2>1, OnlyConfig
    <2>5. /\ ConfigField(r.action) \in {"chunk_span", "n_process_logged", "mem_launch",
                                        "mem_max", "disk_lock_enabled", "config"}
          /\ r.action # "mem max" => ConfigField(r.action) # "mem_max"
        BY Zenon DEF ConfigField
    <2>6. u.phase = s.phase
        BY <1>0, <2>4, <2>5 DEF Only, ConfigFields, ShapeFields
    <2>7. CASE r.action = "mem max"
        <3>1. u.mem_max = r.val
            <4>1. u = HandleConfig(s, "mem max", r.val)
                BY <2>1, <2>7
            <4> QED BY <4>1, LimitsConfigured
        <3> QED BY <1>6, <2>3, <2>6, <2>7, <3>1 DEF Follows, Configures
    <2>8. CASE r.action # "mem max"
        <3>1. u.mem_max = s.mem_max
            BY <1>0, <2>4, <2>5, <2>8 DEF Only, ConfigFields, ShapeFields
        <3> QED BY <1>6, <2>3, <2>6, <2>8, <3>1 DEF Follows, Configures
    <2> QED BY <2>7, <2>8
<1>7. CASE r.fn = "pi"
    <2>1. u = HandlePhase(s, r.action)
        BY <1>7, Zenon DEF Handle
    <2>2. r.action \in PhaseActions
        BY <1>7, Zenon DEF Line
    <2> HIDE DEF u
    <2>3. Only(s, u, RootFields) /\ Tallied(u)
        BY <2>1, <2>2, OnlyRoot, RootTallied
    <2>4. u.mem_max = s.mem_max
        BY <1>0, <2>3 DEF Only, RootFields
    <2>5. ~Configures(r)
        BY <1>7 DEF Configures
    <2> QED BY <1>7, <2>3, <2>4, <2>5 DEF Follows
<1> QED BY <1>1, <1>2, <1>3, <1>4, <1>5, <1>6, <1>7, Zenon DEF Line

LEMMA FeedTallied ==
    ASSUME NEW s, DOMAIN s = StateFields, Tallied(s), NEW r, Line(r), Covers(r),
           r.fn = "scheduler" => r.val \in Nat, NEW ts
    PROVE  /\ Tallied(FeedLine(s, r, ts))
           /\ Follows(s, FeedLine(s, r, ts), r)
<1> DEFINE v == IF r.fn \in Stamped THEN ThreadTick(s, ts) ELSE s
           F == {"thread_time", "booked_time", "thread_span", "thread_last_ts"}
<1>1. FeedLine(s, r, ts) = Handle(v, r, ts)
    BY DEF FeedLine
<1>2. Only(s, v, F)
    <2>1. Only(s, ThreadTick(s, ts), F)
        BY DEF ThreadTick, Only
    <2>2. Only(s, s, F)
        BY DEF Only
    <2> QED BY <2>1, <2>2
<1>3. TallyFields \cap F = {} /\ {"phase", "mem_max"} \cap F = {}
    BY DEF TallyFields
<1> HIDE DEF v, F
<1>4. DOMAIN v = StateFields /\ Tallied(v) /\ v.phase = s.phase /\ v.mem_max = s.mem_max
    <2>1. {"phase", "mem_max"} \subseteq DOMAIN s
        BY FieldsOfState
    <2> QED BY <1>2, <1>3, <2>1, TallyElsewhere DEF Only
<1>5. Tallied(Handle(v, r, ts)) /\ Follows(v, Handle(v, r, ts), r)
    BY <1>4, HandleTallied
<1> QED BY <1>1, <1>4, <1>5 DEF Follows

-----------------------------------------------------------------------------
(* The lines that are still to come.                                       *)

Ceils(r) == Configures(r) /\ r.action = "mem max"

\* What a line says that the bars go by is so.
Sound(r) == Covers(r) /\ (Ceils(r) => r.val = MemMax)

\* A line of the root's own steps.
OfRoot(r) == r.fn = "pi"

LEMMA SoundKinds ==
    /\ \A r : Books(r) \/ Remarks(r) \/ Notes(r) => Sound(r)
    /\ \A r : Drops(r) /\ r.fn # "node_process" => Sound(r)
    /\ \A n \in Node : Sound(StoredLine(n))
    /\ \A r \in Logged(ConfigLines) : Sound(r)
    /\ \A n, r : Mine(n, r) => Sound(r)
    /\ \A r : Books(r) \/ Drops(r) \/ Configures(r) \/ r.fn \in {"scheduler", "node_can_launch"}
            => ~OfRoot(r)
<1>1. ASSUME NEW r
      PROVE  /\ Books(r) \/ Remarks(r) \/ Notes(r) => Sound(r)
             /\ Drops(r) /\ r.fn # "node_process" => Sound(r)
    BY Zenon DEF Books, Starts, Donates, Remarks, Notes, Drops, Sound, Covers, Ceils, Configures
<1>2. ASSUME NEW n, NEW r, Mine(n, r) PROVE Sound(r)
    BY <1>2, Zenon DEF Mine, Sound, Covers, Ceils, Configures
<1>3. ASSUME NEW r
      PROVE  Books(r) \/ Drops(r) \/ Configures(r) \/ r.fn \in {"scheduler", "node_can_launch"}
                => ~OfRoot(r)
    BY Zenon DEF Books, Starts, Donates, Drops, Configures, OfRoot
<1>4. ASSUME NEW n \in Node PROVE Sound(StoredLine(n))
    <2>1. StoredLine(n).fn = "node_process" /\ StoredLine(n).key = KeyOf[n]
        BY DEF StoredLine, NodeLine
    <2>2. LeavesCovered(StoredLine(n).key) \in Nat \ {0}
        BY <2>1, PieceAssumption
    <2>3. ~Configures(StoredLine(n))
        BY <2>1, Zenon DEF Configures
    <2> QED BY <2>2, <2>3 DEF Sound, Covers, Ceils
<1>5. ASSUME NEW r \in Logged(ConfigLines) PROVE Sound(r)
    <2>1. PICK j \in DOMAIN Config :
            r = [fn |-> "pi_tree", action |-> Config[j][1], val |-> Config[j][2]]
        BY DEF Logged, ConfigLines
    <2>2. r.fn = "pi_tree" /\ r.action = Config[j][1] /\ r.val = Config[j][2]
        BY <2>1
    <2>3. r.action = "mem max" => r.val = MemMax
        BY <2>2, CeilingAssumption
    <2>4. Covers(r)
        BY <2>2, Zenon DEF Covers
    <2> QED BY <2>3, <2>4 DEF Sound, Ceils
<1> QED BY <1>1, <1>2, <1>3, <1>4, <1>5

\* A line the walk logs is of a node, and it was found stored.
LEMMA StoredSound ==
    ASSUME P!TypeOK, NEW lines \in StoredLines, NEW r \in Logged(lines)
    PROVE  Sound(r) /\ ~OfRoot(r)
<1> DEFINE found == {n \in Node : status[n] = "unmade" /\ status'[n] = "done"}
<1>1. PICK o \in SetToSeqs(found) : lines = [j \in DOMAIN o |-> StoredLine(o[j])]
    BY DEF StoredLines
<1>2. IsFiniteSet(found)
    <2>1. IsFiniteSet(Node)
        BY ProgramAssumption DEF S!NodeAssumption, S!IsFiniteSet, IsFiniteSet
    <2> QED BY <2>1, FS_Subset
<1>3. \A n \in found : n \in Node
    OBVIOUS
<1> HIDE DEF found
<1>4. o \in [1 .. Cardinality(found) -> found]
    BY <1>1, <1>2, FS_CardinalityType DEF SetToSeqs
<1>5. PICK j \in DOMAIN o : r = StoredLine(o[j])
    BY <1>1 DEF Logged
<1>6. PICK n : n = o[j]
    OBVIOUS
<1>7. n \in Node
    BY <1>3, <1>4, <1>5, <1>6
<1>8. Drops(StoredLine(n))
    BY KindsOfLines, Zenon
<1> QED BY <1>5, <1>6, <1>7, <1>8, SoundKinds

LEMMA FirstSound ==
    \A b : \A lines \in FirstLines(b) :
        /\ \A r \in Logged(lines) : Sound(r) /\ (OfRoot(r) => b)
        /\ Logged(ConfigLines) \subseteq Logged(lines)
<1> DEFINE one == <<StoredLine(S!Root)>>
           two == <<RootLine("pi already stored")>>
<1>1. Quiet(ConfigLines) /\ Quiet(ShowLines) /\ Quiet(FinishLines) /\ Quiet(one) /\ Quiet(two)
    BY ConfigLinesQuiet, RootLinesQuiet, SchedulerLinesQuiet, RootLineQuiet, Zenon
       DEF PhaseActions
<1>2. /\ \A r \in Logged(one) : Sound(r)
      /\ \A r \in Logged(two) : Sound(r)
    <2>1. Sound(StoredLine(S!Root))
        <3>1. S!Root \in Node
            BY ProgramAssumption DEF S!NodeAssumption
        <3> QED BY <3>1, SoundKinds
    <2>2. Sound(RootLine("pi already stored"))
        <3>1. Remarks(RootLine("pi already stored"))
            BY KindsOfLines, Zenon
        <3> QED BY <3>1, SoundKinds
    <2>3. \A x : Sound(x) => \A r \in Logged(<<x>>) : Sound(r)
        BY LoggedLines
    <2> QED BY <2>1, <2>2, <2>3, Zenon
<1>3. \A r : r \in Logged(ShowLines) \/ r \in Logged(FinishLines) => Sound(r)
    BY LinesOfRoot, SoundKinds
<1>4. ASSUME NEW b, NEW lines \in FirstLines(b)
      PROVE  \/ lines = ConfigLines
             \/ b /\ lines = (ConfigLines \o one) \o FinishLines
             \/ b /\ lines = (ConfigLines \o two) \o ShowLines
    BY Zenon DEF FirstLines
<1> HIDE DEF one, two
<1>5. Logged((ConfigLines \o one) \o FinishLines)
        = (Logged(ConfigLines) \cup Logged(one)) \cup Logged(FinishLines)
    <2>1. Quiet(ConfigLines \o one)
        BY <1>1, QuietLines, Zenon
    <2>2. Logged(ConfigLines \o one) = Logged(ConfigLines) \cup Logged(one)
        BY <1>1, LoggedLines, Zenon
    <2>3. Logged((ConfigLines \o one) \o FinishLines)
            = Logged(ConfigLines \o one) \cup Logged(FinishLines)
        BY <1>1, <2>1, LoggedLines, Zenon
    <2> QED BY <2>2, <2>3, Zenon
<1>6. Logged((ConfigLines \o two) \o ShowLines)
        = (Logged(ConfigLines) \cup Logged(two)) \cup Logged(ShowLines)
    <2>1. Quiet(ConfigLines \o two)
        BY <1>1, QuietLines, Zenon
    <2>2. Logged(ConfigLines \o two) = Logged(ConfigLines) \cup Logged(two)
        BY <1>1, LoggedLines, Zenon
    <2>3. Logged((ConfigLines \o two) \o ShowLines)
            = Logged(ConfigLines \o two) \cup Logged(ShowLines)
        BY <1>1, <2>1, LoggedLines, Zenon
    <2> QED BY <2>2, <2>3, Zenon
<1>7. \A r \in Logged(ConfigLines) : Sound(r) /\ ~OfRoot(r)
    BY SoundKinds, LinesOfConfig
<1>8. ASSUME NEW b, NEW lines \in FirstLines(b)
      PROVE  /\ \A r \in Logged(lines) : Sound(r) /\ (OfRoot(r) => b)
             /\ Logged(ConfigLines) \subseteq Logged(lines)
    BY <1>2, <1>3, <1>4, <1>5, <1>6, <1>7
<1> QED BY <1>8

\* Every line is sound, and the root's come once the scheduler is done.
LEMMA NewLines ==
    ASSUME EstInv, EstInv', [Next]_vars, NEW r \in Logged(out')
    PROVE  r \in Logged(out) \/ (Sound(r) /\ (OfRoot(r) => pc' = "done"))
<1>0. /\ P!TypeOK /\ LentInv /\ TrailInv' /\ P!GInv' /\ Quiet(out)
    <2>1. BookInv /\ BookInv'
        BY DEF EstInv
    <2>2. LentInv' /\ UtilInv'
        BY <2>1 DEF BookInv, UtilInv
    <2>3. TrailInv' /\ P!GInv'
        BY <2>2 DEF LentInv
    <2> QED BY <2>1, <2>3, BookFacts
<1> DEFINE Good(x) == Sound(x) /\ (OfRoot(x) => pc' = "done")
<1>g. /\ \A x : Books(x) => Good(x)
      /\ \A x : Drops(x) /\ x.fn # "node_process" => Good(x)
      /\ \A x : x.fn \in {"scheduler", "node_can_launch"} => Good(x)
    BY SoundKinds DEF Notes
<1>s. \A lines \in StoredLines : \A x \in Logged(lines) : Good(x)
    BY <1>0, StoredSound
<1> SUFFICES r \in Logged(out) \/ Good(r)
    OBVIOUS
<1>1. CASE SchedulerLogs
    <2>1. Logged(out) = {Head(out)} \cup Logged(Tail(out)) /\ out' = Tail(out)
        BY <1>0, <1>1, LoggedLines DEF SchedulerLogs
    <2> QED BY <2>1
<1>2. CASE Launch
    <2>1. PICK i \in S!Slots, n \in Node, lines \in StoredLines : Launches(i, n, lines)
        BY <1>0, <1>2, LaunchFacts
    <2> DEFINE line == TaskLine("task_start", n, plan'[n])
    <2>2. Starts(line) /\ Logged(out') = Logged(lines) \cup {line}
        BY <2>1 DEF Launches
    <2> HIDE DEF line, Good
    <2> QED BY <1>g, <1>s, <2>2 DEF Books
<1>3. CASE EndLaunch
    <2>1. PICK lines \in StoredLines : out' = lines \o HaltLines
        BY <1>3 DEF EndLaunch
    <2>2. Logged(out') = Logged(lines) \cup Logged(HaltLines)
        <3>1. Quiet(lines) /\ Quiet(HaltLines)
            BY <1>0, StoredLinesQuiet, HaltLinesQuiet
        <3> QED BY <2>1, <3>1, LoggedLines, Zenon
    <2>3. \A x \in Logged(HaltLines) : x.fn = "node_can_launch"
        <3>1. HaltLines = << >> \/ \E reason : HaltLines = <<HaltLine(reason)>>
            BY DEF HaltLines
        <3>2. \A reason : Logged(<<HaltLine(reason)>>) = {HaltLine(reason)}
                          /\ HaltLine(reason).fn = "node_can_launch"
            BY LoggedLines DEF HaltLine
        <3>3. Logged(<< >>) = {}
            BY LoggedLines
        <3> QED BY <3>1, <3>2, <3>3
    <2> HIDE DEF Good
    <2> QED BY <1>g, <1>s, <2>2, <2>3
<1>4. CASE Donate
    <2>1. CASE UNCHANGED out
        BY <2>1
    <2>2. CASE \E n, p : out' = <<TaskLine("task_donate", n, p)>>
        <3>1. PICK n, p : out' = <<TaskLine("task_donate", n, p)>>
            BY <2>2
        <3>2. Donates(TaskLine("task_donate", n, p))
            BY KindsOfLines, Zenon
        <3>3. Logged(out') = {TaskLine("task_donate", n, p)}
            BY <3>1, LoggedLines, Zenon
        <3> HIDE DEF Good
        <3> QED BY <1>g, <3>2, <3>3 DEF Books
    <2>3. CASE \E u, v, w : out' = <<SchedulerLine("active processes", u),
                                     SchedulerLine("active threads", v),
                                     SchedulerLine("active memory", w)>>
        <3>1. PICK u, v, w : out' = <<SchedulerLine("active processes", u),
                                      SchedulerLine("active threads", v),
                                      SchedulerLine("active memory", w)>>
            BY <2>3
        <3>2. \A a, x : SchedulerLine(a, x).fn = "scheduler"
            BY DEF SchedulerLine
        <3>3. \A x, y, z : Logged(<<x, y, z>>) = {x, y, z}
            BY LoggedLines
        <3>4. r \in {SchedulerLine("active processes", u), SchedulerLine("active threads", v),
                     SchedulerLine("active memory", w)}
            BY <3>1, <3>3, Zenon
        <3>5. r.fn = "scheduler"
            BY <3>2, <3>4, Zenon
        <3> HIDE DEF Good
        <3> QED BY <1>g, <3>5
    <2> QED BY <1>4, <2>1, <2>2, <2>3, Zenon DEF Donate
<1>5. ASSUME NEW i \in S!Slots, Reap(i) PROVE r \in Logged(out) \/ Good(r)
    <2> DEFINE ended == [fn |-> "task_end", pid |-> tasks[i]]
               checked == [fn |-> "task_check_exit", pid |-> tasks[i]]
    <2>1. Good(ended) /\ Good(checked)
        <3>1. Drops(ended) /\ Drops(checked)
            BY KindsOfLines, Zenon
        <3>2. ended.fn # "node_process" /\ checked.fn # "node_process"
            OBVIOUS
        <3> HIDE DEF ended, checked, Good
        <3> QED BY <1>g, <3>1, <3>2
    <2>2. CASE S!TaskEnd(i) /\ out' = <<ended>> \o
                                        (IF tasks[i] = S!Root THEN FinishLines ELSE << >>)
        <3> DEFINE one == <<ended>>
                   rest == IF tasks[i] = S!Root THEN FinishLines ELSE << >>
        <3>1. Logged(out') = Logged(one) \cup Logged(rest)
            <4>1. Quiet(one) /\ Quiet(rest)
                BY SchedulerLinesQuiet, RootLinesQuiet, QuietLines, Zenon
            <4> QED BY <2>2, <4>1, LoggedLines, Zenon
        <3>2. Logged(one) = {ended}
            BY LoggedLines, Zenon
        <3>3. \A x \in Logged(rest) : Good(x)
            <4>1. CASE tasks[i] = S!Root
                <5>1. pc' = "done"
                    BY <2>2, <4>1 DEF S!TaskEnd
                <5>2. \A x \in Logged(FinishLines) : Sound(x)
                    BY LinesOfRoot, SoundKinds
                <5> QED BY <4>1, <5>1, <5>2
            <4>2. CASE tasks[i] # S!Root
                BY <4>2, LoggedLines
            <4> QED BY <4>1, <4>2
        <3> HIDE DEF ended, one, rest, Good
        <3> QED BY <2>1, <3>1, <3>2, <3>3
    <2>3. CASE S!TaskCheckExit(i) /\ out' = <<checked>>
        <3>1. Logged(out') = {checked}
            BY <2>3, LoggedLines, Zenon
        <3> HIDE DEF checked, Good
        <3> QED BY <2>1, <3>1
    <2> QED BY <1>5, <2>2, <2>3 DEF Reap
<1>6. CASE Dies
    BY <1>6, LoggedLines DEF Dies
<1>7. CASE Restart
    <2> DEFINE kept == S!Root \in stored
    <2>0. out' \in FirstLines(kept) /\ (kept => pc' = "done")
        BY <1>7 DEF Restart, S!Restart
    <2> HIDE DEF kept
    <2>1. PICK b : out' \in FirstLines(b) /\ (b => pc' = "done")
        BY <2>0
    <2>2. Sound(r) /\ (OfRoot(r) => b)
        BY <2>1, FirstSound
    <2> QED BY <2>1, <2>2
<1>8. CASE out' = out
    BY <1>8
<1>9. \/ SchedulerLogs \/ Launch \/ EndLaunch \/ Donate \/ Dies \/ Restart \/ out' = out
      \/ \E i \in S!Slots : Reap(i)
    BY Zenon DEF Next, WorkerSteps, Tick, AllShown, vars
<1> HIDE DEF Good
<1> QED BY <1>1, <1>2, <1>3, <1>4, <1>5, <1>6, <1>7, <1>8, <1>9

\* A step leaves the screen as it is, clears it, or has it read a line: the scheduler's
\* next or a worker's own, each sound.
LEMMA ScreenStep ==
    ASSUME EstInv, \A r \in Logged(out) : Sound(r), [Next]_vars
    PROVE  \/ st' = st
           \/ Restart
           \/ /\ SchedulerLogs
              /\ \E ts \in 0 .. clock : st' = FeedLine(st, Head(out), ts)
           \/ \E i \in S!Slots : /\ WorkerSteps(i) /\ i \in Computing /\ Now(i).r # Silent
                                 /\ \E ts \in 0 .. clock : st' = FeedLine(st, Record(i), ts)
<1>0. UtilInv /\ clock \in Nat
    BY BookFacts DEF EstInv, UtilInv
<1>1. SchedulerLogs => \/ st' = st
                       \/ \E ts \in 0 .. clock : st' = FeedLine(st, Head(out), ts)
    BY <1>0 DEF SchedulerLogs, Feed
<1>2. ASSUME NEW i \in S!Slots, WorkerSteps(i)
      PROVE  \/ st' = st
             \/ /\ i \in Computing /\ Now(i).r # Silent
                /\ \E ts \in 0 .. clock : st' = FeedLine(st, Record(i), ts)
    <2>1. \/ st' = st
          \/ Now(i).r # Silent /\ \E ts \in 0 .. clock : st' = FeedLine(st, Record(i), ts)
        BY <1>0, <1>2 DEF WorkerSteps, Feed
    <2>2. i \in Computing
        BY <1>2 DEF Computing, WorkerSteps, Alive
    <2> QED BY <2>1, <2>2
<1>3. st' = st \/ SchedulerLogs \/ Restart \/ \E i \in S!Slots : WorkerSteps(i)
    BY Zenon DEF Next, Launch, EndLaunch, Donate, Reap, Dies, Tick, AllShown, vars
<1> QED BY <1>1, <1>2, <1>3

-----------------------------------------------------------------------------
(* What the bars are drawn from, as the run goes on.                       *)

\* The ceiling has been read, or is to be.
Ceiled == st.mem_max = MemMax \/ \E r \in Logged(out) : Ceils(r)

\* The root is shown at work once the scheduler is done.
RootLast == (InRoot(st) \/ \E r \in Logged(out) : OfRoot(r)) => pc = "done"

TallyInv ==
    /\ EstInv
    /\ Tallied(st)
    /\ \A r \in Logged(out) : Sound(r)
    /\ st.threads_reported <= NProcess
    /\ RootLast
    /\ Whole /\ pc # "down" => Ceiled

LEMMA FreshTallied ==
    \A config : LET s == FreshState(config)
                IN  Tallied(s) /\ s.threads_reported <= NProcess /\ ~InRoot(s)
<1> TAKE config
<1> DEFINE s == FreshState(config)
<1>1. /\ s.total_pieces = 0 /\ s.index_max = 0 /\ s.pieces_done = 0 /\ s.joins_done = 0
      /\ s.lock_requests = 0 /\ s.lock_misses = 0 /\ s.mem_booked = 0
      /\ s.threads_reported = 0 /\ s.mem_launch = 0 /\ s.mem_max = 0 /\ s.phase = "splitting"
    BY DEF FreshState
<1>2. NProcess \in Nat
    BY ProgramAssumption DEF S!BudgetAssumption
<1> HIDE DEF s
<1>3. Tallied(s)
    BY <1>1 DEF Tallied, TallyFields
<1>4. ~InRoot(s)
    BY <1>1 DEF InRoot
<1> QED BY <1>1, <1>2, <1>3, <1>4 DEF s

LEMMA DoneEnds ==
    ASSUME [Next]_vars, pc = "done"
    PROVE  pc' = "done"
<1>1. pc' = pc \/ S!Launch \/ S!EndLaunch \/ S!DonateLoad \/ S!DonateRefused
      \/ S!DonateAccepted \/ S!DonateEnd \/ S!Crash \/ S!Restart
      \/ \E i \in S!Slots : \/ S!TaskEnd(i) \/ S!TaskCheckExit(i) \/ S!WorkerDies(i)
                            \/ S!CloseSlot(i) \/ S!Commit(i) \/ S!DeleteLeft(i) \/ S!Exit(i)
    BY Zenon DEF Next, SchedulerLogs, Launch, EndLaunch, Donate, WorkerSteps, Reap, Dies, Restart,
           Tick, AllShown, vars, program
<1>2. \A i \in S!Slots : S!WorkerDies(i) \/ S!CloseSlot(i) \/ S!Commit(i) \/ S!DeleteLeft(i)
                         \/ S!Exit(i) => pc' = pc
    BY DEF S!WorkerDies, S!CloseSlot, S!Commit, S!DeleteLeft, S!Exit, S!sched
<1>3. /\ ~S!Launch /\ ~S!EndLaunch /\ ~S!DonateLoad /\ ~S!DonateRefused
      /\ ~S!DonateAccepted /\ ~S!DonateEnd /\ ~S!Crash /\ ~S!Restart
      /\ \A i \in S!Slots : ~S!TaskEnd(i) /\ ~S!TaskCheckExit(i)
    BY DEF S!Launch, S!EndLaunch, S!DonateLoad, S!DonateRefused, S!DonateAccepted,
           S!DonateEnd, S!Crash, S!Restart, S!TaskEnd, S!TaskCheckExit
<1> QED BY <1>1, <1>2, <1>3

\* What the line that is read next does, the scheduler's or a worker's.
LEMMA LineTallied ==
    ASSUME TallyInv, NEW r, Line(r), Sound(r), r.fn = "scheduler" => r.val \in Nat,
           Reports(r, "active threads") => r.val = total_threads,
           NEW ts, st' = FeedLine(st, r, ts)
    PROVE  /\ Tallied(st') /\ st'.threads_reported <= NProcess
           /\ InRoot(st') => InRoot(st) \/ OfRoot(r)
           /\ IF Ceils(r) THEN st'.mem_max = MemMax ELSE st'.mem_max = st.mem_max
<1>1. DOMAIN st = StateFields /\ Tallied(st) /\ Covers(r)
    BY BookFacts DEF TallyInv, EstInv, Sound
<1>2. Tallied(st') /\ Follows(st, st', r)
    BY <1>1, FeedTallied
<1>3. TotalsFollow(st, st', r)
    BY <1>1, FeedTotals
<1>4. total_threads <= NProcess
    <2>1. P!IInv
        BY BookFacts DEF TallyInv, EstInv
    <2> QED BY <2>1 DEF P!IInv, P!ThreadBudget
<1>5. st'.threads_reported <= NProcess
    BY <1>3, <1>4 DEF TotalsFollow, TotalIs, TallyInv
<1> QED BY <1>2, <1>5 DEF Follows, InRoot, OfRoot, Ceils, Sound

\* What is known of the line that is read next.
LEMMA HeadTallied ==
    ASSUME TallyInv, SchedulerLogs
    PROVE  LET r == Head(out)
           IN  /\ Line(r) /\ Sound(r) /\ (r.fn = "scheduler" => r.val \in Nat)
               /\ Reports(r, "active threads") => r.val = total_threads
               /\ r \in Logged(out) /\ Logged(out) = {r} \cup Logged(out')
               /\ pc' = pc
<1>1. BookInv
    BY DEF TallyInv, EstInv
<1>2. /\ Line(Head(out)) /\ Reckoned(Head(out)) /\ Logged(out) = {Head(out)} \cup Logged(out')
      /\ UNCHANGED program
    BY <1>1, HeadSent
<1>3. Tells(Head(out))
    BY <1>1, <1>2, BookFacts DEF UtilInv
<1> QED BY <1>2, <1>3 DEF TallyInv, Reckoned, Tells, Figured, program

LEMMA WorkerTallied ==
    ASSUME TallyInv, NEW i \in Computing, Now(i).r # Silent
    PROVE  LET r == Record(i)
           IN  /\ Line(r) /\ Sound(r) /\ ~OfRoot(r) /\ ~Ceils(r)
               /\ r.fn # "scheduler" /\ ~Reports(r, "active threads")
<1> DEFINE r == Record(i)
<1>1. Mine(tasks[i], r) /\ Line(r) /\ ~Reports(r, "active threads")
    BY RecordSent DEF TallyInv, EstInv
<1> HIDE DEF r
<1>2. Sound(r)
    BY <1>1, SoundKinds
<1>3. r.fn # "scheduler" /\ ~OfRoot(r) /\ ~Ceils(r)
    BY <1>1, Zenon DEF Mine, OfRoot, Ceils, Configures
<1> QED BY <1>1, <1>2, <1>3 DEF r

LEMMA NextCounts ==
    ASSUME TallyInv, [Next]_vars
    PROVE  /\ Tallied(st') /\ st'.threads_reported <= NProcess
           /\ InRoot(st') => pc' = "done"
<1>0. /\ EstInv /\ Tallied(st) /\ st.threads_reported <= NProcess /\ RootLast
      /\ \A r \in Logged(out) : Sound(r)
    BY DEF TallyInv
<1>1. CASE st' = st
    BY <1>0, <1>1, DoneEnds DEF RootLast
<1>2. CASE Restart
    BY <1>2, FreshTallied DEF Restart
<1>3. ASSUME SchedulerLogs, NEW ts \in 0 .. clock, st' = FeedLine(st, Head(out), ts)
      PROVE  /\ Tallied(st') /\ st'.threads_reported <= NProcess
             /\ InRoot(st') => pc' = "done"
    <2> DEFINE r == Head(out)
    <2>1. /\ Line(r) /\ Sound(r) /\ (r.fn = "scheduler" => r.val \in Nat)
          /\ Reports(r, "active threads") => r.val = total_threads
          /\ r \in Logged(out)
        BY <1>3, HeadTallied
    <2>2. st' = FeedLine(st, r, ts)
        BY <1>3
    <2> HIDE DEF r
    <2>3. /\ Tallied(st') /\ st'.threads_reported <= NProcess
          /\ InRoot(st') => InRoot(st) \/ OfRoot(r)
        BY <2>1, <2>2, LineTallied
    <2> QED BY <1>0, <2>1, <2>3, DoneEnds DEF RootLast
<1>4. ASSUME NEW i \in S!Slots, i \in Computing, Now(i).r # Silent, NEW ts \in 0 .. clock,
             st' = FeedLine(st, Record(i), ts)
      PROVE  /\ Tallied(st') /\ st'.threads_reported <= NProcess
             /\ InRoot(st') => pc' = "done"
    <2> DEFINE r == Record(i)
    <2>1. /\ Line(r) /\ Sound(r) /\ ~OfRoot(r) /\ r.fn # "scheduler"
          /\ ~Reports(r, "active threads")
        BY <1>4, WorkerTallied
    <2>2. st' = FeedLine(st, r, ts)
        BY <1>4
    <2> HIDE DEF r
    <2>3. /\ Tallied(st') /\ st'.threads_reported <= NProcess
          /\ InRoot(st') => InRoot(st) \/ OfRoot(r)
        BY <2>1, <2>2, LineTallied
    <2> QED BY <1>0, <2>1, <2>3, DoneEnds DEF RootLast
<1> QED BY <1>0, <1>1, <1>2, <1>3, <1>4, ScreenStep

\* A line of the configuration is lost only with the machine, or when the run is no
\* longer whole.
LEMMA NextCeiled ==
    ASSUME TallyInv, EstInv', [Next]_vars, Whole', pc' # "down"
    PROVE  Ceiled'
<1>0. /\ EstInv /\ Quiet(out) /\ \A r \in Logged(out) : Sound(r)
      /\ Whole /\ pc # "down" => Ceiled
    BY BookFacts DEF TallyInv, EstInv
<1>1. CASE Restart
    <2>1. PICK b : out' \in FirstLines(b)
        BY <1>1 DEF Restart
    <2>2. Logged(ConfigLines) \subseteq Logged(out')
        BY <2>1, FirstSound
    <2>3. PICK j \in DOMAIN Config : Config[j][1] = "mem max"
        BY CeilingAssumption
    <2>4. ConfigLines[j] \in Logged(ConfigLines) /\ ConfigLines[j].action = "mem max"
        BY <2>3 DEF ConfigLines, Logged
    <2>5. Configures(ConfigLines[j])
        BY <2>4, LinesOfConfig
    <2>6. \E r \in Logged(out') : Ceils(r)
        BY <2>2, <2>4, <2>5 DEF Ceils
    <2> QED BY <2>6 DEF Ceiled, Logged, Ceils, Configures
<1>2. CASE ~Restart
    <2>1. Whole /\ pc # "down"
        <3>1. Whole
            <4>1. lost' = lost \/ lost' = [run |-> lost.run + 1, all |-> lost.all + 1]
                BY <1>2, Zenon DEF Next, SchedulerLogs, Launch, EndLaunch, Donate, WorkerSteps, Reap,
                   Dies, Tick, AllShown, vars, Feed
            <4>2. lost.run \in Nat
                BY <1>0, BookFacts DEF EstInv, LentInv
            <4>3. lost'.run = 0
                BY DEF Whole
            <4> QED BY <4>1, <4>2, <4>3 DEF Whole
        <3>2. pc # "down"
            <4>1. pc' = pc \/ S!Launch \/ S!EndLaunch \/ S!DonateLoad \/ S!DonateRefused
                  \/ S!DonateAccepted \/ S!DonateEnd \/ S!Crash
                  \/ \E i \in S!Slots : \/ S!TaskEnd(i) \/ S!TaskCheckExit(i) \/ S!WorkerDies(i)
                                        \/ S!CloseSlot(i) \/ S!Commit(i) \/ S!DeleteLeft(i)
                                        \/ S!Exit(i)
                BY <1>2, Zenon DEF Next, SchedulerLogs, Launch, EndLaunch, Donate, WorkerSteps, Reap,
                       Dies, Tick, AllShown, vars, program
            <4>2. \A i \in S!Slots : S!WorkerDies(i) \/ S!CloseSlot(i) \/ S!Commit(i)
                                     \/ S!DeleteLeft(i) \/ S!Exit(i) => pc' = pc
                BY DEF S!WorkerDies, S!CloseSlot, S!Commit, S!DeleteLeft, S!Exit, S!sched
            <4>3. S!Crash => pc' = "down"
                BY DEF S!Crash
            <4>4. S!Launch \/ S!EndLaunch \/ S!DonateLoad \/ S!DonateRefused
                  \/ S!DonateAccepted \/ S!DonateEnd
                  \/ (\E i \in S!Slots : S!TaskEnd(i) \/ S!TaskCheckExit(i)) => pc # "down"
                BY DEF S!Launch, S!EndLaunch, S!DonateLoad, S!DonateRefused,
                   S!DonateAccepted, S!DonateEnd, S!TaskEnd, S!TaskCheckExit
            <4> QED BY <4>1, <4>2, <4>3, <4>4
        <3> QED BY <3>1, <3>2
    <2>2. Ceiled
        BY <1>0, <2>1
    <2>3. ASSUME NEW r \in Logged(out), r \in Logged(out'), Ceils(r) PROVE Ceiled'
        BY <2>3 DEF Ceiled, Logged, Ceils, Configures
    <2>4. CASE SchedulerLogs
        <3> DEFINE r == Head(out)
        <3>1. /\ Line(r) /\ Sound(r) /\ (r.fn = "scheduler" => r.val \in Nat)
              /\ Reports(r, "active threads") => r.val = total_threads
              /\ Logged(out) = {r} \cup Logged(out')
            BY <2>4, HeadTallied
        <3>2. PICK ts : st' = FeedLine(st, r, ts)
            <4>1. \/ \E ts \in 0 .. clock : st' = FeedLine(st, r, ts)
                  \/ lost' = [run |-> lost.run + 1, all |-> lost.all + 1]
                  \/ \E ts \in {0} : st' = FeedLine(st, r, ts)
                BY <2>4 DEF SchedulerLogs, Feed
            <4>2. lost.run \in Nat /\ lost'.run = 0
                BY <1>0, BookFacts DEF EstInv, LentInv, Whole
            <4> QED BY <4>1, <4>2
        <3> HIDE DEF r
        <3>3. IF Ceils(r) THEN st'.mem_max = MemMax ELSE st'.mem_max = st.mem_max
            BY <3>1, <3>2, LineTallied
        <3>4. CASE st.mem_max = MemMax \/ Ceils(r)
            BY <3>3, <3>4 DEF Ceiled
        <3>5. CASE (\E x \in Logged(out) : Ceils(x)) /\ ~Ceils(r)
            BY <2>3, <3>1, <3>5
        <3> QED BY <2>2, <3>4, <3>5 DEF Ceiled
    <2>5. CASE ~SchedulerLogs
        <3>1. st'.mem_max = st.mem_max
            <4>1. CASE st' = st
                BY <4>1
            <4>2. ASSUME NEW i \in S!Slots, i \in Computing, Now(i).r # Silent,
                         NEW ts \in 0 .. clock, st' = FeedLine(st, Record(i), ts)
                  PROVE  st'.mem_max = st.mem_max
                <5> DEFINE r == Record(i)
                <5>1. /\ Line(r) /\ Sound(r) /\ r.fn # "scheduler" /\ ~Ceils(r)
                      /\ ~Reports(r, "active threads")
                    BY <4>2, WorkerTallied
                <5>2. st' = FeedLine(st, r, ts)
                    BY <4>2
                <5> HIDE DEF r
                <5> QED BY <5>1, <5>2, LineTallied
            <4> QED BY <1>0, <1>2, <2>5, <4>1, <4>2, ScreenStep
        <3>2. CASE st.mem_max = MemMax
            BY <3>1, <3>2 DEF Ceiled
        <3>3. CASE \E r \in Logged(out) : Ceils(r)
            <4>1. out # << >>
                BY <3>3, LoggedLines
            <4>2. out' = out \/ Dies
                BY <1>2, <2>5, <4>1, Zenon DEF Next, Launch, EndLaunch, Donate, WorkerSteps, Reap,
                   Dies, Tick, AllShown, vars
            <4>3. out' = out
                <5>1. Dies => out' = out \/ pc' = "down"
                    BY DEF Dies, S!Crash
                <5> QED BY <4>2, <5>1
            <4> QED BY <2>3, <3>3, <4>3
        <3> QED BY <2>2, <3>2, <3>3 DEF Ceiled
    <2> QED BY <2>4, <2>5
<1> QED BY <1>1, <1>2

LEMMA NextTally == TallyInv /\ [Next]_vars => TallyInv'
<1> SUFFICES ASSUME TallyInv, [Next]_vars PROVE TallyInv'
    OBVIOUS
<1>1. EstInv'
    BY NextEst DEF TallyInv
<1>2. Tallied(st)' /\ (st.threads_reported <= NProcess)' /\ (InRoot(st') => pc' = "done")
    BY NextCounts DEF Tallied
<1>3. ASSUME NEW r \in Logged(out')
      PROVE  Sound(r) /\ (OfRoot(r) => pc' = "done")
    <2>1. r \in Logged(out) \/ (Sound(r) /\ (OfRoot(r) => pc' = "done"))
        BY <1>1, <1>3, NewLines DEF TallyInv
    <2>2. r \in Logged(out) => Sound(r) /\ (OfRoot(r) => pc = "done")
        BY DEF TallyInv, RootLast
    <2> QED BY <2>1, <2>2, DoneEnds
<1>4. (\A r \in Logged(out) : Sound(r))'
    BY <1>3 DEF Logged, Sound, Covers, Ceils, Configures
<1>5. RootLast'
    BY <1>2, <1>3 DEF RootLast, InRoot, Logged, OfRoot
<1>6. Whole' /\ pc' # "down" => Ceiled'
    BY <1>1, NextCeiled
<1> QED BY <1>1, <1>2, <1>4, <1>5, <1>6 DEF TallyInv

LEMMA InitTally == Init => TallyInv
<1> SUFFICES ASSUME Init PROVE TallyInv
    OBVIOUS
<1>1. EstInv
    BY InitEst
<1>2. Tallied(st) /\ st.threads_reported <= NProcess /\ ~InRoot(st)
    BY FreshTallied DEF Init
<1> DEFINE kept == S!Root \in stored
<1>3. out \in FirstLines(kept) /\ (kept => pc = "done")
    BY DEF Init, S!Init
<1> HIDE DEF kept
<1>4. /\ \A r \in Logged(out) : Sound(r) /\ (OfRoot(r) => kept)
      /\ Logged(ConfigLines) \subseteq Logged(out)
    BY <1>3, FirstSound
<1>5. RootLast
    BY <1>2, <1>3, <1>4 DEF RootLast
<1>6. Ceiled
    <2>1. PICK j \in DOMAIN Config : Config[j][1] = "mem max"
        BY CeilingAssumption
    <2>2. ConfigLines[j] \in Logged(ConfigLines) /\ ConfigLines[j].action = "mem max"
        BY <2>1 DEF ConfigLines, Logged
    <2>3. Configures(ConfigLines[j])
        BY <2>2, LinesOfConfig
    <2> QED BY <1>4, <2>2, <2>3 DEF Ceiled, Ceils
<1> QED BY <1>1, <1>2, <1>4, <1>5, <1>6 DEF TallyInv

-----------------------------------------------------------------------------
(* The threads that are shown as booked fit the machine, in a run none of  *)
(* whose lines was lost: each entry has a slot that they were booked in.   *)

\* The threads that p is shown with, or will be by the next line about it.
Due == [p \in Node |-> IF BookPending(p) THEN plan[p].threads ELSE EntryOf(st, p).threads]

\* What is due is held by slots, one for each, that come to no more than there are
\* threads: those of the scheduler, or those it had when it stopped.
Housed(due) ==
    \E m \in [P!Slots -> Nat], t \in Nat, w \in [Node -> P!Slots] :
        /\ P!Ledger(m, t) /\ t <= NProcess
        /\ \A p \in Node : due[p] # 0 => due[p] <= m[w[p]]
        /\ \A p, q \in Node : due[p] # 0 /\ due[q] # 0 /\ w[p] = w[q] => p = q

BarInv == TallyInv /\ (Whole => Housed(Due))

LEMMA HousedLess ==
    ASSUME NEW a \in [Node -> Nat], NEW b \in [Node -> Nat], Housed(a),
           \A p \in Node : b[p] <= a[p]
    PROVE  Housed(b)
<1>1. PICK m \in [P!Slots -> Nat], t \in Nat, w \in [Node -> P!Slots] :
        /\ P!Ledger(m, t) /\ t <= NProcess
        /\ \A p \in Node : a[p] # 0 => a[p] <= m[w[p]]
        /\ \A p, q \in Node : a[p] # 0 /\ a[q] # 0 /\ w[p] = w[q] => p = q
    BY DEF Housed
<1>2. \A p \in Node : b[p] # 0 => a[p] # 0 /\ b[p] <= m[w[p]]
    <2> SUFFICES ASSUME NEW p \in Node, b[p] # 0 PROVE a[p] # 0 /\ b[p] <= m[w[p]]
        OBVIOUS
    <2>1. a[p] \in Nat /\ b[p] \in Nat /\ b[p] <= a[p] /\ m[w[p]] \in Nat
        BY <1>1
    <2> QED BY <1>1, <2>1
<1> QED BY <1>1, <1>2 DEF Housed

LEMMA HousedNone ==
    ASSUME NEW a \in [Node -> Nat], \A p \in Node : a[p] = 0
    PROVE  Housed(a)
<1>0. NProcess \in Nat \ {0}
    BY ProgramAssumption DEF S!BudgetAssumption
<1> DEFINE m == [i \in P!Slots |-> 0]
           w == [p \in Node |-> 0]
<1>1. P!Ledger(m, 0)
    BY P!LedgerEmpty, ProgramAssumption
       DEF S!Root, P!Root, S!IsFiniteSet, P!IsFiniteSet, S!NodeAssumption,
           S!BinaryAssumption, S!BudgetAssumption, S!CostAssumption, S!CacheAssumption
<1>2. m \in [P!Slots -> Nat] /\ w \in [Node -> P!Slots]
    BY <1>0 DEF P!Slots
<1> HIDE DEF m, w
<1> QED BY <1>0, <1>1, <1>2 DEF Housed

LEMMA DueFacts ==
    ASSUME BookInv
    PROVE  /\ Due \in [Node -> Nat]
           /\ \A p \in Node : EntryOf(st, p).threads \in Nat /\ EntryOf(st, p).threads <= Due[p]
<1>0. /\ LendingOK(st) /\ plan \in [Node -> Plans] /\ UtilInv /\ P!IInv
    BY BookFacts
<1>1. ASSUME NEW p \in Node PROVE EntryOf(st, p).threads \in Nat
    <2>1. CASE p \in DOMAIN st.active
        BY <1>0, <2>1 DEF LendingOK, Lent, EntryOf, Known
    <2>2. CASE p \notin DOMAIN st.active
        BY <2>2 DEF EntryOf, Known, NewEntry
    <2> QED BY <2>1, <2>2
<1>2. ASSUME NEW p \in Node, BookPending(p)
      PROVE  plan[p].threads \in Nat /\ EntryOf(st, p).threads <= plan[p].threads
    <2>1. PICK r \in Logged(out) : Books(r) /\ r.pid = p
        BY <1>2 DEF BookPending
    <2>2. r.thr = plan[p].threads
        BY <2>1 DEF BookInv, Reckoned
    <2>3. PICK i \in S!Active : p = tasks[i] /\ r.thr = slot[i].threads
        BY <1>0, <2>1 DEF UtilInv, Tells
    <2>4. slot[i].threads \in Nat
        BY <1>0, ActiveFacts
    <2> QED BY <1>0, <2>2, <2>3, <2>4 DEF UtilInv, Granted, EntryOf, Known, NewEntry
<1>3. \A p \in Node : Due[p] = IF BookPending(p) THEN plan[p].threads
                                                 ELSE EntryOf(st, p).threads
    BY DEF Due
<1>4. \A p \in Node : Due[p] \in Nat /\ EntryOf(st, p).threads <= Due[p]
    BY <1>1, <1>2, <1>3
<1>5. Due \in [Node -> Nat]
    <2>1. Due = [p \in Node |-> Due[p]]
        BY DEF Due
    <2> HIDE DEF Due
    <2> QED BY <1>4, <2>1
<1> QED BY <1>1, <1>4, <1>5

LEMMA DueType == BookInv' => Due' \in [Node -> Nat]
<1> SUFFICES ASSUME BookInv' PROVE Due' \in [Node -> Nat]
    OBVIOUS
<1>0. LendingOK(st') /\ plan' \in [Node -> Plans]
    <2>1. UtilInv' /\ P!TypeOK'
        BY DEF BookInv, UtilInv, LentInv, TrailInv, P!IInv
    <2>2. plan' \in [Node -> [threads : 0 .. NProcess, mem_cost : Nat]]
        BY <2>1 DEF P!TypeOK
    <2>3. 0 .. NProcess \subseteq Nat
        BY ProgramAssumption DEF S!BudgetAssumption
    <2>4. LendingOK(st')
        BY <2>1 DEF UtilInv, Metered
    <2> QED BY <2>2, <2>3, <2>4 DEF Plans
<1>1. ASSUME NEW p \in Node PROVE EntryOf(st', p).threads \in Nat
    <2>1. CASE p \in DOMAIN st'.active
        BY <1>0, <2>1 DEF LendingOK, Lent, EntryOf, Known
    <2>2. CASE p \notin DOMAIN st'.active
        BY <2>2 DEF EntryOf, Known, NewEntry
    <2> QED BY <2>1, <2>2
<1>2. \A p \in Node : plan'[p].threads \in Nat
    BY <1>0 DEF Plans
<1>3. Due' = [p \in Node |-> IF BookPending(p)' THEN plan'[p].threads
                                                ELSE EntryOf(st', p).threads]
    BY DEF Due, EntryOf, Known
<1> QED BY <1>1, <1>2, <1>3

\* Once every entry that is shown is a task's, each has its task's slot.
LEMMA HousedNow ==
    ASSUME BookInv', Whole', pc' # "down",
           \A p \in DOMAIN st'.active : \E i \in (S!Active)' : p = tasks'[i]
    PROVE  Housed(Due')
<1>0. UtilInv' /\ P!IInv' /\ P!GInv' /\ P!TypeOK' /\ Booking(st)'
    BY DEF BookInv, UtilInv, LentInv, TrailInv, P!IInv, Whole
<1> DEFINE A == (S!Active)'
           m == P!ThreadsOf'
           w == [p \in Node |-> IF \E i \in A : tasks'[i] = p
                                THEN CHOOSE i \in A : tasks'[i] = p ELSE 0]
<1>1. /\ P!Slots = S!Slots /\ NProcess \in Nat \ {0} /\ NoNode \notin Node
      /\ plan' \in [Node -> [threads : 0 .. NProcess, mem_cost : Nat]]
      /\ tasks' \in [S!Slots -> Node \cup {NoNode}] /\ total_threads' \in Nat
    BY <1>0, SameTree, ProgramAssumption DEF P!TypeOK, S!BudgetAssumption, S!NodeAssumption
<1>2. \A i \in A : i \in S!Slots /\ tasks'[i] \in Node /\ plan'[tasks'[i]].threads \in Nat
    BY <1>0, NewBooks
<1>3. /\ m \in [P!Slots -> Nat]
      /\ \A i \in A : m[i] = plan'[tasks'[i]].threads
    <2>1. \A i \in P!Slots :
            (IF tasks'[i] = NoNode THEN 0 ELSE plan'[tasks'[i]].threads) \in Nat
        BY <1>1
    <2>2. m = [i \in P!Slots |-> IF tasks'[i] = NoNode THEN 0 ELSE plan'[tasks'[i]].threads]
        BY DEF P!ThreadsOf, P!Slots
    <2> HIDE DEF m
    <2> QED BY <1>1, <1>2, <2>1, <2>2
<1>4. P!Ledger(m, total_threads') /\ total_threads' <= NProcess
    BY <1>0 DEF P!IInv, P!Ledgers, P!ThreadBudget, P!Ledger, P!RunningSum
<1>5. ASSUME NEW p \in Node, Due'[p] # 0
      PROVE  \E i \in A : tasks'[i] = p /\ Due'[p] = plan'[p].threads
    <2>0. Due'[p] = IF BookPending(p)' THEN plan'[p].threads ELSE EntryOf(st', p).threads
        BY DEF Due, EntryOf, Known, BookPending
    <2>1. CASE BookPending(p)'
        <3>1. PICK r \in Logged(out') : Books(r) /\ r.pid = p
            BY <2>1 DEF BookPending, Logged, Books, Starts, Donates
        <3>2. \E i \in A : r.pid = tasks'[i]
            BY <1>0, <3>1 DEF UtilInv, Tells, Logged, Books, Starts, Donates
        <3> QED BY <2>0, <2>1, <3>1, <3>2
    <2>2. CASE ~BookPending(p)'
        <3>1. p \in DOMAIN st'.active /\ Due'[p] = st'.active[p].threads
            BY <1>5, <2>0, <2>2 DEF EntryOf, Known, NewEntry
        <3>2. PICK i \in A : p = tasks'[i]
            BY <3>1
        <3>3. BookPending(tasks[i])' \/ Shows(st, tasks[i])'
            BY <1>0, <3>2 DEF Booking
        <3>4. PICK q : q = tasks'[i]
            OBVIOUS
        <3>5. q = p /\ (BookPending(q)' \/ st'.active[q].threads = plan'[q].threads)
            BY <3>2, <3>3, <3>4 DEF BookPending, Shows
        <3>6. st'.active[p].threads = plan'[p].threads
            BY <2>2, <3>5 DEF BookPending
        <3> QED BY <3>1, <3>2, <3>6
    <2> QED BY <2>1, <2>2
<1>6. \A p \in Node : Due'[p] # 0 => w[p] \in A /\ tasks'[w[p]] = p
    BY <1>5
<1>7. w \in [Node -> P!Slots]
    <2>1. \A p \in Node : (\E i \in A : tasks'[i] = p)
            => (CHOOSE i \in A : tasks'[i] = p) \in S!Slots
        BY <1>2
    <2>2. 0 \in S!Slots
        BY <1>1 DEF S!Slots
    <2> HIDE DEF A
    <2> QED BY <1>1, <2>1, <2>2
<1>8. \A p \in Node : Due'[p] # 0 => Due'[p] <= m[w[p]]
    <2> SUFFICES ASSUME NEW p \in Node, Due'[p] # 0 PROVE Due'[p] <= m[w[p]]
        OBVIOUS
    <2> HIDE DEF m, w, A
    <2> QED BY <1>2, <1>3, <1>5, <1>6
<1> HIDE DEF m, w, A
<1>9. \A p, q \in Node : Due'[p] # 0 /\ Due'[q] # 0 /\ w[p] = w[q] => p = q
    BY <1>6
<1> QED BY <1>1, <1>3, <1>4, <1>7, <1>8, <1>9 DEF Housed

\* A step after which no more is due than before.
LEMMA HousedStays ==
    ASSUME BookInv, BookInv', Housed(Due),
           \A p \in Node : IF BookPending(p)' THEN plan'[p].threads <= Due[p]
                                              ELSE EntryOf(st', p).threads <= Due[p]
    PROVE  Housed(Due')
<1>1. Due \in [Node -> Nat] /\ Due' \in [Node -> Nat]
    BY DueFacts, DueType
<1>2. \A p \in Node : Due'[p] = IF BookPending(p)' THEN plan'[p].threads
                                                  ELSE EntryOf(st', p).threads
    BY DEF Due, EntryOf, Known
<1>3. \A p \in Node : Due'[p] <= Due[p]
    BY <1>2
<1> HIDE DEF Due
<1> QED BY <1>1, <1>3, HousedLess

\* A step that does not reach the dashboard and books nothing.
LEMMA HousedSettled ==
    ASSUME BookInv, BookInv', Housed(Due), st' = st,
           \A p \in Node : BookPending(p)' => BookPending(p) /\ plan'[p] = plan[p]
    PROVE  Housed(Due')
<1>1. /\ Due \in [Node -> Nat]
      /\ \A p \in Node : EntryOf(st, p).threads \in Nat /\ EntryOf(st, p).threads <= Due[p]
    BY DueFacts
<1>2. ASSUME NEW p \in Node, BookPending(p)' PROVE plan'[p].threads <= Due[p]
    <2>1. BookPending(p) /\ plan'[p] = plan[p]
        BY <1>2
    <2>2. Due[p] = plan[p].threads
        BY <2>1 DEF Due
    <2>3. Due[p] \in Nat
        BY <1>1
    <2> QED BY <2>1, <2>2, <2>3
<1>3. ASSUME NEW p \in Node PROVE EntryOf(st', p).threads <= Due[p]
    BY <1>1
<1> QED BY <1>2, <1>3, HousedStays

LEMMA WholeBefore ==
    ASSUME EstInv, [Next]_vars, ~Restart, Whole'
    PROVE  Whole /\ lost' = lost
<1>1. lost' = lost \/ lost' = [run |-> lost.run + 1, all |-> lost.all + 1]
    BY Zenon DEF Next, SchedulerLogs, Launch, EndLaunch, Donate, WorkerSteps, Reap,
       Dies, Tick, AllShown, vars, Feed
<1>2. lost.run \in Nat
    BY BookFacts DEF EstInv, LentInv
<1>3. lost'.run = 0
    BY DEF Whole
<1> QED BY <1>1, <1>2, <1>3 DEF Whole

\* Lines that book nothing leave nothing new to come.
LEMMA NoneBooked ==
    ASSUME UNCHANGED <<st, plan>>, BookInv, BookInv', Housed(Due),
           \A r \in Logged(out') : Books(r) => r \in Logged(out)
    PROVE  Housed(Due')
<1>1. \A p \in Node : BookPending(p)' => BookPending(p)
    BY DEF BookPending, Logged, Books, Starts, Donates
<1> QED BY <1>1, HousedSettled

LEMMA SchedulerLogsHoused ==
    ASSUME BookInv, BookInv', Housed(Due), SchedulerLogs, lost' = lost
    PROVE  Housed(Due')
<1> DEFINE r == Head(out)
<1>1. /\ Line(r) /\ Reckoned(r)
      /\ Drops(r) \/ Books(r) \/ Configures(r) \/ Notes(r)
      /\ Configures(r) => DOMAIN st.active = {}
      /\ Books(r) => /\ r.pid \in Node /\ r.thr \in Nat
      /\ Logged(out) = {r} \cup Logged(out')
      /\ plan' = plan
    BY HeadSent DEF program
<1>2. PICK ts \in 0 .. clock : st' = FeedLine(st, r, ts)
    <2>1. clock \in Nat /\ lost.run \in Nat
        BY BookFacts DEF UtilInv, LentInv
    <2>2. lost # [run |-> lost.run + 1, all |-> lost.all + 1]
        BY <2>1
    <2> QED BY <2>1, <2>2 DEF SchedulerLogs, Feed
<1>3. /\ Due \in [Node -> Nat]
      /\ \A p \in Node : EntryOf(st, p).threads \in Nat /\ EntryOf(st, p).threads <= Due[p]
    BY DueFacts
<1>4. \A p \in Node : BookPending(p)' => BookPending(p)
    BY <1>1 DEF BookPending, Logged, Books, Starts, Donates
<1>5. \A p \in Node : BookPending(p) => Due[p] = plan[p].threads
    BY DEF Due
<1>6. Books(r) => r.thr = plan[r.pid].threads /\ BookPending(r.pid)
    BY <1>1 DEF Reckoned, BookPending
<1> HIDE DEF r
<1>7. \A p \in DOMAIN st'.active : st'.active[p].threads = ShownGrant(st, r, p)
    <2>1. Told(st, st', r)
        BY <1>1, <1>2, BookFacts, FeedLineTells
    <2>2. Books(r) => EntryOf(st, r.pid).threads <= r.thr
        BY <1>1, <1>3, <1>5, <1>6
    <2> QED BY <1>1, <2>1, <2>2, BookFacts, ToldOrdered DEF UtilInv, Metered
<1>8. ASSUME NEW p \in Node PROVE EntryOf(st', p).threads <= Due[p]
    <2>1. CASE p \notin DOMAIN st'.active
        BY <1>3, <2>1 DEF EntryOf, Known, NewEntry
    <2>2. CASE p \in DOMAIN st'.active /\ Books(r) /\ p = r.pid
        <3>1. EntryOf(st', p).threads = r.thr
            BY <1>7, <2>2 DEF EntryOf, Known, ShownGrant
        <3> QED BY <1>1, <1>3, <1>5, <1>6, <2>2, <3>1
    <2>3. CASE p \in DOMAIN st'.active /\ ~(Books(r) /\ p = r.pid)
        <3>1. EntryOf(st', p).threads = EntryOf(st, p).threads
            BY <1>7, <2>3 DEF EntryOf, Known, ShownGrant
        <3> QED BY <1>3, <3>1
    <2> QED BY <2>1, <2>2, <2>3
<1>9. \A p \in Node : BookPending(p)' => plan'[p].threads <= Due[p]
    BY <1>1, <1>3, <1>4, <1>5
<1> QED BY <1>8, <1>9, HousedStays

LEMMA WorkerStepsHoused ==
    ASSUME BookInv, BookInv', Housed(Due), NEW i \in S!Slots, WorkerSteps(i), lost' = lost
    PROVE  Housed(Due')
<1> DEFINE r == Record(i)
<1>1. plan' = plan /\ out' = out
    <2>1. CASE UNCHANGED program
        BY <2>1 DEF program, WorkerSteps
    <2>2. CASE S!CloseSlot(i) \/ S!Commit(i) \/ S!DeleteLeft(i) \/ S!Exit(i)
        <3>1. UNCHANGED S!sched
            BY <2>2 DEF S!CloseSlot, S!Commit, S!DeleteLeft, S!Exit
        <3> QED BY <3>1 DEF S!sched, WorkerSteps
    <2> QED BY <2>1, <2>2 DEF WorkerSteps
<1>2. CASE st' = st
    BY <1>1, <1>2, NoneBooked DEF Logged
<1>3. CASE Now(i).r # Silent /\ \E ts \in 0 .. clock : st' = FeedLine(st, r, ts)
    <2>1. PICK ts \in 0 .. clock : st' = FeedLine(st, r, ts)
        BY <1>3
    <2>2. Mine(tasks[i], r) /\ tasks[i] \in Node
        <3>1. i \in Computing
            BY DEF Computing, WorkerSteps, Alive
        <3> QED BY <1>3, <3>1, RecordSent
    <2> HIDE DEF r
    <2>3. \A p \in DOMAIN st'.active : st'.active[p].threads = EntryOf(st, p).threads
        <3>1. WorkerLends(st, st', tasks[i], Raises(r))
            BY <2>1, <2>2, BookFacts, FeedLineLends
        <3> QED BY <3>1, BookFacts, WorkerOrdered DEF UtilInv, Metered
    <2>4. /\ Due \in [Node -> Nat]
          /\ \A p \in Node : EntryOf(st, p).threads \in Nat
                             /\ EntryOf(st, p).threads <= Due[p]
        BY DueFacts
    <2>5. ASSUME NEW p \in Node PROVE EntryOf(st', p).threads <= Due[p]
        <3>1. CASE p \notin DOMAIN st'.active
            BY <2>4, <3>1 DEF EntryOf, Known, NewEntry
        <3>2. CASE p \in DOMAIN st'.active
            <4>1. EntryOf(st', p).threads = EntryOf(st, p).threads
                BY <2>3, <3>2 DEF EntryOf, Known
            <4> QED BY <2>4, <4>1
        <3> QED BY <3>1, <3>2
    <2>6. \A p \in Node : BookPending(p)' => Due[p] = plan'[p].threads
        BY <1>1 DEF Due, BookPending, Books, Starts, Donates, Logged
    <2>7. \A p \in Node : BookPending(p)' => plan'[p].threads <= Due[p]
        BY <2>4, <2>6
    <2> QED BY <2>5, <2>7, HousedStays
<1>4. \/ st' = st
      \/ Now(i).r # Silent /\ \E ts \in 0 .. clock : st' = FeedLine(st, r, ts)
    <2>1. clock \in Nat
        BY BookFacts DEF UtilInv
    <2> QED BY <2>1 DEF WorkerSteps, Feed
<1> QED BY <1>2, <1>3, <1>4

\* A launch and a donation that is taken come when all that was logged is read.
LEMMA BookingHoused ==
    ASSUME EstInv, BookInv', Whole, lost' = lost, out = << >>, pc # "down", pc' # "down",
           st' = st, \A i \in S!Active : i \in (S!Active)' /\ tasks'[i] = tasks[i]
    PROVE  Housed(Due')
<1>1. DOMAIN st.active = {tasks[i] : i \in S!Active}
    BY BooksOnceRead
<1>2. \A p \in DOMAIN st'.active : \E i \in (S!Active)' : p = tasks'[i]
    <2> SUFFICES ASSUME NEW p \in DOMAIN st.active
                 PROVE  \E i \in (S!Active)' : p = tasks'[i]
        OBVIOUS
    <2>1. PICK i \in S!Active : p = tasks[i]
        BY <1>1
    <2> QED BY <2>1
<1>3. Whole'
    BY DEF Whole
<1> QED BY <1>2, <1>3, HousedNow

LEMMA DonateHoused ==
    ASSUME EstInv, BookInv', Whole, lost' = lost, Housed(Due), Donate
    PROVE  Housed(Due')
<1>0. BookInv
    BY DEF EstInv
<1>1. UNCHANGED <<tasks, st>> /\ out = << >> /\ pc # "down" /\ (S!Active)' = S!Active
    BY DEF Donate, S!DonateLoad, S!DonateRefused, S!DonateAccepted, S!DonateEnd, S!Active,
           S!Slots
<1>2. CASE (S!DonateLoad \/ S!DonateRefused) /\ UNCHANGED out
    <2>1. UNCHANGED plan
        BY <1>2 DEF S!DonateLoad, S!DonateRefused
    <2> QED BY <1>0, <1>1, <1>2, <2>1, NoneBooked DEF Logged
<1>3. CASE S!DonateAccepted
    <2>1. pc' = "donate"
        BY <1>3 DEF S!DonateAccepted
    <2> QED BY <1>1, <2>1, BookingHoused
<1>4. CASE /\ S!DonateEnd
           /\ out' = <<SchedulerLine("active processes", Cardinality(S!Active)),
                       SchedulerLine("active threads", total_threads),
                       SchedulerLine("active memory", total_mem_cost)>>
    <2>1. UNCHANGED plan
        BY <1>4, Zenon DEF S!DonateEnd
    <2>2. PICK x, y, z : /\ x = SchedulerLine("active processes", Cardinality(S!Active))
                         /\ y = SchedulerLine("active threads", total_threads)
                         /\ z = SchedulerLine("active memory", total_mem_cost)
        OBVIOUS
    <2>3. Logged(out') = {x, y, z}
        <3>1. \A a, b, c : Logged(<<a, b, c>>) = {a, b, c}
            BY LoggedLines
        <3>2. out' = <<x, y, z>>
            BY <1>4, <2>2, Zenon
        <3> QED BY <3>1, <3>2
    <2>4. ~Books(x) /\ ~Books(y) /\ ~Books(z)
        BY <2>2, SchedulerLineFields, Zenon
    <2> QED BY <1>0, <1>1, <2>1, <2>3, <2>4, NoneBooked
<1> QED BY <1>2, <1>3, <1>4, Zenon DEF Donate

LEMMA ReapHoused ==
    ASSUME BookInv, BookInv', Housed(Due), NEW i \in S!Slots, Reap(i)
    PROVE  Housed(Due')
<1> DEFINE ended == [fn |-> "task_end", pid |-> tasks[i]]
           checked == [fn |-> "task_check_exit", pid |-> tasks[i]]
           rest == IF tasks[i] = S!Root THEN FinishLines ELSE << >>
<1>1. ~Books(ended) /\ ~Books(checked)
    BY Zenon DEF Books, Starts, Donates
<1>2. \A r \in Logged(rest) : ~Books(r)
    <2>1. \A r : Remarks(r) => ~Books(r)
        BY Zenon DEF Remarks, Books, Starts, Donates
    <2> QED BY <2>1, LinesOfRoot, LoggedLines
<1>3. Logged(out') \subseteq {ended, checked} \cup Logged(rest)
    <2>1. CASE out' = <<ended>> \o rest
        <3> DEFINE one == <<ended>>
        <3>1. Quiet(one) /\ Quiet(rest)
            BY SchedulerLinesQuiet, RootLinesQuiet, QuietLines, Zenon
        <3>2. Logged(out') = Logged(one) \cup Logged(rest)
            BY <2>1, <3>1, LoggedLines, Zenon
        <3>3. Logged(one) = {ended}
            BY LoggedLines, Zenon
        <3> HIDE DEF ended, checked, rest, one
        <3> QED BY <3>2, <3>3
    <2>2. CASE out' = <<checked>>
        <3>1. Logged(out') = {checked}
            BY <2>2, LoggedLines, Zenon
        <3> HIDE DEF ended, checked, rest
        <3> QED BY <3>1
    <2> QED BY <2>1, <2>2 DEF Reap
<1> HIDE DEF ended, checked, rest
<1>4. \A p \in Node : ~BookPending(p)'
    BY <1>1, <1>2, <1>3 DEF BookPending, Logged, Books, Starts, Donates
<1>5. st' = st
    BY DEF Reap
<1> QED BY <1>4, <1>5, HousedSettled

\* A run that has read nothing yet shows nothing as booked.
LEMMA FreshHoused ==
    ASSUME BookInv, DOMAIN st.active = {}, NEW b, out \in FirstLines(b)
    PROVE  Housed(Due)
<1>1. Due \in [Node -> Nat]
    BY DueFacts
<1>2. \A r \in Logged(out) : ~Books(r)
    <2>1. \A r \in Logged(out) : r \in Logged(ConfigLines) \/ Remarks(r) \/ Drops(r)
        BY LinesOfFirst
    <2>2. \A r : Configures(r) \/ Remarks(r) \/ Drops(r) => ~Books(r)
        BY Zenon DEF Configures, Remarks, Drops, Books, Starts, Donates
    <2> QED BY <2>1, <2>2, LinesOfConfig
<1>3. \A p \in Node : Due[p] = 0
    BY <1>2 DEF Due, BookPending, EntryOf, Known, NewEntry
<1> QED BY <1>1, <1>3, HousedNone

LEMMA RestartHoused ==
    ASSUME BookInv', DOMAIN st'.active = {}, NEW b, out' \in FirstLines(b)
    PROVE  Housed(Due')
<1>1. Due' \in [Node -> Nat]
    BY DueType
<1>2. \A r \in Logged(out') : ~Books(r)
    <2>1. \A r \in Logged(out') : r \in Logged(ConfigLines) \/ Remarks(r) \/ Drops(r)
        BY LinesOfFirst
    <2>2. \A r : Configures(r) \/ Remarks(r) \/ Drops(r) => ~Books(r)
        BY Zenon DEF Configures, Remarks, Drops, Books, Starts, Donates
    <2> QED BY <2>1, <2>2, LinesOfConfig
<1>3. \A p \in Node : ~BookPending(p)'
    BY <1>2 DEF BookPending, Logged, Books, Starts, Donates
<1>4. \A p \in Node : Due'[p] = 0
    BY <1>3 DEF Due, EntryOf, Known, NewEntry
<1> QED BY <1>1, <1>4, HousedNone

LEMMA NextHoused ==
    ASSUME EstInv, EstInv', Whole => Housed(Due), [Next]_vars, Whole'
    PROVE  Housed(Due')
<1>0. BookInv /\ BookInv' /\ LentInv /\ TrailInv' /\ P!GInv'
    <2>1. BookInv /\ BookInv'
        BY DEF EstInv
    <2>2. LentInv' /\ UtilInv'
        BY <2>1 DEF BookInv, UtilInv
    <2>3. TrailInv' /\ P!GInv'
        BY <2>2 DEF LentInv
    <2> QED BY <2>1, <2>3, BookFacts
<1>1. CASE Restart
    <2> DEFINE kept == S!Root \in stored
    <2>1. out' \in FirstLines(kept)
        BY <1>1 DEF Restart
    <2> HIDE DEF kept
    <2>2. DOMAIN st'.active = {}
        BY <1>1, FreshBook DEF Restart
    <2> QED BY <1>0, <2>1, <2>2, RestartHoused
<1>2. CASE ~Restart
    <2>0. Whole /\ lost' = lost /\ Housed(Due)
        BY <1>2, WholeBefore
    <2>1. CASE SchedulerLogs
        BY <1>0, <2>0, <2>1, SchedulerLogsHoused
    <2>2. CASE Launch
        <3>1. PICK i \in S!Slots, n \in Node, lines \in StoredLines : Launches(i, n, lines)
            BY <1>0, <2>2, LaunchFacts
        <3>2. /\ out = << >> /\ st' = st
              /\ \A j \in S!Active : j \in (S!Active)' /\ tasks'[j] = tasks[j]
            BY <3>1 DEF Launches, S!Active, S!Slots
        <3>3. pc' = pc /\ pc = "launch"
            BY <2>2, <3>1 DEF Launch, S!Launch, Launches, S!TaskStart
        <3> QED BY <1>0, <2>0, <3>2, <3>3, BookingHoused
    <2>3. CASE EndLaunch
        <3>1. UNCHANGED <<plan, st>>
            BY <2>3 DEF EndLaunch, S!EndLaunch
        <3>2. PICK lines \in StoredLines : out' = lines \o HaltLines
            BY <2>3 DEF EndLaunch
        <3>3. Logged(out') = Logged(lines) \cup Logged(HaltLines)
            <4>1. Quiet(lines) /\ Quiet(HaltLines)
                BY <1>0, BookFacts, StoredLinesQuiet, HaltLinesQuiet
            <4> QED BY <3>2, <4>1, LoggedLines, Zenon
        <3>4. \A r \in Logged(out') : Drops(r) \/ Remarks(r)
            BY <1>0, <3>3, BookFacts, LinesOfStored, LinesOfHalt
        <3>5. \A r : Remarks(r) \/ Drops(r) => ~Books(r)
            BY Zenon DEF Remarks, Drops, Books, Starts, Donates
        <3> QED BY <1>0, <2>0, <3>1, <3>4, <3>5, NoneBooked
    <2>4. CASE Donate
        BY <1>0, <2>0, <2>4, DonateHoused
    <2>5. ASSUME NEW i \in S!Slots, WorkerSteps(i) PROVE Housed(Due')
        BY <1>0, <2>0, <2>5, WorkerStepsHoused
    <2>6. ASSUME NEW i \in S!Slots, Reap(i) PROVE Housed(Due')
        BY <1>0, <2>0, <2>6, ReapHoused
    <2>7. CASE UNCHANGED <<st, plan>> /\ (out' = out \/ out' = << >>)
        <3>1. \A r \in Logged(out') : r \in Logged(out)
            BY <2>7, LoggedLines
        <3> QED BY <1>0, <2>0, <2>7, <3>1, NoneBooked
    <2>8. Dies => UNCHANGED <<st, plan>> /\ (out' = out \/ out' = << >>)
        BY DEF Dies, S!WorkerDies, S!Crash, S!sched
    <2>9. \/ SchedulerLogs \/ Launch \/ EndLaunch \/ Donate \/ Dies
          \/ UNCHANGED <<st, plan, out>>
          \/ \E i \in S!Slots : WorkerSteps(i) \/ Reap(i)
        BY <1>2, Zenon DEF Next, Tick, AllShown, vars, program
    <2> HIDE DEF Due
    <2> QED BY <2>1, <2>2, <2>3, <2>4, <2>5, <2>6, <2>7, <2>8, <2>9
<1> QED BY <1>1, <1>2

LEMMA NextBar == BarInv /\ [Next]_vars => BarInv'
<1> SUFFICES ASSUME BarInv, [Next]_vars PROVE BarInv'
    OBVIOUS
<1>1. TallyInv'
    BY NextTally DEF BarInv
<1>2. Whole' => Housed(Due')
    BY <1>1, NextHoused DEF BarInv, TallyInv
<1> QED BY <1>1, <1>2 DEF BarInv, Housed, P!Slots, P!Ledger, P!RunningSum

LEMMA InitBar == Init => BarInv
<1> SUFFICES ASSUME Init PROVE BarInv
    OBVIOUS
<1>1. TallyInv
    BY InitTally
<1> DEFINE kept == S!Root \in stored
<1>2. out \in FirstLines(kept)
    BY DEF Init
<1> HIDE DEF kept
<1>3. DOMAIN st.active = {}
    BY FreshBook DEF Init
<1> QED BY <1>1, <1>2, <1>3, FreshHoused DEF BarInv, TallyInv, EstInv

-----------------------------------------------------------------------------
(* The counts the bars are drawn from.                                     *)

\* In a run none of whose lines was lost, no more threads are shown than there are.
LEMMA EntriesWithin ==
    ASSUME BarInv, Whole
    PROVE  SumOfEntries(st, LAMBDA e : e.threads) <= NProcess
<1> DEFINE D == DOMAIN st.active
           f == [p \in D |-> st.active[p].threads]
<1>0. BookInv /\ LendingOK(st) /\ NProcess \in Nat
    BY BookFacts, ProgramAssumption DEF BarInv, TallyInv, EstInv, S!BudgetAssumption
<1>1. IsFiniteSet(D) /\ D \subseteq Node
    BY <1>0, EntriesFinite DEF LendingOK
<1>2. PICK h : Sums(h, f, D) /\ SumOfEntries(st, LAMBDA e : e.threads) = h[D]
    BY <1>1, ThreadsSum
<1>3. PICK m \in [P!Slots -> Nat], t \in Nat, w \in [Node -> P!Slots] :
        /\ P!Ledger(m, t) /\ t <= NProcess
        /\ \A p \in Node : Due[p] # 0 => Due[p] <= m[w[p]]
        /\ \A p, q \in Node : Due[p] # 0 /\ Due[q] # 0 /\ w[p] = w[q] => p = q
    BY DEF BarInv, Housed
<1>4. \A p \in D : f[p] \in Nat /\ f[p] <= Due[p] /\ Due[p] \in Nat
    BY <1>0, <1>1, DueFacts DEF EntryOf, Known
<1>5. \A p \in D : f[p] # 0 => Due[p] # 0 /\ f[p] <= m[w[p]]
    <2> SUFFICES ASSUME NEW p \in D, f[p] # 0 PROVE Due[p] # 0 /\ f[p] <= m[w[p]]
        OBVIOUS
    <2>1. f[p] \in Nat /\ f[p] <= Due[p] /\ Due[p] \in Nat /\ p \in Node
        BY <1>1, <1>4
    <2>2. Due[p] # 0
        BY <2>1
    <2>3. Due[p] <= m[w[p]] /\ m[w[p]] \in Nat
        BY <1>3, <2>1, <2>2
    <2> QED BY <2>1, <2>2, <2>3
<1> HIDE DEF f, D
<1>6. \A p, q \in D : f[p] # 0 /\ f[q] # 0 /\ w[p] = w[q] => p = q
    BY <1>1, <1>3, <1>5
<1>7. \A p \in D : w[p] \in P!Slots
    BY <1>1, <1>3
<1>8. \A p \in D : f[p] \in Nat
    BY <1>4
<1>9. h[D] <= t
    BY <1>1, <1>2, <1>3, <1>5, <1>6, <1>7, <1>8, SumWithinLedger
<1>10. h[D] \in Nat
    <2>1. \A p \in D : f[p] <= f[p]
        BY <1>8
    <2> QED BY <1>1, <1>2, <1>8, <2>1, SumsOrdered
<1> QED BY <1>0, <1>2, <1>3, <1>9, <1>10

\* No more threads are in force than are booked.
LEMMA NowWithinBooked ==
    ASSUME NEW s, Metered(s)
    PROVE  /\ ThreadBudget(s) \in Nat
           /\ ActiveThreads(s) \in Nat /\ BookedThreads(s) \in Nat
           /\ ActiveThreads(s) <= BookedThreads(s)
           /\ BlockedThreads(s)[1] \in Nat /\ BlockedThreads(s)[2] \in Nat
<1>1. ThreadBudget(s) \in Nat
    BY ProgramAssumption, ArgAssumption
       DEF Metered, BudgetRead, ThreadBudget, S!BudgetAssumption
<1>2. /\ SumOfEntries(s, EntryThreads) \in Nat
      /\ SumOfEntries(s, LAMBDA e : e.threads) \in Nat
      /\ SumOfEntries(s, EntryThreads) <= SumOfEntries(s, LAMBDA e : e.threads)
      /\ BlockedThreads(s)[1] \in Nat /\ BlockedThreads(s)[2] \in Nat
    BY SumsOfEntries DEF Metered
<1>3. CASE InRoot(s)
    BY <1>1, <1>2, <1>3 DEF ActiveThreads, BookedThreads
<1>4. CASE ~InRoot(s) /\ ~s.threads_seen
    <2>1. ActiveThreads(s) = s.threads_reported /\ BookedThreads(s) = s.threads_reported
        BY <1>4 DEF ActiveThreads, BookedThreads
    <2>2. s.threads_reported \in Nat
        BY DEF Metered
    <2> QED BY <1>1, <1>2, <2>1, <2>2
<1>5. CASE ~InRoot(s) /\ s.threads_seen
    <2>1. /\ ActiveThreads(s) = SumOfEntries(s, EntryThreads)
          /\ BookedThreads(s) = SumOfEntries(s, LAMBDA e : e.threads)
        BY <1>5 DEF ActiveThreads, BookedThreads
    <2> QED BY <1>1, <1>2, <2>1
<1> QED BY <1>3, <1>4, <1>5

LEMMA BookedWithinBudget ==
    ASSUME BarInv, Whole, ThreadBudget(st) # 0
    PROVE  BookedThreads(st) <= ThreadBudget(st)
<1>0. /\ Metered(st) /\ st.threads_reported <= NProcess
      /\ NProcess \in Nat \ {0} /\ ArgNProcess \in Nat
    BY BookFacts, ProgramAssumption, ArgAssumption
       DEF BarInv, TallyInv, EstInv, UtilInv, S!BudgetAssumption
<1>1. BookedThreads(st) \in Nat /\ ThreadBudget(st) \in Nat
    BY <1>0, NowWithinBooked
<1>2. CASE InRoot(st)
    BY <1>1, <1>2 DEF BookedThreads
<1>3. CASE ~InRoot(st) /\ st.n_process_logged = NProcess
    <2>1. ThreadBudget(st) = NProcess
        BY <1>0, <1>3 DEF ThreadBudget
    <2>2. BookedThreads(st) = IF ~st.threads_seen THEN st.threads_reported
                              ELSE SumOfEntries(st, LAMBDA e : e.threads)
        BY <1>3 DEF BookedThreads
    <2>3. CASE st.threads_seen
        <3>1. BookedThreads(st) = SumOfEntries(st, LAMBDA e : e.threads)
            BY <2>2, <2>3
        <3> QED BY <2>1, <3>1, EntriesWithin
    <2>4. CASE ~st.threads_seen
        BY <1>0, <2>1, <2>2, <2>4
    <2> QED BY <2>3, <2>4
<1>4. CASE st.n_process_logged = 0 /\ Unread(st)
    <2>1. BookedThreads(st) = 0
        BY <1>4 DEF BookedThreads, Unread
    <2> QED BY <1>1, <2>1
<1> QED BY <1>0, <1>2, <1>3, <1>4 DEF Metered, BudgetRead

LEMMA ThreadCountsSum ==
    ASSUME NEW s, Metered(s)
    PROVE  LET counts == ThreadCounts(s)
               budget == ThreadBudget(s)
           IN  /\ counts \in [1 .. 3 -> Nat]
               /\ SumOfSeq(counts) >= budget
               /\ BookedThreads(s) <= budget => SumOfSeq(counts) = budget
<1> DEFINE now == ActiveThreads(s)
           all == BookedThreads(s)
           wait == BlockedThreads(s)[1]
           idle == BlockedThreads(s)[2]
           budget == ThreadBudget(s)
           pending == AtLeast(0, all - now)
           parked == AtMost(wait + idle, now)
           free == AtLeast(0, budget - now - pending)
<1>1. /\ budget \in Nat /\ now \in Nat /\ all \in Nat /\ now <= all
      /\ wait \in Nat /\ idle \in Nat
    BY NowWithinBooked
<1>2. ThreadCounts(s) = <<now - parked, parked + pending, free>>
    BY DEF ThreadCounts
<1> HIDE DEF now, all, wait, idle, budget
<1>3. pending = all - now /\ parked \in 0 .. now
    BY <1>1 DEF AtLeast, AtMost
<1>4. free \in Nat /\ all + free >= budget /\ (all <= budget => all + free = budget)
    BY <1>1, <1>3 DEF AtLeast
<1> HIDE DEF pending, parked, free
<1>5. now - parked \in Nat /\ parked + pending \in Nat
    BY <1>1, <1>3
<1>6. <<now - parked, parked + pending, free>> \in [1 .. 3 -> Nat]
    BY <1>4, <1>5
<1>7. SumOfSeq(<<now - parked, parked + pending, free>>)
        = (now - parked) + (parked + pending) + free
    BY <1>4, <1>5, SumOfThree
<1>8. (now - parked) + (parked + pending) + free = all + free
    BY <1>1, <1>3, <1>4
<1> QED BY <1>2, <1>4, <1>6, <1>7, <1>8 DEF budget, all

LEMMA LockCountsSum ==
    ASSUME NEW s, Tallied(s)
    PROVE  /\ LockCounts(s) \in [1 .. 2 -> Nat]
           /\ SumOfSeq(LockCounts(s)) = s.lock_requests
<1>1. s.lock_misses \in Nat /\ s.lock_requests - s.lock_misses \in Nat
      /\ s.lock_requests \in Nat
    BY DEF Tallied, TallyFields
<1>2. SumOfSeq(<<s.lock_misses, s.lock_requests - s.lock_misses>>)
        = s.lock_misses + (s.lock_requests - s.lock_misses)
    BY <1>1, SumOfTwo
<1> QED BY <1>1, <1>2 DEF LockCounts

LEMMA EstimateType ==
    ASSUME TallyInv
    PROVE  ActiveMemEstimate(st) \in Nat /\ EstimatedMemory(st) \in Nat
<1> DEFINE D == Counted(st)
           f == [k \in D |-> st.tree[k].mem_estimate]
<1>0. Costed(st) /\ StateOK(st) /\ st.mem_booked \in Nat
    BY BookFacts DEF TallyInv, EstInv, BookInv, TrailInv, Tallied, TallyFields
<1>1. IsFiniteSet(D)
    <2>1. D \subseteq Running(st.tree) /\ IsFiniteSet(Running(st.tree))
        BY <1>0 DEF StateOK, TrailOf, Running, Counted
    <2> QED BY <2>1, FS_Subset
<1>2. PICK h : Sums(h, f, D) /\ ActiveMemEstimate(st) = h[D]
    BY <1>1, EstimatesSum
<1>3. \A k \in D : f[k] \in Nat /\ f[k] <= f[k]
    BY <1>0 DEF Costed, Rated, Counted
<1> HIDE DEF D, f
<1>4. h[D] \in Nat
    BY <1>1, <1>2, <1>3, SumsOrdered
<1> QED BY <1>0, <1>2, <1>4 DEF EstimatedMemory

LEMMA MemoryCountsSum ==
    ASSUME TallyInv, MemoryBudget(st) # 0, NEW real \in Nat
    PROVE  /\ MemoryCounts(st, real) \in [1 .. 2 -> Nat]
           /\ SumOfSeq(MemoryCounts(st, real)) # 0
<1> DEFINE est == EstimatedMemory(st)
           scale == MemoryScale(st, real)
           budget == MemoryBudget(st)
<1>1. est \in Nat /\ budget \in Nat \ {0}
    <2>1. st.mem_max \in Nat /\ st.mem_launch \in Nat
        BY DEF TallyInv, Tallied, TallyFields
    <2>2. budget \in Nat
        BY <2>1 DEF MemoryBudget
    <2> QED BY <2>2, EstimateType
<1>2. scale = AtLeast(AtLeast(budget, est), real)
    BY DEF MemoryScale
<1> HIDE DEF est, scale, budget
<1>3. scale \in Nat /\ scale # 0 /\ scale - est \in Nat
    BY <1>1, <1>2 DEF AtLeast
<1>4. SumOfSeq(<<est, scale - est>>) = est + (scale - est)
    BY <1>1, <1>3, SumOfTwo
<1>5. MemoryCounts(st, real) = <<est, scale - est>>
    BY DEF MemoryCounts, est, scale
<1> QED BY <1>1, <1>3, <1>4, <1>5

LEMMA CompletionCountsSum ==
    ASSUME NEW s, Tallied(s), s.total_pieces # 0
    PROVE  /\ CompletionCounts(s) \in [1 .. 2 -> Nat]
           /\ SumOfSeq(CompletionCounts(s)) # 0
           /\ CompletionCounts(s)[2] = 0 => s.done
<1> DEFINE units == 2 * s.total_pieces - 1
           last == PostSplitDone(s)
           count == AtMost(s.pieces_done + s.joins_done, units)
<1>1. units \in Nat \ {0} /\ s.pieces_done + s.joins_done \in Nat
    BY DEF Tallied, TallyFields
<1>2. last \in 0 .. 2 /\ (last = 2 => s.done)
    <2>1. CASE s.done
        BY <2>1 DEF PostSplitDone, PostSplitUnits
    <2>2. CASE ~s.done
        BY <2>2 DEF PostSplitDone, PostSplitUnits
    <2> QED BY <2>1, <2>2
<1>3. count \in 0 .. units
    BY <1>1 DEF AtMost
<1>4. CompletionCounts(s) = <<count + last, units + 2 - (count + last)>>
    BY DEF CompletionCounts, PostSplitUnits
<1> HIDE DEF units, last, count
<1>5. count + last \in Nat /\ units + 2 - (count + last) \in Nat
    BY <1>1, <1>2, <1>3
<1>6. SumOfSeq(<<count + last, units + 2 - (count + last)>>)
        = (count + last) + (units + 2 - (count + last))
    BY <1>5, SumOfTwo
<1>7. (count + last) + (units + 2 - (count + last)) # 0
    BY <1>1, <1>2, <1>3
<1>8. units + 2 - (count + last) = 0 => s.done
    BY <1>1, <1>2, <1>3
<1> QED BY <1>4, <1>5, <1>6, <1>7, <1>8

\* Once the scheduler waits and its lines are read, the memory that is shown is what it
\* has booked.
LEMMA MemoryOnceRead ==
    ASSUME BarInv, Whole, out = << >>, pc = "wait"
    PROVE  st.mem_max = MemMax /\ EstimatedMemory(st) = total_mem_cost
<1>0. EstInv /\ TallyInv /\ Logged(out) = {} /\ total_mem_cost \in Nat
    BY LoggedLines, BookFacts DEF BarInv, TallyInv, EstInv
<1>1. st.mem_max = MemMax
    <2>1. Ceiled
        BY <1>0 DEF TallyInv
    <2> QED BY <1>0, <2>1 DEF Ceiled
<1>2. ~InRoot(st)
    BY <1>0 DEF TallyInv, RootLast
<1>3. st.mem_booked = total_mem_cost
    BY <1>0, TotalsOnceRead
<1>4. total_mem_cost = 0 => ActiveMemEstimate(st) = 0
    <2>1. ActiveMemEstimate(st) <= total_mem_cost /\ ActiveMemEstimate(st) \in Nat
        BY <1>0, EstimateWithinTotal, EstimateType
    <2> QED BY <2>1
<1> QED BY <1>1, <1>2, <1>3, <1>4 DEF EstimatedMemory

\* What BarsFill says of a bar of w cells.
Filled(n, c, w) ==
    /\ Fills(w, c) \in [1 .. n -> Nat]
    /\ SumOfSeq(Fills(w, c)) = w
    /\ SumOfSeq(CursorFills(w, c)) = w
    /\ n <= w => \A j \in 1 .. n : c[j] > 0 => Fills(w, c)[j] > 0

LEMMA FillsOf ==
    ASSUME NEW n \in Nat \ {0}, NEW c \in [1 .. n -> Nat], SumOfSeq(c) # 0, NEW w \in Nat
    PROVE  Filled(n, c, w)
<1>1. SumOfSeq(Fills(w, c)) = w
    BY BarsFill
<1>2. SumOfSeq(CursorFills(w, c)) = w
    BY BarsFill
<1>3. Fills(w, c) \in [1 .. n -> Nat]
    BY BarsFill
<1>4. n <= w => \A j \in 1 .. n : c[j] > 0 => Fills(w, c)[j] > 0
    BY BarsFill
<1> QED BY <1>1, <1>2, <1>3, <1>4 DEF Filled

LEMMA FillsOfTwo ==
    ASSUME NEW c \in [1 .. 2 -> Nat], SumOfSeq(c) # 0, NEW w \in Nat
    PROVE  /\ Fills(w, c) \in [1 .. 2 -> Nat]
           /\ SumOfSeq(Fills(w, c)) = w
           /\ SumOfSeq(CursorFills(w, c)) = w
<1>1. 2 \in Nat \ {0}
    OBVIOUS
<1>2. Filled(2, c, w)
    BY <1>1, FillsOf, Zenon
<1> QED BY <1>2 DEF Filled

LEMMA FillsOfThree ==
    ASSUME NEW c \in [1 .. 3 -> Nat], SumOfSeq(c) # 0, NEW w \in Nat, 3 <= w
    PROVE  /\ SumOfSeq(Fills(w, c)) = w
           /\ \A j \in 1 .. 3 : c[j] > 0 => Fills(w, c)[j] > 0
<1>1. 3 \in Nat \ {0}
    OBVIOUS
<1>2. Filled(3, c, w)
    BY <1>1, FillsOf, Zenon
<1> QED BY <1>2 DEF Filled

LEMMA BarIsTrue == BarInv => BarsTrue
<1> SUFFICES ASSUME BarInv PROVE BarsTrue
    OBVIOUS
<1>0. TallyInv /\ Metered(st) /\ Tallied(st)
    BY BookFacts DEF BarInv, TallyInv, EstInv, UtilInv
<1>1. ASSUME NEW w \in BarWidths
      PROVE  /\ ThreadBudget(st) # 0 =>
                LET counts == ThreadCounts(st)
                    fills  == Fills(w, counts)
                IN  /\ SumOfSeq(fills) = w
                    /\ \A j \in DOMAIN counts : counts[j] > 0 => fills[j] > 0
             /\ st.lock_requests # 0 =>
                LET fills == Fills(w, LockCounts(st))
                IN  /\ SumOfSeq(fills) = w
                    /\ \A j \in DOMAIN fills : fills[j] >= 0
             /\ MemoryDrawn(st) =>
                \A real \in RssReadings : SumOfSeq(Fills(w, MemoryCounts(st, real))) = w
             /\ st.total_pieces # 0 => SumOfSeq(CursorFills(w, CompletionCounts(st))) = w
    <2>0. w \in Nat /\ 3 <= w
        BY BarAssumption
    <2>1. ASSUME ThreadBudget(st) # 0
          PROVE  LET counts == ThreadCounts(st)
                     fills  == Fills(w, counts)
                 IN  /\ SumOfSeq(fills) = w
                     /\ \A j \in DOMAIN counts : counts[j] > 0 => fills[j] > 0
        <3> DEFINE counts == ThreadCounts(st)
        <3>1. counts \in [1 .. 3 -> Nat] /\ SumOfSeq(counts) >= ThreadBudget(st)
            BY <1>0, ThreadCountsSum
        <3>2. ThreadBudget(st) \in Nat \ {0}
            BY <1>0, <2>1, NowWithinBooked
        <3>3. SumOfSeq(counts) # 0
            BY <3>1, <3>2
        <3> HIDE DEF counts
        <3>4. /\ SumOfSeq(Fills(w, counts)) = w
              /\ \A j \in 1 .. 3 : counts[j] > 0 => Fills(w, counts)[j] > 0
            BY <2>0, <3>1, <3>3, FillsOfThree
        <3>5. DOMAIN counts = 1 .. 3
            BY <3>1
        <3> QED BY <3>4, <3>5 DEF counts
    <2>2. ASSUME st.lock_requests # 0
          PROVE  LET fills == Fills(w, LockCounts(st))
                 IN  /\ SumOfSeq(fills) = w
                     /\ \A j \in DOMAIN fills : fills[j] >= 0
        <3> DEFINE counts == LockCounts(st)
                   fills == Fills(w, counts)
        <3>1. counts \in [1 .. 2 -> Nat] /\ SumOfSeq(counts) # 0
            BY <1>0, <2>2, LockCountsSum
        <3> HIDE DEF counts
        <3>2. fills \in [1 .. 2 -> Nat] /\ SumOfSeq(fills) = w
            BY <2>0, <3>1, FillsOfTwo
        <3> HIDE DEF fills
        <3>3. \A j \in DOMAIN fills : fills[j] >= 0
            BY <3>2
        <3> QED BY <3>2, <3>3 DEF fills, counts
    <2>3. ASSUME MemoryDrawn(st), NEW real \in RssReadings
          PROVE  SumOfSeq(Fills(w, MemoryCounts(st, real))) = w
        <3> DEFINE counts == MemoryCounts(st, real)
        <3>1. real \in Nat /\ MemoryBudget(st) # 0
            BY <2>3, RssAssumption DEF MemoryDrawn
        <3>2. counts \in [1 .. 2 -> Nat] /\ SumOfSeq(counts) # 0
            BY <1>0, <3>1, MemoryCountsSum
        <3> HIDE DEF counts
        <3>3. SumOfSeq(Fills(w, counts)) = w
            BY <2>0, <3>2, FillsOfTwo
        <3> QED BY <3>3 DEF counts
    <2>4. st.total_pieces # 0 => SumOfSeq(CursorFills(w, CompletionCounts(st))) = w
        <3> DEFINE counts == CompletionCounts(st)
        <3>1. st.total_pieces # 0 => counts \in [1 .. 2 -> Nat] /\ SumOfSeq(counts) # 0
            BY <1>0, CompletionCountsSum
        <3> HIDE DEF counts
        <3>2. st.total_pieces # 0 => SumOfSeq(CursorFills(w, counts)) = w
            BY <2>0, <3>1, FillsOfTwo
        <3> QED BY <3>2 DEF counts
    <2> QED BY <2>1, <2>2, <2>3, <2>4
<1>2. Whole /\ ThreadBudget(st) # 0 => SumOfSeq(ThreadCounts(st)) = ThreadBudget(st)
    BY <1>0, BookedWithinBudget, ThreadCountsSum
<1>3. ASSUME Whole, out = << >>, pc = "wait", NEW real \in RssReadings
      PROVE  /\ MemoryScale(st, real) = AtLeast(AtLeast(MemMax, total_mem_cost), real)
             /\ MemMax \in MemoryLimits(st, real) <=>
                    total_mem_cost > MemMax \/ real > MemMax
    <2>1. st.mem_max = MemMax /\ EstimatedMemory(st) = total_mem_cost
        BY <1>3, MemoryOnceRead
    <2>2. MemMax \in Nat /\ MemMax # 0 /\ total_mem_cost \in Nat
        BY <1>0, BookFacts, CeilingAssumption, ProgramAssumption
           DEF TallyInv, EstInv, S!BudgetAssumption
    <2>3. real \in Nat
        BY <1>3, RssAssumption
    <2> DEFINE scale == AtLeast(AtLeast(MemMax, total_mem_cost), real)
    <2>4. MemoryScale(st, real) = scale
        BY <2>1, <2>2 DEF MemoryScale, MemoryBudget
    <2>5. MemMax \in MemoryLimits(st, real) <=> MemMax < scale
        BY <2>1, <2>2, <2>4 DEF MemoryLimits
    <2>6. MemMax < scale <=> total_mem_cost > MemMax \/ real > MemMax
        BY <2>2, <2>3 DEF AtLeast
    <2> QED BY <2>4, <2>5, <2>6
<1>4. st.total_pieces # 0 /\ CompletionCounts(st)[2] = 0 => st.done
    BY <1>0, CompletionCountsSum
<1> QED BY <1>1, <1>2, <1>3, <1>4 DEF BarsTrue

\* Every bar is true to what it is drawn from (render_bar and the rows drawn with it,
\* dashboard.py:1669-1719, 1809-2071): it has its cells, one at least for whatever
\* there is any of; in a run none of whose lines was lost the threads bar stands for
\* the threads of the machine, because every entry that is shown has a slot that its
\* threads were booked in, also while lines of launches, donations and ends are still to
\* be read; the memory bar, once the scheduler waits and its lines are read, is
\* stretched past the ceiling just by what is booked, or measured of the workers,
\* beyond it, and mem_max is ruled on it just then; and the completion bar is full only
\* at the end.
THEOREM BarsAreTrue == Spec => []BarsTrue
<1>1. BarInv => BarsTrue
    BY BarIsTrue
<1>2. Init => BarInv
    BY InitBar
<1>3. BarInv /\ [Next]_vars => BarInv'
    BY NextBar
<1> QED BY <1>1, <1>2, <1>3, PTL DEF Spec

=============================================================================
