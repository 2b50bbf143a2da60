--------------------------------- MODULE Join ---------------------------------
(***************************************************************************)
(* The cache files of lib/big and the workers that write them.  A leaf     *)
(* evaluates its piece and saves it; a join multiplies its children's P, Q *)
(* and R term by term, committing each result to its own file as it goes,  *)
(* with the first half of R checkpointed aside, so that a join that died   *)
(* is resumed where it stopped.  A number is exact (sig, kept in pieces/)  *)
(* or of fixed precision (union, kept in numbers/).  Every load and write  *)
(* is made under one lock on the disk.  Workers and the whole program may  *)
(* die between any two steps.                                              *)
(*                                                                         *)
(* The scheduler is kept to what module Scheduler shows of it: a node is   *)
(* started when the walk of a run reaches it, once, with its inputs there. *)
(***************************************************************************)
EXTENDS Integers, FiniteSets, Sequences

CONSTANTS
    Node,           \* the positions of the tree's nodes, as in Scheduler
    Span,           \* those of a power of two indices, the leaves among them
    SigFits,        \* those whose children's P is shorter than the run's size
    Shared,         \* pieces other runs may have left, whole or half made
    KeepPieces,     \* KEEP_PIECES
    Worker,
    NoWorker,       \* nobody holds the disk lock
    NoNode,
    NoFile,
    MaxFailures     \* bound: worker deaths and crashes of the whole program

Root == << >>

Kids(n) == {Append(n, 0), Append(n, 1)} \cap Node

IsLeaf(n) == Kids(n) = {}

Above(n) == {SubSeq(n, 1, k) : k \in 0 .. Len(n) - 1}

ASSUME NodeAssumption ==
    /\ Node \subseteq Seq({0, 1})
    /\ Root \in Node
    /\ \A n \in Node : /\ Above(n) \subseteq Node
                       /\ Append(n, 0) \in Node <=> Append(n, 1) \in Node
ASSUME SpanAssumption ==
    /\ Span \subseteq Node
    /\ \A n \in Node : IsLeaf(n) => n \in Span
    /\ \A n \in Span : Kids(n) \subseteq Span
    /\ SigFits \subseteq Span /\ Shared \subseteq Span
ASSUME KeepAssumption == KeepPieces \in BOOLEAN
ASSUME OthersAssumption ==
    NoWorker \notin Worker /\ NoNode \notin Node /\ MaxFailures \in Nat

Forms == {"sig", "union"}

VARIABLES
    file,   \* the result files: the numbers committed, and MAGIC_FILE
    part,   \* the checkpoints of P1xR2 under cache/tmp
    lock,   \* who holds cache/disk.lock
    w,      \* each worker: its node, form, step, term, operands, lock_held
    down,   \* the scheduler has trapped or the program was stopped
    failures

vars == <<file, part, lock, w, down, failures>>

-----------------------------------------------------------------------------
(* Files.  A number is known by the term it is the result of.              *)

Numbers == <<"P", "Q", "R">>

Empty == [body |-> << >>, magic |-> FALSE]

\* What a result file and a checkpoint may hold.
File == [body: {SubSeq(Numbers, 1, k) : k \in 0 .. 3}, magic: BOOLEAN]
Part == {Empty, [body |-> <<"part">>, magic |-> TRUE]}

ASSUME FileAssumption == NoFile \notin File \cup Part

\* file_read_open finds a file with its MAGIC_FILE.
IsWhole(f) == f # NoFile /\ f.magic

SigIsStored(n) == IsWhole(file[n]["sig"])

\* split_span_res_is_stored, split_big_res_is_stored: only a span may be sig.
IsStored(n) == (n \in Span /\ SigIsStored(n)) \/ IsWhole(file[n]["union"])

\* The form a child is read in: sig first.
StoredForm(n) == IF n \in Span /\ SigIsStored(n) THEN "sig" ELSE "union"

Load(n, index) == file[n][StoredForm(n)].body[index]

-----------------------------------------------------------------------------
(* The terms of a join, in the order the code runs them: three products    *)
(* to store, the last product, and the sum that makes R.                   *)

Left  == <<"P", "Q", "P", "R", "part">>
Right == <<"P", "Q", "R", "Q", "rest">>

Index(number) == CHOOSE k \in 1 .. 3 : Numbers[k] = number

\* What multiplying or adding two numbers makes; none of the code's other
\* combinations is a number of the series.
Combine(x, y) ==
    CASE <<x, y>> = <<"P", "P">> -> "P"
      [] <<x, y>> = <<"Q", "Q">> -> "Q"
      [] <<x, y>> = <<"P", "R">> -> "part"
      [] <<x, y>> = <<"R", "Q">> -> "rest"
      [] <<x, y>> = <<"part", "rest">> -> "R"
      [] OTHER -> "wrong"

\* Mutant: the last number committed is made again.
NextTermAgain(term, count, part_stored) ==
    IF count = 3 THEN 6
    ELSE CHOOSE k \in term .. 4 :
            LET Pending(t) == CASE t \in 1 .. 2 -> count <= t
                                [] t = 3 -> ~part_stored
                                [] t = 4 -> TRUE
            IN  Pending(k) /\ \A t \in term .. k - 1 : ~Pending(t)

\* The first term from term on that a resumed join still has to do; 6 is none.
NextTerm(term, count, part_stored) ==
    IF count = 3 THEN 6
    ELSE CHOOSE k \in term .. 4 :
            LET Pending(t) == CASE t \in 1 .. 2 -> count < t
                                [] t = 3 -> ~part_stored
                                [] t = 4 -> TRUE
            IN  Pending(k) /\ \A t \in term .. k - 1 : ~Pending(t)

-----------------------------------------------------------------------------
(* Workers.                                                                *)

Idle == [node |-> NoNode, form |-> "sig", at |-> "idle", term |-> 0,
         x |-> "none", y |-> "none", lock_held |-> FALSE]

Busy == {j \in Worker : w[j].at # "idle"}

\* Mutants: one input is enough; a node with a file is left alone, though its
\* join died; a node's own result is not looked for.
StartableEither(n) ==
    /\ \A m \in Above(n) \cup {n} : ~IsStored(m)
    /\ IsLeaf(n) \/ \E k \in Kids(n) : IsStored(k)
    /\ \A j \in Busy : w[j].node \notin Kids(n) \cup {n}
StartableNew(n) ==
    /\ \A m \in Above(n) \cup {n} : ~IsStored(m)
    /\ \A f \in Forms : file[n][f] = NoFile
    /\ \A k \in Kids(n) : IsStored(k)
    /\ \A j \in Busy : w[j].node \notin Kids(n) \cup {n}
StartableAgain(n) ==
    /\ \A m \in Above(n) : ~IsStored(m)
    /\ \A k \in Kids(n) : IsStored(k)
    /\ \A j \in Busy : w[j].node \notin Kids(n) \cup {n}

\* The walk reaches n in a run that found the cache as it is, n is ready, nobody
\* is processing it, and its children's workers have exited: a child counts as
\* done from then on.
Startable(n) ==
    /\ \A m \in Above(n) \cup {n} : ~IsStored(m)
    /\ \A k \in Kids(n) : IsStored(k)
    /\ \A j \in Busy : w[j].node \notin Kids(n) \cup {n}

Start(j, n) ==
    /\ w[j].at = "idle"
    /\ ~down
    /\ Startable(n)
    /\ w' = [w EXCEPT ![j] = [Idle EXCEPT !.node = n,
                                         !.at = IF IsLeaf(n) THEN "create"
                                                ELSE "open"]]
    /\ UNCHANGED <<file, part, lock, down, failures>>

\* split_span_res_is_sig, and the form of every other join.
JoinForm(n) ==
    IF n \in SigFits /\ \A k \in Kids(n) : SigIsStored(k) THEN "sig" ELSE "union"

\* Where a join goes on to from a term on.
GoTo(self, term, f, p) ==
    LET next == NextTerm(term, Len(f.body), IsWhole(p))
    IN  [self EXCEPT !.term = next, !.at = IF next = 6 THEN "drop" ELSE "load"]

\* Mutant: the file is truncated.
OpenFresh(j) ==
    LET n    == w[j].node
        form == JoinForm(n)
    IN  /\ w[j].at = "open"
        /\ file' = [file EXCEPT ![n][form] = Empty]
        /\ w' = [w EXCEPT ![j] = GoTo([@ EXCEPT !.form = form], 1, Empty,
                                      part[n][form])]
        /\ UNCHANGED <<part, lock, down, failures>>

\* file_write_open_resume: what an earlier run committed is kept.
Open(j) ==
    LET n    == w[j].node
        form == JoinForm(n)
        f    == IF file[n][form] = NoFile THEN Empty ELSE file[n][form]
    IN  /\ w[j].at = "open"
        /\ file' = [file EXCEPT ![n][form] = f]
        /\ w' = [w EXCEPT ![j] = GoTo([@ EXCEPT !.form = form], 1, f,
                                      part[n][form])]
        /\ UNCHANGED <<part, lock, down, failures>>

\* Mutant: an flock that would block is taken for one that succeeded.
AcquireUnchecked(j) ==
    /\ w[j].at \in {"create", "load", "write"}
    /\ ~w[j].lock_held
    /\ lock' = j
    /\ w' = [w EXCEPT ![j].lock_held = TRUE]
    /\ UNCHANGED <<file, part, down, failures>>

\* LOCK_ACQUIRE, which a task that has kept the lock passes over.
Acquire(j) ==
    /\ w[j].at \in {"create", "load", "write"}
    /\ ~w[j].lock_held
    /\ lock = NoWorker
    /\ lock' = j
    /\ w' = [w EXCEPT ![j].lock_held = TRUE]
    /\ UNCHANGED <<file, part, down, failures>>

\* Both operands of a term: for terms 1 to 4 from the two children, for the sum
\* the checkpoint, the other addend being in memory.
Readable(j) ==
    LET n == w[j].node
    IN  IF w[j].term = 5 THEN IsWhole(part[n][w[j].form])
        ELSE \A k \in Kids(n) : IsStored(k)

LoadPair(j) ==
    LET n == w[j].node
        t == w[j].term
        x == IF t = 5 THEN part[n][w[j].form].body[1]
             ELSE Load(Append(n, 0), Index(Left[t]))
        y == IF t = 5 THEN w[j].x ELSE Load(Append(n, 1), Index(Right[t]))
    IN  /\ w[j].at = "load"
        /\ w[j].lock_held
        /\ Readable(j)
        /\ lock' = NoWorker
        /\ w' = [w EXCEPT ![j] = [@ EXCEPT !.x = x, !.y = y, !.at = "mul",
                                           !.lock_held = FALSE]]
        /\ UNCHANGED <<file, part, down, failures>>

\* The product, or for term 5 the sum.  Term 4's stays in memory.
Multiply(j) ==
    LET self == [w[j] EXCEPT !.x = Combine(@, w[j].y), !.y = "none"]
    IN  /\ w[j].at = "mul"
        /\ w' = [w EXCEPT ![j] =
                    IF w[j].term = 4 THEN [self EXCEPT !.term = 5, !.at = "load"]
                    ELSE [self EXCEPT !.at = IF w[j].term = 3 THEN "create"
                                             ELSE "write"]]
        /\ UNCHANGED <<file, part, lock, down, failures>>

\* LOG_WRITE_HOLD after P and Q, LOG_WRITE after R.
WriteNumber(j) ==
    LET n    == w[j].node
        form == w[j].form
        f    == [file[n][form] EXCEPT !.body = Append(@, w[j].x)]
        self == [w[j] EXCEPT !.x = "none", !.lock_held = w[j].term < 5]
    IN  /\ w[j].at = "write"
        /\ w[j].term \in {1, 2, 5}
        /\ w[j].lock_held
        /\ file' = [file EXCEPT ![n][form] = f]
        /\ lock' = IF w[j].term = 5 THEN NoWorker ELSE lock
        /\ w' = [w EXCEPT ![j] = GoTo(self, w[j].term + 1, f, part[n][form])]
        /\ UNCHANGED <<part, down, failures>>

\* file_write_open of a file written in one go, a leaf's or a checkpoint's:
\* until its MAGIC_FILE is there nothing of it can be read.
Create(j) ==
    LET n == w[j].node
    IN  /\ w[j].at = "create"
        /\ w[j].lock_held
        /\ IF IsLeaf(n)
           THEN file' = [file EXCEPT ![n]["sig"] = Empty] /\ UNCHANGED part
           ELSE part' = [part EXCEPT ![n][w[j].form] = Empty] /\ UNCHANGED file
        /\ w' = [w EXCEPT ![j].at = "write"]
        /\ UNCHANGED <<lock, down, failures>>

\* sig_res_save, under LOG_WRITE; the leaf is done.
SavePiece(j) ==
    LET n == w[j].node
    IN  /\ w[j].at = "write"
        /\ IsLeaf(n)
        /\ file' = [file EXCEPT ![n]["sig"] = [body |-> Numbers, magic |-> TRUE]]
        /\ lock' = NoWorker
        /\ w' = [w EXCEPT ![j] = Idle]
        /\ UNCHANGED <<part, down, failures>>

\* sig_r_part_save, union_r_part_save, under LOG_WRITE_HOLD.
SavePart(j) ==
    LET n == w[j].node
        p == [body |-> <<w[j].x>>, magic |-> TRUE]
    IN  /\ w[j].at = "write"
        /\ w[j].term = 3
        /\ part' = [part EXCEPT ![n][w[j].form] = p]
        /\ w' = [w EXCEPT ![j] = [@ EXCEPT !.x = "none", !.term = 4,
                                           !.at = "load"]]
        /\ UNCHANGED <<file, lock, down, failures>>

\* Mutant: the checkpoint is left to be written over.
DropNothing(j) ==
    /\ w[j].at = "drop"
    /\ w' = [w EXCEPT ![j].at = "close"]
    /\ UNCHANGED <<file, part, lock, down, failures>>

\* R is committed: the checkpoint goes before the file gets its MAGIC_FILE.
DropPart(j) ==
    /\ w[j].at = "drop"
    /\ part' = [part EXCEPT ![w[j].node][w[j].form] = NoFile]
    /\ w' = [w EXCEPT ![j].at = "close"]
    /\ UNCHANGED <<file, lock, down, failures>>

\* file_write_close.
Close(j) ==
    /\ w[j].at = "close"
    /\ file' = [file EXCEPT ![w[j].node][w[j].form].magic = TRUE]
    /\ w' = [w EXCEPT ![j].at = "delete left"]
    /\ UNCHANGED <<part, lock, down, failures>>

\* What is left of a child's files: a sig join removes the sig file outright, a
\* union join both, the sig one only without KEEP_PIECES.
Deleted(child, form) ==
    LET sig_goes == child \in Span /\ (form = "sig" \/ ~KeepPieces)
    IN  [sig   |-> IF sig_goes THEN NoFile ELSE file[child]["sig"],
         union |-> IF form = "union" THEN NoFile ELSE file[child]["union"]]

Delete(j, index, at, self) ==
    LET child == Append(w[j].node, index)
    IN  /\ w[j].at = at
        /\ file' = [file EXCEPT ![child] = Deleted(child, w[j].form)]
        /\ w' = [w EXCEPT ![j] = self]
        /\ UNCHANGED <<part, lock, down, failures>>

\* Mutant: the inputs go before the file is closed.
DeleteEarly(j) == Delete(j, 0, "close", [w[j] EXCEPT !.at = "delete right"])

DeleteLeft(j) == Delete(j, 0, "delete left", [w[j] EXCEPT !.at = "delete right"])

\* The second one, and the worker exits.
DeleteRight(j) == Delete(j, 1, "delete right", Idle)

WorkerStep(j) ==
    \/ Open(j) \/ Acquire(j) \/ LoadPair(j) \/ Multiply(j) \/ WriteNumber(j)
    \/ Create(j) \/ SavePiece(j) \/ SavePart(j) \/ DropPart(j) \/ Close(j)
    \/ DeleteLeft(j) \/ DeleteRight(j)

-----------------------------------------------------------------------------
(* Failures and a new start.  A process that ends gives up its flock.      *)

\* A worker dies, and the scheduler traps; the others run on.
Die(j) ==
    /\ j \in Busy
    /\ failures < MaxFailures
    /\ w' = [w EXCEPT ![j] = Idle]
    /\ lock' = IF lock = j THEN NoWorker ELSE lock
    /\ down' = TRUE
    /\ failures' = failures + 1
    /\ UNCHANGED <<file, part>>

Crash ==
    /\ Busy # {}
    /\ failures < MaxFailures
    /\ w' = [j \in Worker |-> Idle]
    /\ lock' = NoWorker
    /\ down' = TRUE
    /\ failures' = failures + 1
    /\ UNCHANGED <<file, part>>

\* The program is started again, once no worker of the last run is left.
Restart ==
    /\ down
    /\ Busy = {}
    /\ down' = FALSE
    /\ UNCHANGED <<file, part, lock, w, failures>>

Finished == IsStored(Root) /\ Busy = {} /\ ~down

Done == Finished /\ UNCHANGED vars

-----------------------------------------------------------------------------

\* What another run may have left of a piece of its own.
LeftBehind == {NoFile, [body |-> Numbers, magic |-> TRUE]} \cup
         {[body |-> SubSeq(Numbers, 1, k), magic |-> FALSE] : k \in {0, 2}}

Init ==
    /\ \E pieces \in [Shared -> LeftBehind] :
        file = [n \in Node |->
                    [sig   |-> IF n \in Shared THEN pieces[n] ELSE NoFile,
                     union |-> NoFile]]
    /\ part = [n \in Node |-> [f \in Forms |-> NoFile]]
    /\ lock = NoWorker
    /\ w = [j \in Worker |-> Idle]
    /\ down = FALSE
    /\ failures = 0

Next ==
    \/ \E j \in Worker, n \in Node : Start(j, n)
    \/ \E j \in Worker : WorkerStep(j) \/ Die(j)
    \/ Crash
    \/ Restart
    \/ Done

Spec == Init /\ [][Next]_vars

\* A worker only ever waits for the disk lock, the scheduler starts what it can
\* when it can (WaitHasWorker and Finishes of Scheduler), and a run that went
\* down is started again.
Fairness ==
    /\ \A j \in Worker : WF_vars(WorkerStep(j))
    /\ WF_vars(\E j \in Worker, n \in Node : Start(j, n))
    /\ WF_vars(Restart)

FairSpec == Spec /\ Fairness

-----------------------------------------------------------------------------
(* Properties.                                                             *)

\* Every variable has its type; a result file holds a prefix of P, Q, R, each
\* the product or sum the series needs, in that order.
TypeOK ==
    /\ file \in [Node -> [Forms -> File \cup {NoFile}]]
    /\ part \in [Node -> [Forms -> Part \cup {NoFile}]]
    /\ lock \in Worker \cup {NoWorker}
    /\ \A j \in Worker :
        /\ w[j].node \in Node \cup {NoNode}
        /\ w[j].form \in Forms
        /\ w[j].term \in 0 .. 6
        /\ w[j].lock_held \in BOOLEAN
    /\ down \in BOOLEAN
    /\ failures \in 0 .. MaxFailures

\* A file that reads as complete has all three of P, Q and R, and its
\* checkpoint is gone: no crash leaves a node that is complete while the
\* checkpoint survives (lib/big/code.c:827-830).
CompleteIsWhole ==
    \A n \in Node, f \in Forms :
        IsWhole(file[n][f]) => /\ file[n][f].body = Numbers
                               /\ part[n][f] = NoFile

\* A load never finds its operand missing: neither a child's file, although
\* joins delete their children, nor the checkpoint (the asserts of sig_res_load,
\* union_res_load and the part loads, lib/big/code.c:176, 275, 363, 419).
LoadsSucceed == \A j \in Worker : w[j].at = "load" => Readable(j)

\* lock_held says what flock would, through every order in which terms are
\* resumed; nobody multiplies with the disk locked, and nobody keeps it when
\* he is done (lib/big/code.c:635-638, 533-536).
LockDiscipline ==
    \A j \in Worker :
        /\ w[j].lock_held <=> lock = j
        /\ w[j].at \in {"mul", "drop", "close", "idle"} => lock # j

\* Only one of the two forms of a node's result exists, which is why one remove
\* of each path deletes it and sig may be tried first when it is loaded
\* (lib/big/code.c:446).
OneForm ==
    \A n \in Node : ~(IsWhole(file[n]["sig"]) /\ IsWhole(file[n]["union"]))

\* What a join has committed is never written again: until the file goes as a
\* whole, its numbers only grow, through deaths and resumed joins, and a
\* checkpoint that can be read stays until R is there (sig_res_open_resume,
\* lib/big/code.c:122-129, 325-326).
CommittedKept ==
    [][\A n \in Node, f \in Forms :
        /\ ~IsLeaf(n) /\ file[n][f] # NoFile /\ file'[n][f] # NoFile =>
                /\ Len(file'[n][f].body) >= Len(file[n][f].body)
                /\ IsWhole(file[n][f]) => IsWhole(file'[n][f])
        /\ IsWhole(part[n][f]) =>
                \/ part'[n][f] = part[n][f]
                \/ file[n][f] # NoFile /\ file[n][f].body = Numbers]_vars

\* The root's result is there in the end and every worker is done, through a
\* bounded number of deaths and new starts, with the disk lock fought over.
Finishes == <>Finished

\* The files' comings and goings are those of the abstract cache of results.
Cache == INSTANCE ResultCache WITH stored <- {n \in Node : IsStored(n)}
CacheRefined == Cache!Spec

\* What README.md:245-246 says of a build without KEEP_PIECES, that the run then
\* keeps only what it is still working on: at its end no input of a join that is
\* complete is left.
NoLeftovers ==
    ~KeepPieces /\ Finished => \A n \in Node \ {Root} : ~IsStored(n)

\* What README.md:244-245 says of a build with KEEP_PIECES, that a join leaves its
\* children in pieces/ for the next run to reuse.
PiecesLeft ==
    [][KeepPieces => \A n \in Node : SigIsStored(n) => SigIsStored(n)']_vars

=============================================================================
