------------------------------ MODULE Monitor ------------------------------
(***************************************************************************)
(* dashboard.py beside run.sh: the loop that follows thread_log/run.log    *)
(* while runs are started over it, wiped or appended to, and the program   *)
(* is killed or ends.  tee writes the log piece by piece and a read sees   *)
(* what is there, so a record may come in parts; the file may be replaced  *)
(* between any two steps of the loop; and the process is polled for aside  *)
(* from what its log says.                                                 *)
(*                                                                         *)
(* The text of a file is a sequence of parts: newlines, markers and the    *)
(* two halves of a record, the second with the tab that ends it.           *)
(***************************************************************************)
EXTENDS Integers, SequencesExt

CONSTANTS
    Config,         \* what src/main.c may be, and so what a run logs of itself
    Outcomes,       \* the record a run logs last, of "end" and "trap"
    MaxRuns         \* bound: the runs that are started

ASSUME MaxRunsAssumption == MaxRuns \in Nat \ {0}
ASSUME OutcomesAssumption == Outcomes \subseteq {"end", "trap"}

NoConfig == "no config"
NoRecord == "no record"

\* Configurations only matter as they differ: the first run has this one.
First == CHOOSE config \in Config : TRUE

VARIABLES
    script,         \* run.sh: where it is, with which configuration
    running,        \* a pi process exists
    unwritten,      \* what tee has still to write, as its reads cut it
    path,           \* the inode thread_log/run.log names, or 0
    file,           \* what each inode made so far holds
    runs,           \* runs started
    excused,        \* --force was given, or the log had no marker to compare
    pc, found, inode, f, pos, pending, yields,  \* tail
    ds              \* the State, as far as the loop itself reads it

program == <<script, running, unwritten, path, file, runs, excused>>
tail    == <<pc, found, inode, f, pos, pending, yields>>
vars    == <<program, tail, ds>>

-----------------------------------------------------------------------------
(* Text.                                                                   *)

Part(kind, rec, config) == [kind |-> kind, rec |-> rec, config |-> config]

NewLine == Part("newline", NoRecord, NoConfig)

\* tprintf: a newline first, and a tab at the end of the second half.  tee may find
\* the pipe cut between the halves.
RecordPieces(rec, config) ==
    << <<NewLine, Part("head", rec, config)>>, <<Part("tail", rec, config)>> >>

MarkerText(config) == <<NewLine, Part("marker", NoRecord, config), NewLine>>

RunPieces(config, outcome) ==
    RecordPieces("config", config) \o RecordPieces(outcome, config)

IsMarker(part) == part.kind = "marker"

\* A record is whole where its second half has come after its first.
EndsRecord(text, j) ==
    /\ j > 1
    /\ text[j].kind = "tail"
    /\ text[j - 1] = [text[j] EXCEPT !.kind = "head"]

\* The records that are whole in a text, as feed_line sees them: a half alone
\* matches no handler's expression.
Records(text) ==
    LET upTo[j \in 0 .. Len(text)] ==
            IF j = 0 THEN << >>
            ELSE IF EndsRecord(text, j) THEN Append(upTo[j - 1], text[j])
            ELSE upTo[j - 1]
    IN  upTo[Len(text)]

-----------------------------------------------------------------------------
(* run.sh and the program.                                                 *)

\* The id in the last marker of the log (sed ... | tail -1).
LastId(text) == LET j == SelectLastInSeq(text, IsMarker)
                IN  IF j = 0 THEN NoConfig ELSE text[j].config

KeepAllowed(config, force) ==
    \/ LastId(file[path]) \in {NoConfig, config}
    \/ force

\* run.sh comes to its marker: over the log that is there, or with none left.
StartScript(config, keep, force) ==
    /\ script.at = "idle"
    /\ runs < MaxRuns
    /\ runs = 0 => config = First
    /\ IF keep /\ path # 0
       THEN /\ KeepAllowed(config, force)
            /\ excused' = (excused \/ force \/ LastId(file[path]) = NoConfig)
            /\ UNCHANGED path
       ELSE /\ path' = 0
            /\ excused' = FALSE
    /\ script' = [at |-> "marker", config |-> config]
    /\ runs' = runs + 1
    /\ UNCHANGED <<running, unwritten, file>>

WriteMarker ==
    /\ script.at = "marker"
    /\ IF path # 0
       THEN /\ file' = [file EXCEPT ![path] = @ \o MarkerText(script.config)]
            /\ UNCHANGED path
       ELSE /\ file' = Append(file, MarkerText(script.config))
            /\ path' = Len(file) + 1
    /\ script' = [script EXCEPT !.at = "build"]
    /\ UNCHANGED <<running, unwritten, runs, excused>>

\* make build fails, or the program starts with tee behind it.
Build ==
    /\ script.at = "build"
    /\ \/ /\ script' = [script EXCEPT !.at = "idle"]
          /\ UNCHANGED <<running, unwritten>>
       \/ /\ script' = [script EXCEPT !.at = "run"]
          /\ running' = TRUE
          /\ \E outcome \in Outcomes :
                unwritten' = RunPieces(script.config, outcome)
    /\ UNCHANGED <<path, file, runs, excused>>

Tee ==
    /\ unwritten # << >>
    /\ file' = [file EXCEPT ![path] = @ \o Head(unwritten)]
    /\ unwritten' = Tail(unwritten)
    /\ UNCHANGED <<script, running, path, runs, excused>>

\* The program ends, with what is left in the pipe for tee to write, or is killed
\* short of what it was about to log.
ProgramEnds ==
    /\ running
    /\ running' = FALSE
    /\ unwritten' \in {unwritten, << >>}
    /\ UNCHANGED <<script, path, file, runs, excused>>

ScriptEnds ==
    /\ script.at = "run"
    /\ ~running
    /\ unwritten = << >>
    /\ script' = [script EXCEPT !.at = "idle"]
    /\ UNCHANGED <<running, unwritten, path, file, runs, excused>>

ProgramStep ==
    /\ \/ \E config \in Config, keep, force \in BOOLEAN :
            StartScript(config, keep, force)
       \/ WriteMarker
       \/ Build
       \/ Tee
       \/ ProgramEnds
       \/ ScriptEnds
    /\ UNCHANGED <<tail, ds>>

-----------------------------------------------------------------------------
(* tail, from one yield to the next.                                       *)

Restarted  == [what |-> "restarted", line |-> << >>]
Nothing    == [what |-> "nothing", line |-> << >>]
Line(text) == [what |-> "line", line |-> text]

Tailing(at) == pc = at /\ yields = << >>

Stat ==
    /\ Tailing("stat")
    /\ IF path = 0
       THEN /\ yields' = IF f # 0 THEN <<Restarted, Nothing>> ELSE <<Nothing>>
            /\ f' = 0
            /\ inode' = 0
            /\ pos' = 0
            /\ pending' = << >>
            /\ UNCHANGED <<pc, found>>
       ELSE /\ IF f = 0 \/ path # inode
               THEN pc' = "open" /\ found' = path
               ELSE pc' = "read" /\ UNCHANGED found
            /\ UNCHANGED <<yields, f, inode, pos, pending>>

\* The file may have gone, or been replaced, since stat; nothing catches the
\* error of an open that finds no file.
Open ==
    /\ Tailing("open")
    /\ IF path = 0
       THEN /\ pc' = "crashed"
            /\ UNCHANGED <<found, inode, f, pos, pending, yields>>
       ELSE /\ f' = path
            /\ inode' = found
            /\ pos' = 0
            /\ pending' = << >>
            /\ yields' = <<Restarted>>
            /\ pc' = "read"
            /\ found' = 0

\* readline: up to a newline, or to all there is.
Chunk == LET rest == SubSeq(file[f], pos + 1, Len(file[f]))
             j    == SelectInSeq(rest, LAMBDA part : part = NewLine)
         IN  IF j = 0 THEN rest ELSE SubSeq(rest, 1, j)

\* Mutants: whatever was read is a record; only a newline ends one.
ReadIsWhole(text) == TRUE
NewLineEnds(text) == Last(text) = NewLine

Complete(text) == Last(text) = NewLine \/ Last(text).kind = "tail"

Read ==
    /\ Tailing("read")
    /\ IF Chunk = << >>
       THEN yields' = <<Nothing>> /\ UNCHANGED <<pos, pending>>
       ELSE /\ pos' = pos + Len(Chunk)
            /\ IF Complete(pending \o Chunk)
               THEN yields' = <<Line(pending \o Chunk)>> /\ pending' = << >>
               ELSE pending' = pending \o Chunk /\ UNCHANGED yields
    /\ pc' = "stat"
    /\ UNCHANGED <<found, inode, f>>

TailStep == (Stat \/ Open \/ Read) /\ UNCHANGED <<program, ds>>

-----------------------------------------------------------------------------
(* The body of main's loop.                                                *)

NewState(prev_config) ==
    [fed |-> << >>, config |-> NoConfig, prev_config |-> prev_config,
     config_diff |-> FALSE, done |-> FALSE, task_exit |-> FALSE,
     process_running |-> FALSE, ever_saw_process |-> FALSE,
     process_gone |-> "no"]

Fed(s, r) ==
    LET s1 == [s EXCEPT !.fed = Append(@, r.rec)]
    IN  CASE r.rec = "config" ->
                [s1 EXCEPT !.config = r.config,
                           !.config_diff = @ \/ s.prev_config \notin {NoConfig, r.config}]
          [] r.rec = "end"  -> [s1 EXCEPT !.done = TRUE]
          [] r.rec = "trap" -> [s1 EXCEPT !.task_exit = TRUE]

\* A state that is done is never polled for its process again.
Polled(s) ==
    IF s.done THEN s
    ELSE [s EXCEPT
            !.process_running = running,
            !.ever_saw_process = @ \/ running,
            !.process_gone = IF running THEN "no" ELSE IF @ = "no" THEN "now" ELSE @]

\* render_status_screen
StatusScreen(s) ==
    IF ~s.ever_saw_process THEN "waiting"
    ELSE IF s.task_exit THEN "trapped"
    ELSE IF s.done THEN "finished" ELSE "never finished"

\* What the frame render makes of a state says of the run.
Frame(s) ==
    IF ~s.ever_saw_process
       \/ (~s.process_running /\ ~s.done /\ s.process_gone # "now")
    THEN StatusScreen(s)
    ELSE IF s.done THEN "done" ELSE "panel"

\* A file that was replaced, or a run's marker, begins a new State, which knows
\* the run before it only across a marker.
Boundary(y) ==
    /\ y.what = "restarted" \/ \E j \in DOMAIN y.line : IsMarker(y.line[j])
    /\ ds' = NewState(IF y.what = "line" THEN ds.config ELSE NoConfig)

\* Any other yield is fed; a frame is drawn, and the process polled for it, when a
\* second has passed since the last or a key asks for one.
Body(y, drawn) ==
    LET s == FoldLeft(Fed, ds, Records(y.line))
    IN  /\ y.what # "restarted" /\ \A j \in DOMAIN y.line : ~IsMarker(y.line[j])
        /\ ds' = IF drawn THEN Polled(s) ELSE s

Takes(step) ==
    /\ yields # << >>
    /\ step
    /\ yields' = Tail(yields)
    /\ UNCHANGED <<program, pc, found, inode, f, pos, pending>>

Draws == Takes(Body(Head(yields), TRUE))

Main == \/ Takes(Boundary(Head(yields)))
        \/ Takes(Body(Head(yields), FALSE))
        \/ Draws

\* The grace a process is given to be heard of passes.
Grace ==
    /\ ds.process_gone = "now"
    /\ ds' = [ds EXCEPT !.process_gone = "past"]
    /\ UNCHANGED <<program, tail>>

-----------------------------------------------------------------------------

\* There is no log yet, or one of a build that wrote no markers.
Init ==
    /\ script = [at |-> "idle", config |-> NoConfig]
    /\ running = FALSE
    /\ unwritten = << >>
    /\ \/ path = 0 /\ file = << >> /\ runs = 0
       \/ /\ path = 1 /\ runs = 1
          /\ LET pieces == RecordPieces("config", First)
             IN  file = <<pieces[1] \o pieces[2]>>
    /\ excused = FALSE
    /\ pc = "stat" /\ found = 0 /\ inode = 0 /\ f = 0 /\ pos = 0
    /\ pending = << >> /\ yields = << >>
    /\ ds = NewState(NoConfig)

Next == ProgramStep \/ TailStep \/ Main \/ Grace

\* The loop never waits for anything: it yields at least every 0.3 seconds and draws
\* once a second, whatever it is fed; and time passes.  run.sh, the program and tee
\* may stop wherever they are.
Spec ==
    /\ Init /\ [][Next]_vars
    /\ WF_vars(TailStep \/ Main)
    /\ SF_vars(Draws)
    /\ WF_vars(Grace)

-----------------------------------------------------------------------------
(* Properties.                                                             *)

\* The text from the last marker on, and from the one before it up to there.
LastRun(text) == SubSeq(text, SelectLastInSeq(text, IsMarker) + 1, Len(text))

RunBefore(text) == LET j == SelectLastInSeq(text, IsMarker)
                   IN  IF j = 0 THEN << >> ELSE LastRun(SubSeq(text, 1, j - 1))

ConfigIn(text) == IF Records(text) = << >> THEN NoConfig ELSE Records(text)[1].config

\* What the dashboard has been fed is what the log it has read says of its last
\* run: each record whole and once, however tee and the reads cut it, the last one
\* without waiting for the next, and nothing of an earlier run or file but the
\* configuration it was preceded by.  The warning that this one differs then only
\* ever follows an append that was forced, or one over a log with no marker
\* (tail and main, dashboard.py:2261-2312, 2490-2505; run.sh:22-32).
FedExact ==
    /\ yields = << >> /\ f # 0 =>
        LET text == SubSeq(file[f], 1, pos)
        IN  /\ ds.fed = [j \in DOMAIN Records(LastRun(text)) |->
                            Records(LastRun(text))[j].rec]
            /\ ds.config = ConfigIn(LastRun(text))
            /\ ds.prev_config = ConfigIn(RunBefore(text))
    /\ yields = << >> /\ f = path /\ ds.config_diff => excused

Said(rec) == path # 0 /\ \E j \in DOMAIN Records(LastRun(file[path])) :
                            Records(LastRun(file[path]))[j].rec = rec

\* What a frame would say if it knew everything, of a run it saw the process of.
Truth == IF ~ds.ever_saw_process THEN "waiting"
         ELSE IF Said("end") THEN "done"
         ELSE IF running THEN "panel"
         ELSE IF Said("trap") THEN "trapped" ELSE "never finished"

\* Whatever order the log, the process and the file's replacement were noticed in,
\* the screen comes to say what became of the last run, and says so from then on: a
\* run that finished is not reported dead because its process was missed first
\* (main and render_status_screen, dashboard.py:1634-1649, 2074-2080, 2513-2529).
EventuallyTold == <>[](pc = "crashed" \/ Frame(ds) = Truth)

=============================================================================
