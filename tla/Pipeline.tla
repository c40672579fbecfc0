-------------------------------- MODULE Pipeline --------------------------------
(***************************************************************************)
(* The recipes of host/Makefile with the files they leave: a harness       *)
(* process piped through tee into a log, parse_log_to_table.sh from the    *)
(* log to a summary, sort_table.sh from the summary to a sorted one.       *)
(*                                                                         *)
(* The four programs agree on the files only by building the same names.   *)
(* make is run with one backend and mode after another, with -j or         *)
(* without, and killed at any moment; the files stay.                      *)
(***************************************************************************)
EXTENDS Integers, Sequences, SequencesExt

CONSTANTS
    Target,     \* the run targets: block_<operation> and epoch_<operation>
    Backend,    \* <<ZKVM, MODE>> make is run with
    Case,       \* Case[t]: the cases of t's operation
    MaxRuns,    \* how often make is run, a bound
    Absent

Known == {"pico", "sp1", "risc-zero", "zisk", "jolt"}

ASSUME BackendAssumption == Backend \subseteq STRING \X {"execute", "prove"}

ASSUME MaxRunsAssumption == MaxRuns \in Nat

ASSUME CaseAssumption == DOMAIN Case = Target

VARIABLES
    backend,    \* ZKVM and MODE of this make
    jobs,       \* whether it runs with -j
    run,        \* its number
    pc,         \* pc[t]: what the recipe of t is about to do
    exit,       \* exit[t]: how the harness process ended
    files       \* files[name]: the lines of a file, or Absent

vars == <<backend, jobs, run, pc, exit, files>>

zkvm == backend[1]
mode == backend[2]

-----------------------------------------------------------------------------
(* Names *)

\* Makefile: $(LOGS_DIR)/$(MODE)_$(ZKVM)_block_$*.log
TeeFile(b, t) == <<"logs", b[2], b[1], t>>

\* The operation the Makefile passes to the parser, with the mode.
Operation(b, t) == <<b[1], t>>

\* parse_log_to_table.sh
LOG_FILE(operation, m) == <<"logs", m>> \o operation

\* Mutant of OUTPUT_FILE: one name for both modes.
OUTPUT_FILE_OfEither(operation, m) == <<"summaries", "summary">> \o operation

OUTPUT_FILE(operation, m) ==
    IF m = "prove" THEN <<"summaries", "prove", "summary">> \o operation
                   ELSE <<"summaries", "summary">> \o operation

\* Makefile: what it passes to sort_table.sh.
SortFile(b, t) ==
    IF b[2] = "prove" THEN <<"summaries", "prove", "summary", b[1], t>>
                      ELSE <<"summaries", "summary", b[1], t>>

\* Mutant of Sorted: the output is named after the operation alone.
SortedByOperation(name) == <<"summaries", "sorted", Last(name)>>

\* sort_table.sh puts sorted_ before the second part of the path.
Sorted(name) == <<Head(name), "sorted">> \o Tail(name)

LogOf(b, t)     == LOG_FILE(Operation(b, t), b[2])
SummaryOf(b, t) == OUTPUT_FILE(Operation(b, t), b[2])
SortedOf(b, t)  == Sorted(SummaryOf(b, t))

\* The files of a target, by all their names.
NamesOf(b, t) == {TeeFile(b, t), LogOf(b, t), SummaryOf(b, t), SortedOf(b, t),
                  SortFile(b, t), Sorted(SortFile(b, t))}

Names == UNION {NamesOf(b, t) : b \in Backend, t \in Target}

-----------------------------------------------------------------------------
(* Lines *)

\* The two lines above the rows.
Heading == <<[heading |-> "names"], [heading |-> "rule"]>>

\* A case reported in a run: an End line of a log, a row of a table.
Row == [backend : Backend, target : Target, case : UNION Range(Case),
        run : 1 .. MaxRuns]

Lines == Row \cup Range(Heading)

ASSUME AbsentAssumption == Absent \notin Seq(Lines)

\* The cases this run's process has reported.
Logged(t) == {row.case : row \in {x \in Range(files[TeeFile(backend, t)]) :
                                      x.run = run}}

\* sort orders by operation and then by the whole line: some order.
Reorderings(s) ==
    {r \in [DOMAIN s -> Range(s)] : \A x \in Range(s) :
        Cardinality({i \in DOMAIN s : r[i] = x})
            = Cardinality({i \in DOMAIN s : s[i] = x})}

Write(name, lines) == files' = [files EXCEPT ![name] = lines]

Goto(t, l) == pc' = [pc EXCEPT ![t] = l]

Busy(t) == pc[t] \notin {"idle", "ready", "done", "failed"}

Quiet == \A t \in Target : ~Busy(t) /\ pc[t] # "ready"

-----------------------------------------------------------------------------
Init ==
    /\ backend \in Backend
    /\ jobs \in BOOLEAN
    /\ run = 0
    /\ pc = [t \in Target |-> "idle"]
    /\ exit = [t \in Target |-> "none"]
    /\ files = [n \in Names |-> Absent]

\* make with some targets, one backend and one mode.
StartMake ==
    /\ Quiet /\ run < MaxRuns
    /\ run' = run + 1
    /\ backend' \in Backend
    /\ jobs' \in BOOLEAN
    /\ \E asked \in SUBSET Target \ {{}} :
           pc' = [t \in Target |-> IF t \in asked THEN "ready" ELSE "idle"]
    /\ exit' = [t \in Target |-> "none"]
    /\ UNCHANGED files

MayStart(t) ==
    /\ pc[t] = "ready"
    /\ jobs \/ \A u \in Target : ~Busy(u)
    /\ \A u \in Target : pc[u] # "failed"

\* Mutant of StartRecipe: tee -a.
StartRecipeAppending(t) ==
    /\ MayStart(t) /\ zkvm \in Known
    /\ Write(TeeFile(backend, t),
             IF files[TeeFile(backend, t)] = Absent THEN <<>>
             ELSE files[TeeFile(backend, t)])
    /\ Goto(t, "run")
    /\ UNCHANGED <<backend, jobs, run, exit>>

\* tee empties the log.
StartRecipe(t) ==
    /\ MayStart(t) /\ zkvm \in Known
    /\ Write(TeeFile(backend, t), <<>>)
    /\ Goto(t, "run")
    /\ UNCHANGED <<backend, jobs, run, exit>>

\* "Unknown ZKVM": the recipe fails and make starts no other.
RefuseRecipe(t) ==
    /\ MayStart(t) /\ zkvm \notin Known
    /\ Goto(t, "failed")
    /\ UNCHANGED <<backend, jobs, run, exit, files>>

LogCase(t) ==
    /\ pc[t] = "run"
    /\ \E c \in Case[t] \ Logged(t) :
           Write(TeeFile(backend, t),
                 Append(files[TeeFile(backend, t)],
                        [backend |-> backend, target |-> t, case |-> c,
                         run |-> run]))
    /\ UNCHANGED <<backend, jobs, run, pc, exit>>

\* The process ends in some way; the status the recipe looks at is tee's.
EndHarness(t) ==
    /\ pc[t] = "run"
    /\ \E code \in {"failed"} \cup
                   (IF Logged(t) = Case[t] THEN {"ok"} ELSE {}) :
           exit' = [exit EXCEPT ![t] = code]
    /\ Goto(t, "complete")
    /\ UNCHANGED <<backend, jobs, run, files>>

\* "Execution complete", and the script starts over with a heading.
ParseHeading(t) ==
    /\ pc[t] = "complete"
    /\ Write(SummaryOf(backend, t), Heading)
    /\ Goto(t, "parse")
    /\ UNCHANGED <<backend, jobs, run, exit>>

\* One row for each End line, in the order of the log; see LogTable.
ParseRow(t) ==
    LET log  == files[LogOf(backend, t)]
        done == Len(files[SummaryOf(backend, t)]) - Len(Heading)
    IN  /\ pc[t] = "parse" /\ done < Len(log)
        /\ Write(SummaryOf(backend, t),
                 Append(files[SummaryOf(backend, t)], log[done + 1]))
        /\ UNCHANGED <<backend, jobs, run, pc, exit>>

EndParse(t) ==
    /\ pc[t] = "parse"
    /\ Len(files[SummaryOf(backend, t)]) - Len(Heading)
           = Len(files[LogOf(backend, t)])
    /\ Goto(t, "sort")
    /\ UNCHANGED <<backend, jobs, run, exit, files>>

SortHeading(t) ==
    /\ pc[t] = "sort"
    /\ Write(Sorted(SortFile(backend, t)),
             SubSeq(files[SortFile(backend, t)], 1, 2))
    /\ Goto(t, "tail")
    /\ UNCHANGED <<backend, jobs, run, exit>>

\* Mutant of SortRows: tail -n +4.
SortRowsButFirst(t) ==
    LET lines  == files[SortFile(backend, t)]
        sorted == Sorted(SortFile(backend, t))
    IN  /\ pc[t] = "tail"
        /\ \E rows \in Reorderings(SubSeq(lines, 4, Len(lines))) :
               Write(sorted, files[sorted] \o rows)
        /\ Goto(t, "rm")
        /\ UNCHANGED <<backend, jobs, run, exit>>

SortRows(t) ==
    LET lines  == files[SortFile(backend, t)]
        sorted == Sorted(SortFile(backend, t))
    IN  /\ pc[t] = "tail"
        /\ \E rows \in Reorderings(SubSeq(lines, 3, Len(lines))) :
               Write(sorted, files[sorted] \o rows)
        /\ Goto(t, "rm")
        /\ UNCHANGED <<backend, jobs, run, exit>>

RemoveSummary(t) ==
    /\ pc[t] = "rm"
    /\ Write(SortFile(backend, t), Absent)
    /\ Goto(t, "done")
    /\ UNCHANGED <<backend, jobs, run, exit>>

\* make, its recipes and the processes they started.
Kill ==
    /\ ~Quiet
    /\ pc' = [t \in Target |-> "idle"]
    /\ UNCHANGED <<backend, jobs, run, exit, files>>

\* After a recipe failed, make stops when the others have ended.
StopMake ==
    /\ \E t \in Target : pc[t] = "failed"
    /\ \A t \in Target : ~Busy(t)
    /\ pc' = [t \in Target |-> "idle"]
    /\ UNCHANGED <<backend, jobs, run, exit, files>>

Clean ==
    /\ Quiet
    /\ files' = [n \in Names |-> Absent]
    /\ pc' = [t \in Target |-> "idle"]
    /\ UNCHANGED <<backend, jobs, run, exit>>

Recipe(t) ==
    \/ StartRecipe(t) \/ RefuseRecipe(t) \/ LogCase(t) \/ EndHarness(t)
    \/ ParseHeading(t) \/ ParseRow(t) \/ EndParse(t)
    \/ SortHeading(t) \/ SortRows(t) \/ RemoveSummary(t)

Next ==
    \/ StartMake \/ Kill \/ StopMake \/ Clean
    \/ \E t \in Target : Recipe(t)

Spec == Init /\ [][Next]_vars

-----------------------------------------------------------------------------
(* Properties *)

\* Type correctness.  A file that a script reads is there when it does.
TypeOK ==
    /\ backend \in Backend
    /\ jobs \in BOOLEAN
    /\ run \in 0 .. MaxRuns
    /\ pc \in [Target -> {"idle", "ready", "run", "complete", "parse", "sort",
                          "tail", "rm", "done", "failed"}]
    /\ exit \in [Target -> {"none", "ok", "failed"}]
    /\ files \in [Names -> Seq(Lines) \cup {Absent}]
    /\ \A t \in Target :
           pc[t] \in {"sort", "tail", "rm"} =>
               files[SortFile(backend, t)] # Absent

\* The rows among these lines are of target t under backend b, all of one run
\* and no case twice.
OneRun(lines, b, t) ==
    LET rows == {i \in DOMAIN lines : lines[i] \in Row}
    IN  /\ \A i \in rows : lines[i].backend = b /\ lines[i].target = t
        /\ \A i, j \in rows : lines[i].run = lines[j].run
        /\ \A i, j \in rows : lines[i].case = lines[j].case => i = j

\* What a file of a target and a backend says is of that target and backend, and
\* of one run, whatever ran before or runs beside it and whatever was killed.
TablesAreOfOneRun ==
    \A b \in Backend, t \in Target :
        \A name \in {LogOf(b, t), SummaryOf(b, t), SortedOf(b, t)} :
            files[name] # Absent => OneRun(files[name], b, t)

\* When a recipe has ended, its sorted table has a row for every case its own
\* harness process reported, the unsorted one is gone, and a table that misses a
\* case of the operation tells that the process failed: the recipe does not.
FinishedTableIsComplete ==
    \A t \in Target :
        pc[t] = "done" =>
            /\ \E rows \in Reorderings(files[TeeFile(backend, t)]) :
                   files[SortedOf(backend, t)] = Heading \o rows
            /\ \A i \in DOMAIN files[TeeFile(backend, t)] :
                   files[TeeFile(backend, t)][i].run = run
            /\ Logged(t) # Case[t] => exit[t] = "failed"
            /\ files[SummaryOf(backend, t)] = Absent

\* A recipe changes no table but its own: those of other targets, backends and
\* modes stay until they run again or are cleaned up.
RecipesKeepToTheirTables ==
    [][\A b \in Backend, t \in Target :
          files'[SortedOf(b, t)] # files[SortedOf(b, t)] =>
              \/ Clean
              \/ b = backend /\ pc[t] \in {"sort", "tail"}]_vars
================================================================================
