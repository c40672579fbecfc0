-------------------------------- MODULE LogTable --------------------------------
(***************************************************************************)
(* From what a harness process logs to the table of its figures:           *)
(* host/subscripts/parse_log_to_table.sh, with the lines of                *)
(* host/src/bin/main.rs and of the guests that it looks for.               *)
(*                                                                         *)
(* The harness logs cases one after the other and may stop at any line: a  *)
(* panic, a kill.  Then the script runs: for ZISK the timing analysis over *)
(* the whole log, then an awk program that keeps the figures it meets in   *)
(* accumulators and prints a row at each End line.                         *)
(***************************************************************************)
EXTENDS ZiskTiming

CONSTANTS
    Cases,      \* the cases of the directory the process lists
    Excluded,   \* those --excluded-cases names
    Figures,    \* Figures[c]: what a run of case c really costs
    Orders,     \* orders SP1's report may iterate its trackers in
    Backends    \* pairs of a backend and a mode

Phases == {"read_pre_state_ssz", "deserialize_pre_state_ssz",
           "read_operation_input", "process_operation", "merkleize_operation",
           "commit"}

PhaseOrder == <<"read_pre_state_ssz", "deserialize_pre_state_ssz",
                "read_operation_input", "process_operation",
                "merkleize_operation", "commit">>

ASSUME BackendsAssumption ==
    Backends \subseteq {"sp1", "risc-zero", "zisk", "pico", "jolt"}
                       \X {"execute", "prove"}

\* Counters as the guest reads them when a phase starts and ends, and how long
\* the call took in milliseconds.  The guest's first instructions come before
\* the first phase.
ASSUME FiguresAssumption ==
    /\ Figures \in [Cases -> [start : [Phases -> Nat], end : [Phases -> Nat],
                              duration : Nat]]
    /\ \A c \in Cases, ph \in Phases :
           0 < Figures[c].start[ph] /\ Figures[c].start[ph] < Figures[c].end[ph]
    /\ \A c \in Cases, i \in 1 .. 5 :
           Figures[c].end[PhaseOrder[i]] <= Figures[c].start[PhaseOrder[i + 1]]

ASSUME OrdersAssumption ==
    Orders \subseteq {o \in [1 .. 6 -> Phases] :
                         \A ph \in Phases : \E i \in 1 .. 6 : o[i] = ph}

VARIABLES
    backend,    \* <<zkvm, mode>> of the process
    todo,       \* cases it has listed and not started
    case,       \* the case it runs
    lines,      \* what it will log for that case, in blocks written at once
    reported,   \* the cases whose End line it has logged, in order
    stage,      \* "run", "analyse" or "parse"
    log,        \* the log; the part the script has not read, while it parses
    timing,     \* the temporary file with the analysis
    acc,        \* the variables of the awk program
    table       \* the rows of the summary

vars == <<backend, todo, case, lines, reported, stage, log, timing, acc, table>>

zkvm == backend[1]
mode == backend[2]

-----------------------------------------------------------------------------
(* What is logged *)

Cycles(c, ph) == Figures[c].end[ph] - Figures[c].start[ph]

Total(c) == Figures[c].end["commit"]

\* A time in print: thousandths of the unit it is printed with.
NoTime == [num |-> 0, unit |-> ""]
AsSecs(d) == [num |-> d, unit |-> ""]
SdkTime(d) == [num |-> d, unit |-> "s"]

\* {:?} of a Duration of d milliseconds.
Debug(d) == IF d >= 1000 THEN [num |-> d, unit |-> "s"]
                         ELSE [num |-> d * 1000, unit |-> "ms"]

CaseLine(c) == Line("Test case:", "", c)
EndLine == Line("Cycle Tracker End", "", "")

\* guest/risc0: a counter before and after each phase.
MarkerLines(c) ==
    FlattenSeq([i \in 1 .. 6 |->
        <<Line("start", PhaseOrder[i], Figures[c].start[PhaseOrder[i]]),
          Line("end", PhaseOrder[i], Figures[c].end[PhaseOrder[i]])>>])

\* run_sp1_test: the report's totals, then its trackers.
Sp1Lines(c, order) ==
    <<CaseLine(c), Line("Number of cycles:", "", Total(c)),
      Line("execution-time-host-call:", "", AsSecs(Figures[c].duration))>>
    \o [i \in 1 .. 6 |-> Line("tracker", order[i], Cycles(c, order[i]))]

\* run_risczero_test; the line in the middle is the executor's own.
RiscZeroLines(c) ==
    MarkerLines(c)
    \o <<Line("execution time:", "", SdkTime(Figures[c].duration)),
         Line("execution-time-host-call:", "", Debug(Figures[c].duration)),
         CaseLine(c)>>

PicoLines(c) ==
    <<Line("Execution time:", "", Debug(Figures[c].duration)),
      Line("execution-time-host-call:", "", AsSecs(Figures[c].duration)),
      Line("Execution cycles:", "", Total(c)), CaseLine(c)>>

JoltLines(c) ==
    <<CaseLine(c), Line("Execution time:", "", Debug(Figures[c].duration))>>

\* What ziskemu printed, logged in one go when it has returned.
ZiskOutput(c) ==
    GuestLines
    \o <<Line("process_rom", "", [steps    |-> Total(c),
                                  duration |-> Figures[c].duration])>>

Blocks(s) == [i \in DOMAIN s |-> <<s[i]>>]

\* What a run_*_test logs of what the script looks for.  In prove mode only RISC
\* Zero's guest is heard of.
RunnerLines(c, order) ==
    CASE zkvm = "sp1" /\ mode = "execute"       -> Blocks(Sp1Lines(c, order))
      [] zkvm = "risc-zero" /\ mode = "execute" -> Blocks(RiscZeroLines(c))
      [] zkvm = "risc-zero" /\ mode = "prove"   -> Blocks(MarkerLines(c))
      [] zkvm = "pico" /\ mode = "execute"      -> Blocks(PicoLines(c))
      [] zkvm = "zisk" /\ mode = "execute"      -> <<ZiskOutput(c)>>
      [] zkvm = "jolt"                          -> Blocks(JoltLines(c))
      [] OTHER                                  -> <<>>

-----------------------------------------------------------------------------
(* The awk program *)

Zeros == [ph \in Phases |-> 0]

Fresh == [test_case |-> "", start |-> Zeros, end |-> Zeros, cycles |-> Zeros,
          total_cycles |-> 0, execution_time |-> NoTime,
          execution_time_host_call |-> NoTime, is_zisk |-> FALSE]

\* Mutant of Accumulate: RISC Zero's end markers are taken for start markers.
AccumulateSwapped(a, l) ==
    CASE l.tag = "Test case:"         -> [a EXCEPT !.test_case = l.val]
      [] l.tag = "read-inputs:start"  -> [a EXCEPT !.is_zisk = TRUE]
      [] l.tag = "start"              -> [a EXCEPT !.end[l.key] = l.val]
      [] l.tag = "end"                -> [a EXCEPT !.start[l.key] = l.val]
      [] l.tag = "tracker"            -> [a EXCEPT !.cycles[l.key] = l.val]
      [] l.tag \in {"Number of cycles:", "Execution cycles:"} ->
             [a EXCEPT !.total_cycles = l.val]
      [] l.tag = "execution time:"    -> [a EXCEPT !.execution_time = l.val]
      [] l.tag \in {"execution-time-host-call:", "Execution time:"} ->
             [a EXCEPT !.execution_time_host_call = l.val]
      [] l.tag = "process_rom" ->
             [a EXCEPT !.total_cycles = l.val.steps,
                       !.execution_time_host_call = AsSecs(l.val.duration)]
      [] OTHER -> a

\* The pattern actions other than the last.
Accumulate(a, l) ==
    CASE l.tag = "Test case:"         -> [a EXCEPT !.test_case = l.val]
      [] l.tag = "read-inputs:start"  -> [a EXCEPT !.is_zisk = TRUE]
      [] l.tag = "start"              -> [a EXCEPT !.start[l.key] = l.val]
      [] l.tag = "end"                -> [a EXCEPT !.end[l.key] = l.val]
      [] l.tag = "tracker"            -> [a EXCEPT !.cycles[l.key] = l.val]
      [] l.tag \in {"Number of cycles:", "Execution cycles:"} ->
             [a EXCEPT !.total_cycles = l.val]
      [] l.tag = "execution time:"    -> [a EXCEPT !.execution_time = l.val]
      [] l.tag \in {"execution-time-host-call:", "Execution time:"} ->
             [a EXCEPT !.execution_time_host_call = l.val]
      [] l.tag = "process_rom" ->
             [a EXCEPT !.total_cycles = l.val.steps,
                       !.execution_time_host_call = AsSecs(l.val.duration)]
      [] OTHER -> a

\* The branch the End block takes.
Format(a) ==
    IF /\ a.total_cycles > 0 /\ a.cycles["read_pre_state_ssz"] = 0
       /\ a.start["read_pre_state_ssz"] = 0 /\ ~a.is_zisk THEN "pico"
    ELSE IF a.is_zisk THEN "zisk"
    ELSE IF a.cycles["read_pre_state_ssz"] > 0 THEN "sp1"
    ELSE "risc-zero"

\* ZISK's stages in the columns of the table; read-inputs has no stage.
ColumnStage ==
    [deserialize_pre_state_ssz |-> "deserialize-pre-state-ssz",
     read_operation_input      |-> "deserialize-operation-input",
     process_operation         |-> "process-operation",
     merkleize_operation       |-> "merkleize-operation",
     commit                    |-> "output-state-root"]

Row(a, cycles, time, total) ==
    [test_case |-> a.test_case, cycles |-> cycles, time |-> time,
     total |-> total, execution_time |-> a.execution_time,
     host_call |-> a.execution_time_host_call]

\* exec_time_seconds is the number of the host call's time, whatever its unit;
\* each phase gets the share of it that it has of the cycles.
Shares(a, cycles, total) ==
    [ph \in Phases |->
        IF total > 0
        THEN Share(a.execution_time_host_call.num, cycles[ph], total) ELSE 0]

PrintedRow(a) ==
    LET differences == [ph \in Phases |-> a.end[ph] - a.start[ph]]
        estimate(f) == [ph \in Phases |-> IF ph \in DOMAIN ColumnStage
                                          THEN f[ColumnStage[ph]] ELSE 0]
    IN  CASE Format(a) = "pico" -> Row(a, Zeros, Zeros, a.total_cycles)
          [] Format(a) = "zisk" ->
                 Row(a, estimate([s \in Stages |-> timing[s].cycles]),
                     estimate([s \in Stages |-> timing[s].time]),
                     a.total_cycles)
          [] Format(a) = "sp1" ->
                 Row(a, a.cycles, Shares(a, a.cycles, a.total_cycles),
                     a.total_cycles)
          [] Format(a) = "risc-zero" ->
                 Row(a, differences, Shares(a, differences, a.end["commit"]),
                     a.end["commit"])

-----------------------------------------------------------------------------
Init ==
    /\ backend \in Backends
    /\ todo = Cases
    /\ case = ""
    /\ lines = <<>>
    /\ reported = <<>>
    /\ stage = "run"
    /\ log = <<>>
    /\ timing = [s \in Stages |-> [cycles |-> 0, time |-> 0]]
    /\ acc = Fresh
    /\ table = <<>>

harness == <<todo, case, lines, reported>>
script  == <<timing, acc, table>>

(* The harness: run_tests *)

\* Mutant of SkipCase: the End line is logged for a skipped case too.
SkipCaseWithEndLine(c) ==
    /\ stage = "run" /\ lines = <<>> /\ c \in todo \cap Excluded
    /\ todo' = todo \ {c}
    /\ log' = log \o <<Line("Skipping test case:", "", c), EndLine>>
    /\ UNCHANGED <<backend, case, lines, reported, stage, script>>

SkipCase(c) ==
    /\ stage = "run" /\ lines = <<>> /\ c \in todo \cap Excluded
    /\ todo' = todo \ {c}
    /\ log' = Append(log, Line("Skipping test case:", "", c))
    /\ UNCHANGED <<backend, case, lines, reported, stage, script>>

StartCase(c) ==
    /\ stage = "run" /\ lines = <<>> /\ c \in todo \ Excluded
    /\ todo' = todo \ {c}
    /\ case' = c
    /\ \E order \in Orders :
           lines' = <<<<CaseLine(c)>>>> \o RunnerLines(c, order)
                    \o <<<<EndLine>>>>
    /\ UNCHANGED <<backend, reported, stage, log, script>>

LogBlock ==
    /\ stage = "run" /\ lines # <<>>
    /\ log' = log \o Head(lines)
    /\ lines' = Tail(lines)
    /\ reported' = IF lines' = <<>> THEN Append(reported, case) ELSE reported
    /\ UNCHANGED <<backend, todo, case, stage, script>>

\* The process ends: all cases done, or a panic, an exit or a kill in the middle
\* of a case.  The recipe goes on to the script in either case.
Stop ==
    /\ stage = "run"
    /\ stage' = "analyse"
    /\ UNCHANGED <<backend, harness, log, script>>

(* The script *)

Analyse ==
    /\ stage = "analyse"
    /\ timing' = IF zkvm = "zisk" THEN ShellVars(log) ELSE timing
    /\ stage' = "parse"
    /\ UNCHANGED <<backend, harness, log, acc, table>>

\* Mutant of AtEndLine: the last line of the log is not seen for one.
AtEndLineButLast ==
    log # <<>> /\ Head(log).tag = "Cycle Tracker End" /\ Tail(log) # <<>>

AtEndLine == log # <<>> /\ Head(log).tag = "Cycle Tracker End"

ReadLine ==
    /\ stage = "parse" /\ log # <<>> /\ ~AtEndLine
    /\ acc' = Accumulate(acc, Head(log))
    /\ log' = Tail(log)
    /\ UNCHANGED <<backend, harness, stage, timing, table>>

\* Mutant of ReadEndLine: what the case read is not reset.
ReadEndLineNoReset ==
    /\ stage = "parse" /\ AtEndLine
    /\ table' = Append(table, PrintedRow(acc))
    /\ acc' = IF Format(acc) = "risc-zero"
              THEN [acc EXCEPT !.cycles = PrintedRow(acc).cycles,
                               !.total_cycles = PrintedRow(acc).total]
              ELSE acc
    /\ log' = Tail(log)
    /\ UNCHANGED <<backend, harness, stage, timing>>

ReadEndLine ==
    /\ stage = "parse" /\ AtEndLine
    /\ table' = Append(table, PrintedRow(acc))
    /\ acc' = Fresh
    /\ log' = Tail(log)
    /\ UNCHANGED <<backend, harness, stage, timing>>

Next ==
    \/ \E c \in Cases : SkipCase(c) \/ StartCase(c)
    \/ LogBlock \/ Stop \/ Analyse \/ ReadLine \/ ReadEndLine

Spec == Init /\ [][Next]_vars

\* The harness ends (Termination of BeaconHarness), and the script reads on.
FairSpec == Spec /\ WF_vars(Next)

-----------------------------------------------------------------------------
(* Properties *)

RowType == [test_case : Cases, cycles : [Phases -> Int], time : [Phases -> Int],
            total : Int, execution_time : [num : Nat, unit : {"", "s", "ms"}],
            host_call : [num : Nat, unit : {"", "s", "ms"}]]

\* Type correctness.  Each row names a case: no End line is met without one.
TypeOK ==
    /\ backend \in Backends
    /\ todo \subseteq Cases
    /\ case \in Cases \cup {""}
    /\ reported \in Seq(Cases)
    /\ stage \in {"run", "analyse", "parse"}
    /\ timing \in [Stages -> [cycles : Nat, time : Nat]]
    /\ acc.test_case \in Cases \cup {""}
    /\ table \in Seq(RowType)

\* The milliseconds a printed time stands for.
Milliseconds(t) == IF t.unit = "ms" THEN t.num \div 1000 ELSE t.num

\* The columns of the phases are counts of cycles and seconds, the seconds in
\* thousandths.  Next to a host call printed in milliseconds they are parts of
\* another time, a thousand times too long: TimesAreSeconds is about those rows.
PartsWithinWhole(row) ==
    /\ \A ph \in Phases : row.cycles[ph] >= 0 /\ row.time[ph] >= 0
    /\ Sum(row.cycles) <= row.total
    /\ row.host_call.unit # "ms" => Sum(row.time) <= Milliseconds(row.host_call)

\* The per-phase columns of a row are parts of its totals: the cycles of the
\* total cycles, and the seconds of what the host call took, unless that was
\* printed in milliseconds; however each backend measures them and however the
\* End block guesses its format.  (For ZISK see EveryRowAddsUp.)
MeasuredRowsAddUp ==
    zkvm # "zisk" => \A i \in DOMAIN table : PartsWithinWhole(table[i])

\* What ZISK's rows say of the phases of an execution is an estimate for the
\* first case of the log, whatever cases follow and wherever the process stops.
EstimateIsOfFirstCase ==
    zkvm = "zisk" /\ mode = "execute" /\ table # <<>> =>
        timing = ShellVars(ZiskOutput(reported[1]))

\* Truncating the shares of the stages loses less than a cycle each.
EstimateAddsUp ==
    zkvm = "zisk" /\ mode = "execute" /\ table # <<>> =>
        LET estimated == Sum([s \in Stages |-> timing[s].cycles])
        IN  /\ estimated <= Total(reported[1])
            /\ Total(reported[1]) < estimated + Cardinality(Stages)

\* What the heading of the table says of every row: the figures of the phases
\* are of that row's case.  ZISK's are not.
EveryRowAddsUp == \A i \in DOMAIN table : PartsWithinWhole(table[i])

\* What the script says of exec_time_seconds: seconds, whatever unit the time
\* was logged in.  It is in thousandths here.
TimesAreSeconds ==
    zkvm = "risc-zero" /\ mode = "execute" =>
        \A i \in DOMAIN table :
            Sum(table[i].time) <= Figures[table[i].test_case].duration

-----------------------------------------------------------------------------
(* The table as SummaryContract wants it *)

HasPhases(b) == b \in {<<"sp1", "execute">>, <<"risc-zero", "execute">>,
                       <<"risc-zero", "prove">>}

HasTotal(b) ==
    HasPhases(b) \/ b \in {<<"pico", "execute">>, <<"zisk", "execute">>}

HasTime(b) == b[2] = "execute" \/ b[1] = "jolt"

\* What a row for c has to say: figures of c, or none.
TrueRow(b, c) ==
    [test_case |-> c,
     cycles    |-> [ph \in Phases |->
                       IF HasPhases(b) THEN Cycles(c, ph) ELSE 0],
     total     |-> IF HasTotal(b) THEN Total(c) ELSE 0,
     host_call |-> IF HasTime(b) THEN Figures[c].duration ELSE 0]

\* A row as its reader should take it: ZISK's phases say nothing.
Reading(row) ==
    [test_case |-> row.test_case,
     cycles    |-> IF zkvm = "zisk" THEN Zeros ELSE row.cycles,
     total     |-> row.total,
     host_call |-> Milliseconds(row.host_call)]

Summary == INSTANCE SummaryContract
           WITH table <- [i \in DOMAIN table |-> Reading(table[i])]

\* The script turns the End lines of a log into rows, in order, none twice, each
\* with the figures of its own case and no other.
ImplementsSummary == Summary!Spec

\* Every case whose End line was logged gets its row, wherever the log stops.
FinishesSummary == Summary!Finishes
================================================================================
