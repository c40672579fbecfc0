------------------------------- MODULE ZiskTiming -------------------------------
(***************************************************************************)
(* guest/zisk/timinganalysis.py, and the lines of ZISK's guest it reads.   *)
(*                                                                         *)
(* The guest has no cycle counter.  It prints which stages it went through *)
(* and the steps of each; the analysis weighs the stages by the words in   *)
(* their step names and shares the emulator's total out in proportion.     *)
(***************************************************************************)
EXTENDS Integers, Sequences, SequencesExt, FiniteSets

Line(tag, key, val) == [tag |-> tag, key |-> key, val |-> val]

-----------------------------------------------------------------------------
(* guest/zisk/src/main.rs *)

Stages == {"deserialize-pre-state-ssz", "deserialize-operation-input",
           "process-operation", "merkleize-operation", "output-state-root"}

StageOrder == <<"deserialize-pre-state-ssz", "deserialize-operation-input",
                "process-operation", "merkleize-operation",
                "output-state-root">>

\* The arguments of log_operation_progress, stage by stage.
ProgressSteps(stage) ==
    CASE stage = "deserialize-pre-state-ssz" ->
             <<"parsing_ssz_bytes", "creating_beacon_state", "state_created">>
      [] stage = "deserialize-operation-input" ->
             <<"extracting_input_bytes", "deserializing_operation",
               "operation_parsed">>
      [] stage = "process-operation" ->
             <<"initializing_state_transition", "processing_operation",
               "state_transition_complete">>
      [] stage = "merkleize-operation" ->
             <<"initializing_tree_hash", "computing_merkle_root",
               "merkle_root_computed">>
      [] stage = "output-state-root" ->
             <<"preparing_hex_output", "hex_output_complete">>

StageLines(stage) ==
    <<Line("TIMING_START", stage, "")>>
    \o [i \in DOMAIN ProgressSteps(stage) |->
           Line("OPERATION_PROGRESS", stage, ProgressSteps(stage)[i])]
    \o <<Line("TIMING_END", stage, "")>>

\* What a run of the guest that ends well prints.
GuestLines ==
    <<Line("read-inputs:start", "", "")>>
    \o FlattenSeq([i \in DOMAIN StageOrder |-> StageLines(StageOrder[i])])

-----------------------------------------------------------------------------
(* timinganalysis.py *)

\* The keywords of computational_patterns that occur in each step's name.
KeywordsIn ==
    [parsing_ssz_bytes             |-> {"parsing"},
     creating_beacon_state         |-> {"creating"},
     state_created                 |-> {},
     extracting_input_bytes        |-> {"extracting"},
     deserializing_operation       |-> {},
     operation_parsed              |-> {},
     initializing_state_transition |-> {"initializing"},
     processing_operation          |-> {"processing"},
     state_transition_complete     |-> {"complete"},
     initializing_tree_hash        |-> {"initializing", "tree"},
     computing_merkle_root         |-> {"computing", "merkle"},
     merkle_root_computed          |-> {"merkle"},
     preparing_hex_output          |-> {"preparing", "output"},
     hex_output_complete           |-> {"output", "complete"}]

\* The first class with a keyword in the name counts: high, medium, low.
Intensity(step) ==
    LET has(words) == KeywordsIn[step] \cap words # {}
    IN  IF has({"computing", "processing", "parsing", "initializing"}) THEN 3
        ELSE IF has({"creating", "extracting", "merkle", "tree"}) THEN 2
        ELSE IF has({"preparing", "output", "complete"}) THEN 1
        ELSE 0

Sum(f) == FoldFunction(+, 0, f)

LinesOf(log, tag, stage) ==
    {i \in DOMAIN log : log[i].tag = tag /\ log[i].key = stage}

\* Stages that were both started and ended somewhere in the log.
Operations(log) ==
    {stage \in Stages : /\ LinesOf(log, "TIMING_START", stage) # {}
                        /\ LinesOf(log, "TIMING_END", stage) # {}}

\* A point for each step, and those of its intensity.
calculate_intelligent_complexity(log, stage) ==
    LET steps == LinesOf(log, "OPERATION_PROGRESS", stage)
    IN  Max({1, Sum([i \in steps |-> 1 + Intensity(log[i].val)])})

\* Mutant of ExecutionStats: the last such line of the log.
LastExecutionStats(log) ==
    LET found == {i \in DOMAIN log : log[i].tag = "process_rom"}
    IN  IF found = {} THEN [steps |-> 0, duration |-> 0]
        ELSE log[Max(found)].val

\* The steps and the duration of the emulation: the first such line of the log.
ExecutionStats(log) ==
    LET found == {i \in DOMAIN log : log[i].tag = "process_rom"}
    IN  IF found = {} THEN [steps |-> 0, duration |-> 0]
        ELSE log[Min(found)].val

\* Mutant of Share: rounded up instead of truncated.
ShareRoundedUp(total, part, whole) == (total * part + whole - 1) \div whole

\* int(total * (part / whole)); the floating point error is left out.
Share(total, part, whole) == (total * part) \div whole

\* --shell-vars: what each stage is said to have cost; the other stages get no
\* line and count as nothing.
ShellVars(log) ==
    LET ops        == Operations(log)
        stats      == ExecutionStats(log)
        complexity == [op \in ops |-> calculate_intelligent_complexity(log, op)]
        whole      == Sum(complexity)
    IN  [stage \in Stages |->
            IF stage \in ops
            THEN [cycles |-> Share(stats.steps, complexity[stage], whole),
                  time   |-> Share(stats.duration, complexity[stage], whole)]
            ELSE [cycles |-> 0, time |-> 0]]
================================================================================
