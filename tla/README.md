# Verification of the Beacon Harness

The Beacon Harness (`src/Beacon-Harness`) runs the state transition functions of
the [ream](https://github.com/ReamLabs/ream) consensus client inside five zkVMs,
over the test vectors of `ethereum/consensus-spec-tests`, and publishes a table
of cycles and times per operation. A row of such a table claims two things: that
the operation was executed *correctly* (its state root was compared with the
vectors') and that the figures are of *that* execution. This directory holds
TLA+ models of the code behind those claims, TLC runs over small instances, and
proofs checked by TLAPS for all instances.

## 1. Inventory

| Part | Source | State it keeps | Operations |
|---|---|---|---|
| Host runner | `host/src/bin/main.rs` | position in the loop over cases, bytes and input of the current case, the root, the proof; `guest/zisk/build/input.bin` on disk | list, skip, start a case; write the input; build, execute, prove, verify; compare; end |
| Command line and dispatch | `host/src/bin/cli/*.rs` | none | operation name to file, to `operation_type`; listing of cases |
| Shared library | `lib/src/*.rs` | none | read and decompress a file, decode SSZ, `OperationInput::process` |
| Guest programs | `guest/{sp1,risc0,zisk,app,jolt}` | pre-state, operation, post-state | read, decode, process, merkleize, commit |
| Log to table | `host/subscripts/parse_log_to_table.sh` | awk accumulators over the lines of a log | one action per pattern, a row per End line |
| ZISK timing analysis | `guest/zisk/timinganalysis.py` | operations and statistics of a log | parse, distribute steps over operations, print variables |
| Table sorter | `host/subscripts/sort_table.sh` | a file | sort, remove the input |
| Vector download | `host/subscripts/download_ef_data.sh` | `host/mainnet`, the archive | fetch, extract, remove |
| Make pipeline | `host/Makefile` | logs, summaries, `host/mainnet` | one recipe per operation: run, tee, parse, sort; download, all, clean |
| External | zkVM SDKs, ream, the vectors | | |

How they interact:

    make ──> download ──> host/mainnet/…/<operation>/pyspec_tests/<case>/{pre,op,post}
      └──> cargo run (one host process per operation) 2>&1 | tee log
              ├─ in memory (SP1, RISC Zero, Pico, Jolt)  ──> guest ──> root
              └─ guest/zisk/build/input.bin ──> ziskemu | cargo-zisk prove ──> root on stdout
           parse_log_to_table.sh log ──> summary ──> sort_table.sh ──> sorted summary

There are no threads in the sources. Concurrency is between processes: `make -j`
runs several recipes at once in one working tree, and a process killed at any
moment leaves its files to the next one.

What is hard here, and what makes each part correct:

* **Host runner.** Correct when the guest processes the case the host is on; when
  a case is reported only if ream conforms to its vectors; when it does not panic
  over a case that is fine; when in prove mode nothing is reported on an
  unverified proof; and when a process that ends normally has settled every case.
  Hard: five channels with different framing; the input file shared by ZISK
  processes, which none of them writes or reads in one step, half written after a
  kill and left over from earlier runs; a missing post-state that means "must be
  rejected"; one panic that ends all remaining cases.
* **Dispatch.** Four tables in two crates must agree row by row; the recompute
  comparison cannot notice if they do not, since it uses the same code.
* **Guests.** They drop every `Result` of the transition and commit the root of
  whatever state is left.
* **Log to table.** Each row must hold figures of its own case: accumulators must
  be reset, and the format of the case recognised, per End line, although each
  backend logs other lines in another order and a log may stop anywhere.
* **ZISK timing.** Figures must come from the case they are attributed to, and
  their parts add up to the whole.
* **Download.** A tree that is only partly extracted must not pass for complete,
  two releases must not mix, and a failed fetch must be possible to repeat. The
  script looks at no exit status; an interrupted run leaves its archive behind.
* **Pipeline.** Four programs build the names of the files each for itself; they
  must agree, and no two recipes may share a file. A table must have the cases its
  own run reported, whatever an earlier run left when it was killed.

`PROJECT.json` lists the hazards line by line, with the properties that cover them.

## 2. Modules

| Module | Models |
|---|---|
| `TestVectors` | the external world: operations, case directories, the transition function, and what the vectors ask for |
| `HarnessInputs` | the command line, `cli/operation.rs`, `lib/src/input.rs` and `file.rs`: from an operation's name to a call of a transition function |
| `BeaconHarness` | host processes with their guests: the state machine, its properties, the inductive invariant |
| `HarnessContract` | the abstract specification: cases settled one by one, reports and exit codes that are allowed |
| `ZiskTiming` | `timinganalysis.py` as operators over a log, and what ZISK's guest prints |
| `LogTable` | what a harness process logs, line by line, and `parse_log_to_table.sh` reading it |
| `SummaryContract` | the abstract specification of a summary: the reported cases in order, each with its true figures |
| `Download` | `download_ef_data.sh` under `make download`, `all`, `block-all` and `clean`, with failures, and the listing of a benchmark |
| `Pipeline` | the recipes of the Makefile over named files: tee, parser, sorter; `-j`, kills and leftovers |
| `MC…`, `*.cfg` | small instances |
| `BeaconHarness_proofs`, `_contract`, `_overlap` | theorems about `BeaconHarness` and their proofs, each module on top of the one before |
| `Download_proofs` | theorems about `Download` |
| `Pipeline_proofs`, `_tables` | theorems about `Pipeline`: the names of its files, then what is in them |
| `ZiskTiming_proofs` | sums, flat sequences, and the figures of `ZiskTiming` |
| `LogTable_proofs` | theorems about `LogTable`, on top of those about `ZiskTiming` |

`HarnessInputs` extends `TestVectors`; `BeaconHarness` and `HarnessContract` extend
`HarnessInputs`; `BeaconHarness` instantiates `HarnessContract` with the identity
mapping on `args`, `disk`, `status` and `exit` (its other variables are the
implementation's). `LogTable` extends `ZiskTiming` and instantiates
`SummaryContract` with `table <- [i \in DOMAIN table |-> Reading(table[i])]`: a row
as its reader should take it, times in one unit and ZISK's phases left out.

The models meet at the states they share. `BeaconHarness` says which cases get an
End line and with what exit code; `LogTable` starts from End lines and ends with
rows; `Pipeline` takes both as given (a harness that logs cases and ends in some
way, a parser that makes a row per End line) and adds the files, other recipes and
earlier runs; `Download` gives the trees, whole or cut short, that are the input
of `BeaconHarness`. They are separate because each has its own kind of disturbance,
and their product is out of TLC's reach.

### Correspondence

Per process `p`:

| Variable | Code |
|---|---|
| `args[p]` | `Args` of `main.rs`; `compare_specs` is absent because a flag that is on by default cannot be switched off |
| `pc[p]` | the statement of `run_tests`, of a `run_*_test` or of the guest's `main` about to execute |
| `todo[p]` | the rest of the iterator over `test_cases` (a set: `read_dir` gives any order) |
| `case[p]`, `host[p]` | `test_case`; `pre_state_ssz_bytes` and `input` |
| `stdin[p]` | `SP1Stdin`, `ExecutorEnv`, the Pico stdin builder, Jolt's arguments, the bytes `read_input()` returns in ZISK's guest |
| `guest[p]` | `state` and `input` of the guest's `main` |
| `output[p]`, `proof[p]` | the root in the public output; the proof and whether it was verified |
| `status[p]` | "reported" once the `Cycle Tracker End` line is logged: each gives a row of the summary |
| `exit[p]` | how the process ended |
| `input_bin` | `guest/zisk/build/input.bin`, shared: the piece at each of `Parts` places, `Corrupt` where nothing is written (past the end, or a hole) |
| `buffer[p]` | how far `fs::write` of `p` has got, or what `p`'s ziskemu has read so far, piece by piece |

A case runs `prepare → write → read_pre_state → read_input → process → commit →
specs → recompute → end`; ZISK replaces `write` by `build → truncate → fill →
(rom_setup) → load`, where `fill` and `load` take a step per piece and one to end
(`CloseZiskInput`, `DecodeZiskInput`); prove mode inserts `prove → verify` after `commit` (no `verify`
for Pico); Jolt goes from `commit` to `end`. The guest is stepped between the
host's steps, although the host waits for it, because with ZISK it reads a file
that others write. With a prover, the execution that is proved is the guest's.

`std::fs::write` of a few megabytes (`main.rs:968`) truncates the file and then writes it
at its own offset, and ziskemu reads it likewise; other processes may do the same
between any two pieces. Pieces that are all of one input decode to it; a file that is
all gaps does not decode. What bincode and SSZ make of anything else depends on the
bytes (two pre-states of equal size may well be mixed into a third that decodes), so
`Decodings` leaves it open: a panic, or any input of the constant `Mixtures`.

Data is abstract. A state is a value whose root is injective; a file is a state or
payload, or `Absent`, `Corrupt` (snappy fails) or `Malformed` (SSZ decoding fails).
The transition function is an arbitrary `Transition(handler, payload, state)` that
returns a verdict and a state, mutated or not, or traps. Everything the dispatch
does is a table, copied row by row from the code; the vectors' own tables
(`Fixture…`) are what it is compared with.

Assumed of what lies outside the sources: an SDK or tool call succeeds, fails, or
runs the guest to its root or its panic. A guest panic reaches the host as an error
that the runner unwraps (ZISK: a failing status, and exit code 1). For Jolt, whose
trace function returns nothing the runner looks at, both a panic and a normal
return are possible (`JoltGuestPanic`). The tools are installed, and `HOME` is set.
What `cargo-zisk prove` does without an input file is taken to be a failure.

`LogTable`:

| Variable | Code |
|---|---|
| `backend`, `todo`, `case` | `ZKVM` and `MODE`; the loop of `run_tests` |
| `lines`, `reported` | what the runner of the current case has yet to log, in blocks that are written at once; the cases whose End line is in the log |
| `stage` | the process; the analysis for ZISK; the awk program |
| `log` | the log, then the lines awk has not read. A line is a record of the pattern it matches, a key and a value; lines no pattern matches are left out |
| `timing` | the temporary file with the output of `--shell-vars` |
| `acc`, `table` | the variables of the awk program; `$OUTPUT_FILE` |

One action per pattern would only repeat the table of `Accumulate`; `ReadLine` does
what the matching pattern does, `ReadEndLine` is the last pattern, with the row
and the reset. Cycles, times and their shares are integers (times in thousandths),
shares rounded down, where awk prints six decimals.

`Download`: `script` is the statement of `download_and_extract` about to execute;
curl and tar take a step per archive member and may stop between any two, tar also
inside a member (`Torn`). `archive`, `directory` and `tree` are the files; `bench` and
`listed` the benchmark make starts and the cases it found; `cut` remembers that what is
in the directory was cut short; `calm` that from now on nothing fails.

`Pipeline`: `pc[t]` is the step of target `t`'s recipe, `files[name]` the lines of a
file under the name built by the program that opens it: `TeeFile` and `SortFile`
by the Makefile, `LOG_FILE` and `OUTPUT_FILE` by the parser, `Sorted` by the sorter. A
name is the tuple of its parts; separators are left out. `_` also occurs within
operations, but the backends and modes have none, and an operation is the last part.

## 3. Runs

| Run | Instance | Shows |
|---|---|---|
| `backends` | 1 process, 2 cases, 5 backends × 2 modes × 2 operations × recompute on and off, exclusions; 15 kinds of directory per case | `TypeOK`, `ReportedConforms`, `PanicIsDeserved`, `CleanExitCoversAll`, `ReportedOnlyVerified`, `ImplementsContract`, `Termination` |
| `dispatch` | 1 process, 1 case, 23 operations; each transition function leads to a state of its own | `PanicIsDeserved`: no row of the tables is wrong |
| `serial_zisk` | 2 ZISK processes one at a time, 2 cases, kills between any two pieces; the input file absent, half written or another case's at the start | `GuestRunsThisCase`, and `IInv`, the invariant of the proofs |
| `parallel_zisk` | 2 ZISK processes at once, with and without `--compare-recompute`, 2 cases, kills; the same files at the start; mixtures that decode | `RecomputedReportConforms`, `NothingLeftIsLoaded` |
| `tables` | 3 cases, one excluded, 5 backends × 2 modes, SP1's trackers in 3 orders; the process stops after any line | `TypeOK`, `MeasuredRowsAddUp`, `EstimateIsOfFirstCase`, `EstimateAddsUp`, `ImplementsSummary`, `FinishesSummary` |
| `downloads` | 2 releases of 3 and 2 members, 2 forks; make and clean in any order, failures and kills at any step | `TypeOK`, `TreeIsOfOneRelease`, `BenchmarkSeesWholeTree`, `RetryRecovers` |
| `recipes` | 2 targets with 2 and 1 cases, 3 pairs of backend and mode (one unknown backend), 2 makes, with `-j` or without, kills | `TypeOK`, `TablesAreOfOneRun`, `FinishedTableIsComplete`, `RecipesKeepToTheirTables` |
| `jolt_compares` | 1 Jolt process, no case that traps | **violated**: `EveryReportWasCompared` |
| `zisk_proves` | 1 ZISK process in prove mode | **violated**: `ProverLoadsWrittenInput` |
| `zisk_rows` | `tables` with ZISK only | **violated**: `EveryRowAddsUp` |
| `sub_second` | `tables` with RISC Zero only | **violated**: `TimesAreSeconds` |
| `says_complete` | as `downloads` | **violated**: `CompleteIsComplete` |

The properties, in words:

* `ReportedConforms`: if a process that shares no file with a running ZISK process
  reports a case, then the files decode, `post` is absent or decodes, and ream's
  function for that directory leaves the expected state. (For Jolt it claims
  nothing: see the findings.)
* `PanicIsDeserved`: an execution panics only over a case that is damaged, traps,
  is not implemented or that ream gets wrong. With `ReportedConforms`, this is what
  the comparisons are for: no false pass and no false alarm.
* `CleanExitCoversAll`: after a normal end each listed case is skipped if excluded
  and reported if not.
* `ReportedOnlyVerified`: in prove mode, a report by SP1, RISC Zero or ZISK comes
  after that case's proof was verified. (ZISK never gets so far, see the findings.)
* `GuestRunsThisCase`: the guest is about to process the files of the case its host
  is on.
* `RecomputedReportConforms`: when ZISK processes do overlap, a guest may run another
  process's case, or a mixture of several. With `--compare-recompute` a reported case
  is nevertheless one that ream gets right: the root matches the vectors' and the
  one the host computes from its own files. Without that option the code provides
  less, and `ReportedConforms` is stated for `Isolated` processes only: a mixture, or
  another case, may have the root the vectors ask for although ream gets the case
  itself wrong. A false alarm is possible with it and without it.
* `NothingLeftIsLoaded`: however they overlap, what ZISK processes load are pieces
  of cases these processes run, never of a file that an earlier make left behind.
* `ImplementsContract`: all of this as one behaviour; every step of the harness is a
  step of `HarnessContract` or a stutter.
* `Termination`: every process ends.
* `MeasuredRowsAddUp`: for every backend but ZISK, the phases of a row are parts of
  its total, and their seconds parts of what the host call took, whichever branch the
  End line took. A host call printed in milliseconds is excepted from the second half:
  there the seconds are a thousand times too many (`TimesAreSeconds`).
* `ImplementsSummary`: rows are the reported cases, in order, each once, with the
  figures measured on that case. (Phases of ZISK are left out, and times compared in
  one unit: see the findings.)
* `FinishesSummary`: every case whose End line was logged gets its row, wherever the
  log stops. It is the fairness of `SummaryContract`, kept apart from its steps because
  these are proved and this is not.
* `EstimateIsOfFirstCase`, `EstimateAddsUp`: what ZISK's phases do say. They are the
  shares of the first case of the log, whatever follows, even if the log stops in a
  later case; and truncation loses less than a cycle per stage.
* `TreeIsOfOneRelease`: the tree is at any moment what an extraction of one release
  leaves that stopped somewhere: no mix, at most one file in pieces.
* `BenchmarkSeesWholeTree`: without `-j`, over a tree that was not cut short, a
  benchmark lists all cases of its fork, with every file whole.
* `RetryRecovers`: once nothing fails any more and no directory is there, asking for
  the download leads to a whole tree, whatever archive was left behind.
* `TablesAreOfOneRun`: a log, a summary and a sorted summary hold rows of their own
  backend, mode and target only, of one run, no case twice.
* `FinishedTableIsComplete`: at the end of a recipe its sorted table has exactly the
  cases its own process reported; if one is missing the process failed.
* `RecipesKeepToTheirTables`: a sorted table changes only by its own recipe or
  `make clean`.

**Bounds.** Two processes suffice for the only shared object, a file in which
`Parts` = 2 pieces are written and read one by one: two pieces make a first and a last
one, hence every relation of two writers, or of a writer and a reader, that one
overtakes, and a third process would add no piece of another kind. `Mixtures` are the
inputs with either state and an operation that is applied or rejected, among them
those of the cases. `serial_zisk` has the same ones, and shows that without overlap no
guest runs on one; the runs of a single process have none. Two cases make a
"previous" and a "next" one, so leftovers between cases, order and exclusion are
exercised. Two states make "changed" and "unchanged"; five payloads make every
outcome of a transition (applied, rejected, rejected after mutating, accepted
without effect, trap). `backends` uses one block and one epoch operation: others
differ in the tables only, which `dispatch` goes through. Two `post` damages and all
damages of `pre` and of the operation file occur in `DamagedFixtures`.
`tables` needs two cases for what one inherits from the other and a third that is
skipped; the first costs more than the second and takes over a second, the second
less. `downloads` needs two releases to mix, of different lengths, with a case and a
fork that only one has; three members are enough for a first, a middle and a last.
`recipes` needs two targets to run side by side, two cases to order, and two runs for
a leftover and what comes after it (`MaxRuns` bounds how often make is started).
`CHECK_DEADLOCK FALSE` is set where processes end; `downloads` and `recipes` go on for
ever or until `MaxRuns`, where `Clean` remains possible.

**Fairness.** `FairSpec` of `BeaconHarness` has weak fairness on the steps of each
process: the system schedules a process that is not waiting, and the tools it calls
return. The code has no timeout, so the second half is an assumption. Nothing is
assumed of `Kill`. `LogTable` has weak fairness on its next step: a process that
ends (`Termination`) and a script over a finite file. `Download` has weak
fairness on what runs, and strong fairness on `AskForDownload`: someone asks again.
Failures and kills are not fair, and stop when `calm` becomes true; it need not.

### Findings

* `run_jolt_test` compares nothing, though `--compare-specs` is documented to compare
  (`main.rs:117`) and is on: a Jolt row says only that files could be read.
* In prove mode ZISK's prover is handed `../guest/zisk/build/input.bin`, a path
  relative to `host/`, while its working directory is `guest/zisk`: it looks under
  `guest/guest/zisk` and never sees the input
  (`EXECUTION_VS_PROOF_IMPLEMENTATION.md:135`, `main.rs:638-648`).
* The per-operation columns of ZISK's rows are the same in every row of a table: the
  analysis runs once over the whole log and takes the first execution statistics
  (`parse_log_to_table.sh:23-28`, `timinganalysis.py:133`). The phases of a case that is
  cheaper than the first cost more than the whole, as in the published
  `sorted_summary_zisk_block_deposit.md`.
* `exec_time_seconds` is not seconds when RISC Zero takes less than one: the unit of the
  printed `Duration` is dropped (`parse_log_to_table.sh:211-215`, `main.rs:419`).
* "Extraction complete." is said after a lost connection or an error page, and the
  directory that is left counts as extracted from then on
  (`download_ef_data.sh:10,25,34-36`).

Seen while modelling, without a run of their own:

* README.md:224 says of Jolt that it "provides trace length metrics"; the line is
  commented out (`main.rs:876`), so that each Jolt row has a total of 0.
* `make clean` removes `host/mainnet.tar.gz` (`Makefile:331`); the script stores the
  archive in `host/subscripts/`. `Clean` of `Download` leaves it, and `RetryRecovers`
  holds nevertheless.
* The status of a recipe's pipeline is `tee`'s: "Execution complete" (`Makefile:258`)
  is said of a harness that panicked, and the table made of what it had logged.
  `EndHarness` of `Pipeline` goes on after any end.

## 4. Proofs

| Module | Theorem | Statement |
|---|---|---|
| `BeaconHarness_proofs` | `TypeCorrect` | `Spec => []TypeOK` |
| | `ReportIsSound` | `Spec => []ReportedConforms` |
| | `GuestIsAttributed` | `Spec => []GuestRunsThisCase` |
| | `IInvInvariant` | `Spec => []IInv` |
| `BeaconHarness_contract` | `CleanExitIsComplete` | `Spec => []CleanExitCoversAll` |
| | `ProvedIsVerified` | `Spec => ReportedOnlyVerified` |
| | `PanicsAreDeserved` | `Spec => []PanicIsDeserved` |
| | `HarnessImplementsContract` | `~Parallel` implies `Spec => ImplementsContract` |
| `BeaconHarness_overlap` | `RecomputedReportIsSound` | `Spec => []RecomputedReportConforms` |
| | `LoadsNothingLeft` | `Spec => []NothingLeftIsLoaded` |
| `Download_proofs` | `DownloadTypes` | `Spec => []TypeOK` |
| | `OneRelease` | `Spec => []TreeIsOfOneRelease` |
| | `WholeTree` | `Spec => []BenchmarkSeesWholeTree` |
| `Pipeline_proofs` | `TablesAreKept` | `Spec => RecipesKeepToTheirTables` |
| `Pipeline_tables` | `PipelineTypes` | `Spec => []TypeOK` |
| | `TablesOfOneRun` | `Spec => []TablesAreOfOneRun` |
| | `FinishedTables` | `Spec => []FinishedTableIsComplete` |
| `ZiskTiming_proofs` | `ShellVarsAddUp` | truncating the shares loses less than a cycle per stage |
| | `ShellVarsOfCopies` | equal proportions and totals give equal shares |
| `LogTable_proofs` | `LogTableTypes` | `Spec => []TypeOK` |
| | `RowsAddUp` | `Spec => []MeasuredRowsAddUp` |
| | `EstimateOfFirstCase` | `Spec => []EstimateIsOfFirstCase` |
| | `EstimateOfTotal` | `Spec => []EstimateAddsUp` |
| | `TableImplementsSummary` | `Spec => ImplementsSummary` |

They hold for any sets of processes, cases, states and payloads, any transition
function, any trees and command lines, with or without overlap (but for the
refinement of `HarnessContract`, which needs isolated processes); for any releases,
archives and forks; for any targets, backends and number of runs; for any cases with
any costs, and any order of SP1's trackers. With them, every safety property that a
passing run checks is proved; the runs keep them honest (each has a mutant that
breaks it) and show that the theorems are not empty.

Assumptions: those named in the modules. `TransitionAssumption` types the transition
function; `SentinelAssumption` keeps the markers for files apart from data;
`InvocationsAssumption`, `TreesAssumption`, `LeftoversAssumption`, `PartsAssumption`,
`MixturesAssumption` and `ParallelAssumption` type the constants of `BeaconHarness` (the
file has a piece at least, and a mixture decodes to bytes and an operation);
`ContentsAssumption` makes an archive a sequence of members, and `MarkersAssumption` keeps the markers of
`Download` apart; `BackendAssumption`, `CaseAssumption` and `MaxRunsAssumption` type those
of `Pipeline`, where `AbsentAssumption` says that a file that is not there is none with
lines; `BackendsAssumption`, `FiguresAssumption` and `OrdersAssumption` type those of
`LogTable`: a counter only grows, each phase takes a cycle at least and comes after the
one before, and SP1's report has every tracker. TLC evaluates them in every run.

### BeaconHarness

The argument is in two layers, because neither property is inductive.

1. `TypeInv` = `TypeOK`, `ChannelInv`, `SharingInv`. That a guest holds a decoded
   state depends on what its channel carries, so `ChannelInv` says that the channel
   is always `Frames` of some input; the `Framing` lemma, that reading undoes
   writing for each backend. That ZISK's guest finds a file, and
   the pieces of an input in it, depends on only ZISK processes coming near the file,
   which is in `SharingInv`.
2. `SoundInv` = `ReportedConforms`, `HostInv`, `GuestInv`, `ComparedInv`: from the files
   of the case, to what the host holds, to what the guest holds, to the root, to the
   comparison. `OwnSound` goes through the actions of the process that steps,
   `OthersSound` shows that its step does not disturb what is known of the others:
   the only place where isolation is needed. `EndIsReportable` closes the chain: at the End
   line, `MatchesSpecs` and `ProcessIsTransition` (which rests on the lemmas about the
   dispatch tables, `BlockDispatch` and `EpochDispatch`) give `Reportable`.

`BeaconHarness_contract` builds on both. `StepKinds` sorts the steps into the few kinds
the loop over the cases can tell apart; with it, `SettledInvs` (a case is pending
exactly if it is still to do, is the current one, or belongs to a process that gave
up) gives `CleanExitIsComplete`, and `ProvingInvs` (after `verify` the proof is verified)
gives `ProvedIsVerified`. `PanicStep` shows that no disjunct of a panic is enabled over a
faultless case; `FaultlessReturns`, that the transition function is total there. The
refinement takes each kind of step to a step of `HarnessContract` or a stutter
(`StepKeepsContract`); it assumes `~Parallel` because the contract promises
correctness unconditionally and overlapping ZISK processes do not keep it.

`BeaconHarness_overlap` is about those, so isolation cannot be used. For
`RecomputedReportIsSound` nothing need be known of what the guest read: `OverlapInv` says
that at the bottom of the loop the root matches both references, each computed from
the files of the case itself (`HostInv`), and `AgreedIsConformant` that this makes the
case `Reportable`. For `LoadsNothingLeft` the invariant `Origins` says that a piece is a
gap or `Genuine`, of an input of a case one of the processes was asked to run: `FileInv`
of the file once some process has truncated it, `LoadInv` of what was read.

### Download

`Inv` = `TypeOK`, `ScriptInv`, `TreeInv`, `TreeIsOfOneRelease`, `BenchInv`. That two
releases do not mix depends on tar starting from an empty tree, hence on the
directory test having failed, which has to be carried through every line of the
script (`ScriptInv`: up to `mkdir` there is no directory, and without a directory the
tree is empty). `TreeInv` says what tar has written at each member; `BenchInv`, that
without `-j` a running benchmark has seen what is there now. The lemmas `UnpackedNone`
and `UnpackedNext` are the induction step of an extraction, and `ListingOfWhole`
relates a whole tree to the cases of a fork.

### Pipeline

A recipe keeps to its table because no two of the names collide. Names are
concatenations, so the lemmas `Words…` write them out as tuples, `SortedApart` and
`SortedIsNoOther` compare them element by element, and `StepKeepsTables` goes through
the actions, each of which writes one file. `FilesInv` keeps `files` a function on the
names.

What is in the files is another matter, since any of them may be left over from an
earlier make that was killed. The invariant of `Pipeline_tables` therefore says two
things. `FileInv`, of *every* file: it is absent, or rows of one process (`Good`), under
the heading if it is a table, whoever left it. `RecipeInv`, of the files of each recipe
*that is under way*: how far its own process has got (`Progress`), label by label: the
log is of this run from the moment tee emptied it, the summary is the heading over a
prefix of the log, then over all of it, the table the heading over a reordering.
`OwnStep` goes through the steps of a recipe; `OthersKeep` shows that one recipe does not
disturb another's `Progress`, by `TeeApart`, `SortApart` and `KindsApart`, the injectivity of
the names. `PrefixGood` and `ReorderedGood` carry `Good` from log to summary to table. A
reordering is a bijection on indices, so no induction is needed.

### LogTable

A row is right if every line read since the last End line is of the case whose End
line comes next, and none of its lines is missing. The state does not say which
case a line is of, and a log is any number of cases long. So the invariant (`Inv`)
numbers the lines: there is a function `own` from the lines of the log to the
positions of cases in `reported` (`LogInv`), under which

* an End line ends its number and no other line does (`Ordered`);
* a line numbered k is an End line, of a skipped case, or one that the backend logs for
  the k-th case, or for the case that runs if k is one more than were reported (`Assigned`);
* of a case that has no row yet every line is in the log under its number or, for the next
  row, was read (`NoneMissing`); of the case that runs, or is still to come (`Coming`).

`IsLineOf` says which lines a backend logs for a case, and `Sp1Tells` to `ZiskTells` that the
runners log these and no other. On the side of awk, `Between` says that
an accumulator is unset or holds the figure of the one case, whatever the order of
the lines; `Took`, that it holds what a given line said. `ReadingTakes` is the step of
`Accumulate`; `AllTaken`: once all lines of a case were taken, the accumulators are
`Complete`; `FormatGuess`, that the End block then guesses the format of the backend that
wrote the log; `RowOfCase`, that the printed row is typed, adds up and reads as
`TrueRow` of `SummaryContract`. `LogBlock` extends the numbering and the two reading steps
shorten it (`ExtendedOrder`, `TailOrder`); at an End line `RowIsOfCase` puts the two sides
together. The refinement follows: the last block of a case is `Report`, an End line that is
read is `Tabulate`, all else is a stutter.

For the estimate `TimingInv` says that, whatever the log, each stage weighs m times what it
weighs in one run of the guest, since every run prints the same. Proportions are kept, so
the shares are those of one run (`ShellVarsOfCopies`), of the total in the first execution
statistics, which `AnalysisIs` shows to be the first reported case's.

`ZiskTiming_proofs` has what this needs of sums and of flat sequences. The library's
induction theorems cannot be used (their parameter is an operator), but that `<` on `Nat` is
well-founded is a fact about a set: the lemma `Induction` takes the set of numbers something
holds of, and gives `SumExists` and `SumTake`, so that `Sum` is what it should be for
*any* finite domain, and from there linearity and bounds. `FlatExists` does the same for
`FlattenSeq`.

### Only model-checked

* Liveness: `Termination`, `RetryRecovers`, `FinishesSummary`; and that actions are enabled
  when they should be. Both are out of the prover's reach.
* That the models can do what they should: a theorem of the form `Spec => []P` also holds
  of a system that does nothing. The runs fire every action, and each property has a
  mutant of the code that a run shows to break it.
* The five findings: each is a behaviour, which TLC exhibits.

## 5. Not modelled

* Log wording, trace and proof files, the analysis' report and JSON export, opcode and
  memory statistics: output that nothing reads.
* SDKs, ream and snappy/SSZ/bincode codecs: external, see the assumptions above.
* `parse_state_root_from_hex`: the root is taken to be the only line of 64 hex digits.
* Proof types select an SDK option. The fork is a part of a directory's name: in
  `Download` it selects what a benchmark lists, elsewhere trees are of one fork.
* When Pico's guest is rebuilt: by hand, outside the pipeline (`README.md:202-206`).
* Floating point in the analysis and in awk: shares are rounded down.
* Full disks, missing tools, unset `HOME`; tools that hang.
* The published results and documents: text.
* Names are tuples of their parts: a backend called with an underscore of its own
  could make two of them one string, which no backend the harness knows has.

## 6. Plan

Done: the core with its contract; log, analysis and table with the contract of a
summary; download; pipeline; every safety property of the runs as a theorem.

Left, in this order:

1. The composition of the contracts in one statement: what `make` leaves in a sorted table,
   from the cases `HarnessContract` allows to be reported, over the rows
   `SummaryContract` makes of them, to the files of `Pipeline`.
2. An inductive argument for `Termination` as far as it goes without fairness: a measure
   that every step of a process but its stutters decreases.
3. Liveness of the composition: that `make all` without failures ends with a table of
   every listed case, over the contracts of the parts.
4. A disk that fills up between two steps of a recipe.
