----------------------------- MODULE BeaconHarness -----------------------------
(***************************************************************************)
(* host/src/bin/main.rs with the guest programs it runs.                   *)
(*                                                                         *)
(* A harness process walks the test cases of one directory.  For each it   *)
(* reads the files, hands them to the guest over the backend's input       *)
(* channel, lets the guest decode, process and commit a state root, has    *)
(* that run proved and the proof verified in prove mode, and compares the  *)
(* root.  A case counts as reported when the process logs                  *)
(* "----- Cycle Tracker End -----" for it: the summary tables have one row *)
(* per such line.  Any mismatch ends the whole process.                    *)
(*                                                                         *)
(* Several processes share the working tree: Make starts one per operation *)
(* and, with -j, several at once.  What they share is ZISK's input file.   *)
(***************************************************************************)
EXTENDS HarnessInputs, Integers, Sequences

CONSTANTS
    Proc,           \* harness processes
    Invocations,    \* command lines they may be started with
    Trees,          \* contents of the test vector tree
    Leftovers,      \* what earlier runs left in guest/zisk/build/input.bin
    Parts,          \* pieces in which that file is written and read
    Mixtures,       \* what pieces of several inputs may decode to
    Parallel        \* whether processes may overlap (make -j) or not

ASSUME InvocationsAssumption == Invocations \subseteq Args

ASSUME TreesAssumption ==
    Trees \subseteq [{a.operation : a \in Invocations} ->
                        [Cases -> Fixture \cup {Absent}]]

ASSUME PartsAssumption == Parts \in Nat \ {0}

ASSUME ParallelAssumption == Parallel \in BOOLEAN

-----------------------------------------------------------------------------
(* What is passed around *)

Bytes == States \cup {Malformed}

BlockInput ==
    [kind           : {"Block"},
     operation_type : {BlockOperationType[op] : op \in BlockOperations},
     ssz_bytes      :
        [container : {FixtureContainer[op] : op \in BlockOperations},
         data      : Payloads \cup {Malformed}]]

EpochInput ==
    [kind           : {"Epoch"},
     operation_type : {EpochOperationType[op] : op \in EpochOperations}]

OperationInput == BlockInput \cup EpochInput

HostData == [pre : Bytes, input : OperationInput]

Frame == [tag : {"len", "bytes"}, val : Bytes]
         \cup [tag : {"input"}, val : OperationInput]

\* A piece of a file: the one at that place of some serialized input, or a gap
\* (nothing written there yet: the end of the file, or a hole of zeros).
Piece == HostData \cup {Corrupt}

File == [1 .. Parts -> Piece]

ASSUME LeftoversAssumption == Leftovers \subseteq File \cup {Absent}

ASSUME MixturesAssumption == Mixtures \subseteq HostData

-----------------------------------------------------------------------------

VARIABLES
    args,       \* args[p]: the command line of p
    disk,       \* disk[operation][case]: the directory of a test case
    pc,         \* pc[p]: the step p is about to take
    todo,       \* todo[p]: cases p has listed and not started
    case,       \* case[p]: the case p is running
    host,       \* host[p]: the bytes and the input p has built for it
    stdin,      \* stdin[p]: what the guest has not read yet
    guest,      \* guest[p]: the guest's state and operation input
    output,     \* output[p]: the root the guest committed
    proof,      \* proof[p]: "none", "generated" or "verified"
    status,     \* status[p][case]: "pending", "skipped" or "reported"
    exit,       \* exit[p]: "running", "ok", "panic", "exit1" or "killed"
    input_bin,  \* guest/zisk/build/input.bin, piece by piece
    buffer      \* buffer[p]: the pieces of it p has written, or read, so far

given   == <<args, disk>>
machine == <<stdin, guest, output, proof>>
file    == <<input_bin, buffer>>
vars    == <<args, disk, pc, todo, case, host, stdin, guest, output, proof,
             status, exit, input_bin, buffer>>

-----------------------------------------------------------------------------
(* Vocabulary *)

Dir(p) == disk[args[p].operation]
Fix(p) == Dir(p)[case[p]]

Goto(p, l) == pc' = [pc EXCEPT ![p] = l]

\* The process ends, whatever is left to do.
Stop(p, code) ==
    /\ Goto(p, "stopped")
    /\ exit' = [exit EXCEPT ![p] = code]
    /\ UNCHANGED <<given, todo, case, host, machine, status, file>>

Active(p) == pc[p] \notin {"start", "stopped"}

Proving(p) == args[p].mode = "prove" /\ args[p].zkvm # "jolt"

\* Backends whose guest is told the length of the pre-state first.
Prefixed == {"risc-zero", "pico"}

\* What the host writes to the guest's input channel, in order.
Frames(zkvm, h) ==
    LET len   == [tag |-> "len", val |-> h.pre]
        bytes == [tag |-> "bytes", val |-> h.pre]
        input == [tag |-> "input", val |-> h.input]
    IN  IF zkvm \in Prefixed THEN <<len, bytes, input>> ELSE <<bytes, input>>

\* The guest reads the pre-state off the channel: RISC Zero reads as many bytes
\* as the length says, Pico reads the length and ignores it.
HoldsPreState(zkvm, s) ==
    IF zkvm \in Prefixed
    THEN /\ Len(s) >= 2 /\ s[1].tag = "len" /\ s[2].tag = "bytes"
         /\ zkvm = "risc-zero" => s[1].val = s[2].val
    ELSE Len(s) >= 1 /\ s[1].tag = "bytes"

PreState(zkvm, s) == s[IF zkvm \in Prefixed THEN 2 ELSE 1].val

AfterPreState(zkvm, s) ==
    IF zkvm \in Prefixed THEN Tail(Tail(s)) ELSE Tail(s)

\* A relative path that climbs out of the directory it is resolved in.
Resolve(cwd, path) == SubSeq(cwd, 1, Len(cwd) - 1) \o Tail(path)

HostDir   == <<"Beacon-Harness", "host">>
GuestDir  == <<"Beacon-Harness", "guest", "zisk">>
InputPath == <<"..", "guest", "zisk", "build", "input.bin">>

\* The directory the program that loads the input runs in: ziskemu inherits the
\* host's, cargo-zisk prove is given the guest's.
LoaderDir(p) == IF Proving(p) THEN GuestDir ELSE HostDir

\* What that program finds at the path the host passes it.
LoadedInput(p) ==
    IF Resolve(LoaderDir(p), InputPath) = Resolve(HostDir, InputPath)
    THEN input_bin ELSE Absent

-----------------------------------------------------------------------------
Init ==
    /\ args \in [Proc -> Invocations]
    /\ disk \in Trees
    /\ pc = [p \in Proc |-> "start"]
    /\ todo = [p \in Proc |-> {}]
    /\ case = [p \in Proc |-> Absent]
    /\ host = [p \in Proc |-> Absent]
    /\ stdin = [p \in Proc |-> <<>>]
    /\ guest = [p \in Proc |-> Absent]
    /\ output = [p \in Proc |-> Absent]
    /\ proof = [p \in Proc |-> "none"]
    /\ status = [p \in Proc |-> [c \in Cases |-> "pending"]]
    /\ exit = [p \in Proc |-> "running"]
    /\ input_bin \in Leftovers
    /\ buffer = [p \in Proc |-> <<>>]

-----------------------------------------------------------------------------
(* run_tests *)

\* Mutant of LoadTestCases: the next process does not wait for the last.
LoadTestCasesAtOnce(p) ==
    /\ pc[p] = "start"
    /\ todo' = [todo EXCEPT ![p] = {c \in Cases : Dir(p)[c] # Absent}]
    /\ Goto(p, "loop")
    /\ UNCHANGED <<given, case, host, machine, status, exit, file>>

\* The directory is listed once; without -j Make starts a process only when
\* none is running.  A directory that does not exist lists as empty.
LoadTestCases(p) ==
    /\ pc[p] = "start"
    /\ Parallel \/ \A q \in Proc : ~Active(q)
    /\ todo' = [todo EXCEPT ![p] = {c \in Cases : Dir(p)[c] # Absent}]
    /\ Goto(p, "loop")
    /\ UNCHANGED <<given, case, host, machine, status, exit, file>>

\* Mutant of SkipCase: break for continue.
SkipCaseAndLeave(p) ==
    \E c \in todo[p] :
        /\ pc[p] = "loop"
        /\ c \in args[p].excluded_cases
        /\ todo' = [todo EXCEPT ![p] = {}]
        /\ status' = [status EXCEPT ![p][c] = "skipped"]
        /\ UNCHANGED <<given, pc, case, host, machine, exit, file>>

\* Mutant of SkipCase: the iterator is not advanced.
SkipCaseAgain(p) ==
    \E c \in todo[p] :
        /\ pc[p] = "loop"
        /\ c \in args[p].excluded_cases
        /\ status' = [status EXCEPT ![p][c] = "skipped"]
        /\ UNCHANGED <<given, pc, todo, case, host, machine, exit, file>>

\* read_dir yields the directories in any order.
SkipCase(p) ==
    \E c \in todo[p] :
        /\ pc[p] = "loop"
        /\ c \in args[p].excluded_cases
        /\ todo' = [todo EXCEPT ![p] = @ \ {c}]
        /\ status' = [status EXCEPT ![p][c] = "skipped"]
        /\ UNCHANGED <<given, pc, case, host, machine, exit, file>>

\* Mutant of StartCase: --excluded-cases is not looked at.
StartAnyCase(p) ==
    \E c \in todo[p] :
        /\ pc[p] = "loop"
        /\ todo' = [todo EXCEPT ![p] = @ \ {c}]
        /\ case' = [case EXCEPT ![p] = c]
        /\ Goto(p, "prepare")
        /\ UNCHANGED <<given, host, machine, status, exit, file>>

StartCase(p) ==
    \E c \in todo[p] :
        /\ pc[p] = "loop"
        /\ c \notin args[p].excluded_cases
        /\ todo' = [todo EXCEPT ![p] = @ \ {c}]
        /\ case' = [case EXCEPT ![p] = c]
        /\ Goto(p, "prepare")
        /\ UNCHANGED <<given, host, machine, status, exit, file>>

Finish(p) ==
    /\ pc[p] = "loop"
    /\ todo[p] = {}
    /\ Stop(p, "ok")

\* Mutant of FilesReadable: epoch cases are taken to have an operation file too.
AllFilesReadable(p) == ssz_from_file(Fix(p).op) /\ ssz_from_file(Fix(p).pre)

\* prepare_input and ssz_from_file panic on a file they cannot read.
FilesReadable(p) ==
    /\ args[p].operation \in BlockOperations =>
           ssz_from_file(OperationFile(args[p].operation, Fix(p)))
    /\ ssz_from_file(Fix(p).pre)

ReadCaseFiles(p) ==
    /\ pc[p] = "prepare"
    /\ FilesReadable(p)
    /\ host' = [host EXCEPT ![p] =
                   [pre   |-> Fix(p).pre,
                    input |-> prepare_input(args[p].operation, Fix(p))]]
    /\ Goto(p, IF args[p].zkvm = "zisk" THEN "build" ELSE "write")
    /\ UNCHANGED <<given, todo, case, machine, status, exit, file>>

\* The bottom of the loop: the End line, and every local of the case dropped.
EndCase(p) ==
    /\ pc[p] = "end"
    /\ status' = [status EXCEPT ![p][case[p]] = "reported"]
    /\ case' = [case EXCEPT ![p] = Absent]
    /\ host' = [host EXCEPT ![p] = Absent]
    /\ stdin' = [stdin EXCEPT ![p] = <<>>]
    /\ guest' = [guest EXCEPT ![p] = Absent]
    /\ output' = [output EXCEPT ![p] = Absent]
    /\ proof' = [proof EXCEPT ![p] = "none"]
    /\ Goto(p, "loop")
    /\ UNCHANGED <<given, todo, exit, file>>

-----------------------------------------------------------------------------
(* Handing the input to the guest *)

\* sp1, risc-zero, pico and jolt build the channel in memory, anew per case.
WriteStdin(p) ==
    /\ pc[p] = "write"
    /\ stdin' = [stdin EXCEPT ![p] = Frames(args[p].zkvm, host[p])]
    /\ Goto(p, "read_pre_state")
    /\ UNCHANGED <<given, todo, case, host, guest, output, proof, status, exit,
                   file>>

BuildZiskGuest(p) ==
    /\ pc[p] = "build"
    /\ Goto(p, "truncate")
    /\ UNCHANGED <<given, todo, case, host, machine, status, exit, file>>

\* The pieces read are all of one input.
Whole(pieces) ==
    pieces[1] \in HostData /\ \A i \in 1 .. Parts : pieces[i] = pieces[1]

\* What bincode may make of the pieces.  It refuses an empty file; pieces of
\* several inputs, or with gaps, it may refuse or take for yet another input.
Decodings(pieces) ==
    IF Whole(pieces) THEN {pieces[1]}
    ELSE IF \A i \in 1 .. Parts : pieces[i] = Corrupt THEN {}
    ELSE Mixtures

\* Mutant of TruncateZiskInput: a file that is already there is used as it is.
KeepZiskInput(p) ==
    /\ pc[p] = "truncate"
    /\ \/ /\ input_bin = Absent
          /\ input_bin' = [i \in 1 .. Parts |-> Corrupt]
          /\ Goto(p, "fill")
       \/ /\ input_bin # Absent
          /\ Goto(p, "load")
          /\ UNCHANGED input_bin
    /\ UNCHANGED <<given, todo, case, host, machine, status, exit, buffer>>

\* fs::write opens the file with truncation, creating it if need be.
TruncateZiskInput(p) ==
    /\ pc[p] = "truncate"
    /\ input_bin' = [i \in 1 .. Parts |-> Corrupt]
    /\ Goto(p, "fill")
    /\ UNCHANGED <<given, todo, case, host, machine, status, exit, buffer>>

\* Then it writes one piece after the other, at its own offset, whatever another
\* process has made of the file meanwhile.
FillZiskInput(p) ==
    LET i == Len(buffer[p]) + 1
    IN  /\ pc[p] = "fill"
        /\ i <= Parts
        /\ input_bin' = [input_bin EXCEPT ![i] = host[p]]
        /\ buffer' = [buffer EXCEPT ![p] = Append(@, host[p])]
        /\ UNCHANGED <<given, pc, todo, case, host, machine, status, exit>>

CloseZiskInput(p) ==
    /\ pc[p] = "fill"
    /\ Len(buffer[p]) = Parts
    /\ buffer' = [buffer EXCEPT ![p] = <<>>]
    /\ Goto(p, IF Proving(p) THEN "rom_setup" ELSE "load")
    /\ UNCHANGED <<given, todo, case, host, machine, status, exit, input_bin>>

RomSetup(p) ==
    /\ pc[p] = "rom_setup"
    /\ Goto(p, "load")
    /\ UNCHANGED <<given, todo, case, host, machine, status, exit, file>>

\* ziskemu, or cargo-zisk prove, reads the file one piece after the other.
ReadZiskInput(p) ==
    LET i == Len(buffer[p]) + 1
    IN  /\ pc[p] = "load"
        /\ LoadedInput(p) # Absent
        /\ i <= Parts
        /\ buffer' = [buffer EXCEPT ![p] = Append(@, LoadedInput(p)[i])]
        /\ UNCHANGED <<given, pc, todo, case, host, machine, status, exit,
                       input_bin>>

\* The guest splits what was read into the pre-state and the operation.
DecodeZiskInput(p) ==
    /\ pc[p] = "load"
    /\ Len(buffer[p]) = Parts
    /\ \E h \in Decodings(buffer[p]) :
           stdin' = [stdin EXCEPT ![p] = Frames("zisk", h)]
    /\ buffer' = [buffer EXCEPT ![p] = <<>>]
    /\ Goto(p, "read_pre_state")
    /\ UNCHANGED <<given, todo, case, host, guest, output, proof, status, exit,
                   input_bin>>

-----------------------------------------------------------------------------
(* The guest program *)

\* Mutant of PreStateReadable: the pre-state is not decoded where it is read.
PreStateFramed(p) == HoldsPreState(args[p].zkvm, stdin[p])

PreStateReadable(p) ==
    /\ HoldsPreState(args[p].zkvm, stdin[p])
    /\ PreState(args[p].zkvm, stdin[p]) # Malformed

GuestReadPreState(p) ==
    /\ pc[p] = "read_pre_state"
    /\ PreStateReadable(p)
    /\ guest' = [guest EXCEPT ![p] =
                    [state |-> PreState(args[p].zkvm, stdin[p]),
                     input |-> Absent]]
    /\ stdin' = [stdin EXCEPT ![p] = AfterPreState(args[p].zkvm, @)]
    /\ Goto(p, "read_input")
    /\ UNCHANGED <<given, todo, case, host, output, proof, status, exit, file>>

InputReadable(p) == stdin[p] # <<>> /\ Head(stdin[p]).tag = "input"

GuestReadInput(p) ==
    /\ pc[p] = "read_input"
    /\ InputReadable(p)
    /\ guest' = [guest EXCEPT ![p].input = Head(stdin[p]).val]
    /\ stdin' = [stdin EXCEPT ![p] = Tail(@)]
    /\ Goto(p, "process")
    /\ UNCHANGED <<given, todo, case, host, output, proof, status, exit, file>>

GuestProcess(p) ==
    /\ pc[p] = "process"
    /\ ProcessReturns(guest[p].input, guest[p].state)
    /\ guest' = [guest EXCEPT ![p].state = Process(guest[p].input, @)]
    /\ Goto(p, "commit")
    /\ UNCHANGED <<given, todo, case, host, stdin, output, proof, status, exit,
                   file>>

\* Where the host goes on: Jolt's runner ends here, whatever the root is.
AfterGuest(p) ==
    IF args[p].zkvm = "jolt" THEN "end"
    ELSE IF Proving(p) THEN "prove" ELSE "specs"

GuestCommit(p) ==
    /\ pc[p] = "commit"
    /\ output' = [output EXCEPT ![p] = Root(guest[p].state)]
    /\ Goto(p, AfterGuest(p))
    /\ UNCHANGED <<given, todo, case, host, stdin, guest, proof, status, exit,
                   file>>

-----------------------------------------------------------------------------
(* Proving and verifying *)

\* Mutant of GenerateProof: the root is compared before the proof is verified.
GenerateUnverifiedProof(p) ==
    /\ pc[p] = "prove"
    /\ proof' = [proof EXCEPT ![p] = "generated"]
    /\ Goto(p, "specs")
    /\ UNCHANGED <<given, todo, case, host, stdin, guest, output, status, exit,
                   file>>

\* Pico's proof is not verified locally.
GenerateProof(p) ==
    /\ pc[p] = "prove"
    /\ proof' = [proof EXCEPT ![p] = "generated"]
    /\ Goto(p, IF args[p].zkvm = "pico" THEN "specs" ELSE "verify")
    /\ UNCHANGED <<given, todo, case, host, stdin, guest, output, status, exit,
                   file>>

VerifyProof(p) ==
    /\ pc[p] = "verify"
    /\ proof' = [proof EXCEPT ![p] = "verified"]
    /\ Goto(p, "specs")
    /\ UNCHANGED <<given, todo, case, host, stdin, guest, output, status, exit,
                   file>>

-----------------------------------------------------------------------------
(* Comparing the committed root *)

\* Mutant of MatchesSpecs: nothing is compared when there is no post-state.
MatchesPostState(p) ==
    Fix(p).post # Absent =>
        Fix(p).post \in States /\ output[p] = Root(Fix(p).post)

\* assert_state_root_matches_specs: the root is that of the post-state, or, when
\* there is none, of the pre-state the host has in memory; both may not decode.
MatchesSpecs(p) ==
    IF Fix(p).post # Absent
    THEN /\ Fix(p).post \in States
         /\ output[p] = Root(Fix(p).post)
    ELSE /\ host[p].pre \in States
         /\ output[p] = Root(host[p].pre)

CompareSpecs(p) ==
    /\ pc[p] = "specs"
    /\ MatchesSpecs(p)
    /\ Goto(p, IF args[p].compare_recompute THEN "recompute" ELSE "end")
    /\ UNCHANGED <<given, todo, case, host, machine, status, exit, file>>

\* assert_state_root_matches_recompute: the host decodes the pre-state it has in
\* memory and runs the same process().
MatchesRecompute(p) ==
    /\ host[p].pre \in States
    /\ ProcessReturns(host[p].input, host[p].pre)
    /\ output[p] = Root(Process(host[p].input, host[p].pre))

\* Mutant of CompareRecompute: a mismatch is logged and not asserted.
LogRecompute(p) ==
    /\ pc[p] = "recompute"
    /\ Goto(p, "end")
    /\ UNCHANGED <<given, todo, case, host, machine, status, exit, file>>

CompareRecompute(p) ==
    /\ pc[p] = "recompute"
    /\ MatchesRecompute(p)
    /\ Goto(p, "end")
    /\ UNCHANGED <<given, todo, case, host, machine, status, exit, file>>

-----------------------------------------------------------------------------
(* The ways a process ends early *)

\* Conditions under which a step of the host panics.
HostPanics(p) ==
    \/ pc[p] = "prepare" /\ ~FilesReadable(p)
    \/ pc[p] = "specs" /\ ~MatchesSpecs(p)
    \/ pc[p] = "recompute" /\ ~MatchesRecompute(p)

HostPanic(p) == HostPanics(p) /\ Stop(p, "panic")

\* Conditions under which the guest panics.
GuestPanics(p) ==
    \/ pc[p] = "load" /\ LoadedInput(p) = Absent
    \/ pc[p] = "load" /\ Len(buffer[p]) = Parts /\ ~Whole(buffer[p])
    \/ pc[p] = "read_pre_state" /\ ~PreStateReadable(p)
    \/ pc[p] = "read_input" /\ ~InputReadable(p)
    \/ /\ pc[p] = "process"
       /\ ~ProcessReturns(guest[p].input, guest[p].state)

\* The runner unwraps the error of its SDK; ZISK's is a process whose status is
\* checked, and the host exits with 1.
ToolFailure(p) == IF args[p].zkvm = "zisk" THEN "exit1" ELSE "panic"

GuestPanic(p) == GuestPanics(p) /\ Stop(p, ToolFailure(p))

\* Jolt's tracer may also return from a guest that panicked: run_jolt_test takes
\* nothing from it that would tell, and goes on to the next case.
JoltGuestPanic(p) ==
    /\ args[p].zkvm = "jolt"
    /\ GuestPanics(p)
    /\ Goto(p, "end")
    /\ UNCHANGED <<given, todo, case, host, machine, status, exit, file>>

\* The guest build, the prover and the verifier may fail on their own.  That the
\* tools are installed and can be started is taken for granted.
ToolFails(p) ==
    /\ pc[p] \in {"build", "rom_setup", "prove", "verify"}
    /\ Stop(p, ToolFailure(p))

\* The process is killed: the terminal, or the kernel short of memory.
Kill(p) == Active(p) /\ Stop(p, "killed")

-----------------------------------------------------------------------------
Step(p) ==
    \/ LoadTestCases(p) \/ SkipCase(p) \/ StartCase(p) \/ Finish(p)
    \/ ReadCaseFiles(p) \/ WriteStdin(p)
    \/ BuildZiskGuest(p) \/ TruncateZiskInput(p) \/ FillZiskInput(p)
    \/ CloseZiskInput(p) \/ RomSetup(p) \/ ReadZiskInput(p)
    \/ DecodeZiskInput(p)
    \/ GuestReadPreState(p) \/ GuestReadInput(p) \/ GuestProcess(p)
    \/ GuestCommit(p)
    \/ GenerateProof(p) \/ VerifyProof(p)
    \/ CompareSpecs(p) \/ CompareRecompute(p) \/ EndCase(p)
    \/ HostPanic(p) \/ GuestPanic(p) \/ JoltGuestPanic(p) \/ ToolFails(p)

Next == \E p \in Proc : Step(p) \/ Kill(p)

Spec == Init /\ [][Next]_vars

\* A process that can take a step does: the operating system schedules it, and
\* the SDKs and tools it calls return.  Nothing makes anyone kill it.
Fairness == \A p \in Proc : WF_vars(Step(p))

FairSpec == Spec /\ Fairness

-----------------------------------------------------------------------------
(* Properties *)

GuestData == [state : States, input : OperationInput \cup {Absent}]

Labels == {"start", "loop", "prepare", "write", "build", "truncate", "fill",
           "rom_setup", "load", "read_pre_state", "read_input", "process",
           "commit", "prove", "verify", "specs", "recompute", "end", "stopped"}

\* Type correctness: in particular the guest only ever holds a decoded state
\* (GuestReadPreState and process() panic rather than go on without one) and
\* only a decoded pre-state is ever processed.
TypeOK ==
    /\ args \in [Proc -> Invocations]
    /\ disk \in Trees
    /\ pc \in [Proc -> Labels]
    /\ todo \in [Proc -> SUBSET Cases]
    /\ case \in [Proc -> Cases \cup {Absent}]
    /\ host \in [Proc -> HostData \cup {Absent}]
    /\ stdin \in [Proc -> Seq(Frame)]
    /\ guest \in [Proc -> GuestData \cup {Absent}]
    /\ output \in [Proc -> Roots \cup {Absent}]
    /\ proof \in [Proc -> {"none", "generated", "verified"}]
    /\ status \in [Proc -> [Cases -> {"pending", "skipped", "reported"}]]
    /\ exit \in [Proc -> {"running", "ok", "panic", "exit1", "killed"}]
    /\ input_bin \in File \cup {Absent}
    /\ buffer \in [Proc -> Seq(Piece)]

\* No other process writes the file this one's guest reads while it runs.
Isolated(p) ==
    \/ ~Parallel
    \/ args[p].zkvm # "zisk"
    \/ \A q \in Proc \ {p} : args[q].zkvm # "zisk"

\* The guest of run_*_test processes the pre-state and the operation of the case
\* the host is running, whatever the channel it got them over, and whatever a
\* killed or failed process left in ZISK's input file.
GuestRunsThisCase ==
    \A p \in Proc :
        Isolated(p) /\ pc[p] = "process" =>
            /\ guest[p].state = Fix(p).pre
            /\ guest[p].input = prepare_input(args[p].operation, Fix(p))

\* A row of the summary is a correct one: when run_tests reports a case, ream's
\* function for the directory's operation yields the state the vectors ask for.
ReportedConforms ==
    \A p \in Proc, c \in Cases :
        Isolated(p) /\ status[p][c] = "reported" =>
            Reportable(args[p], Dir(p)[c])

\* Conversely an execution only panics, in a guest or in an assert_eq, over a
\* case that deserves it: the comparisons and the dispatch raise no false alarm.
PanicIsDeserved ==
    \A p \in Proc :
        Isolated(p) /\ exit[p] = "panic" /\ ~Proving(p) =>
            ~Faultless(args[p], Fix(p))

\* A process that ends normally has accounted for every directory it listed:
\* skipped if --excluded-cases names it, reported if not.
CleanExitCoversAll ==
    \A p \in Proc, c \in Cases :
        exit[p] = "ok" /\ Dir(p)[c] # Absent =>
            status[p][c] = IF c \in args[p].excluded_cases
                           THEN "skipped" ELSE "reported"

\* In prove mode the runners of SP1, RISC Zero and ZISK report a case only after
\* the proof generated for that very case was verified.
ReportedOnlyVerified ==
    [][\A p \in Proc, c \in Cases :
          /\ status[p][c] # "reported" /\ status'[p][c] = "reported"
          /\ Proving(p) /\ args[p].zkvm # "pico"
          => proof[p] = "verified"]_vars

\* With --compare-recompute a row of the summary is a correct one whatever other
\* processes do to the file meanwhile, so that the guest may have run on another
\* case's input or on a mixture of several.
RecomputedReportConforms ==
    \A p \in Proc, c \in Cases :
        args[p].compare_recompute /\ status[p][c] = "reported" =>
            Reportable(args[p], Dir(p)[c])

\* h is what the host makes of the files of a case that q is to run.
MadeOf(h, q, c) ==
    LET op == args[q].operation
        f  == disk[op][c]
    IN  /\ f # Absent
        /\ c \notin args[q].excluded_cases
        /\ h = [pre |-> f.pre, input |-> prepare_input(op, f)]

\* However ZISK processes overlap, what is loaded are pieces of the cases these
\* processes run: never a piece of what an earlier make left behind.
NothingLeftIsLoaded ==
    \A p \in Proc :
        pc[p] = "load" =>
            \A i \in 1 .. Len(buffer[p]) :
                \/ buffer[p][i] = Corrupt
                \/ \E q \in Proc, c \in Cases : MadeOf(buffer[p][i], q, c)

\* What main.rs says of --compare-specs, which every process has on: the root of
\* a reported case was compared with the vectors'.  run_jolt_test compares none.
EveryReportWasCompared ==
    \A p \in Proc, c \in Cases :
        status[p][c] = "reported" => Conforms(args[p].operation, Dir(p)[c])

\* What EXECUTION_VS_PROOF_IMPLEMENTATION.md says of run_zisk_test in prove mode:
\* it gives the prover the input.  The path is relative to another directory.
ProverLoadsWrittenInput ==
    \A p \in Proc :
        pc[p] = "load" /\ Proving(p) =>
            LoadedInput(p) = [i \in 1 .. Parts |-> host[p]]

\* Every process ends: no case is waited for for ever, no step is stuck.
Termination == \A p \in Proc : <>(pc[p] = "stopped")

-----------------------------------------------------------------------------
(* The inductive invariant behind them: what holds between two steps *)

InCase(p) == pc[p] \notin {"start", "loop", "stopped"}

HasHost(p) == InCase(p) /\ pc[p] # "prepare"

HasOutput(p) ==
    /\ pc[p] \in {"prove", "verify", "specs", "recompute", "end"}
    /\ args[p].zkvm # "jolt"

InputFrame(h) == [tag |-> "input", val |-> h.input]

\* Whoever wrote it, the channel always carries some input and nothing else: the
\* guest never blocks on a frame that is missing or of another kind.
ChannelInv(p) ==
    /\ InCase(p) => case[p] \in Cases /\ Fix(p) # Absent
    /\ \A c \in todo[p] : Dir(p)[c] # Absent
    /\ HasHost(p) => host[p] \in HostData
    /\ pc[p] \in {"fill", "rom_setup", "load"} => input_bin \in File
    /\ pc[p] \in {"fill", "load"} => Len(buffer[p]) <= Parts
    /\ pc[p] \notin {"fill", "load", "stopped"} => buffer[p] = <<>>
    /\ pc[p] = "read_pre_state" =>
           \E h \in HostData : stdin[p] = Frames(args[p].zkvm, h)
    /\ pc[p] = "read_input" =>
           \E h \in HostData : stdin[p] = <<InputFrame(h)>>
    /\ pc[p] \in {"read_input", "process", "commit"} => guest[p] \in GuestData
    /\ pc[p] = "process" => guest[p].input \in OperationInput

\* Only ZISK's runner comes near the file, and without -j one process at a time.
SharingInv ==
    /\ \A p \in Proc :
           pc[p] \in {"build", "truncate", "fill", "rom_setup", "load"} =>
               args[p].zkvm = "zisk"
    /\ ~Parallel => \A p, q \in Proc : Active(p) /\ Active(q) => p = q

\* The host holds the files of the case it runs.
HostInv(p) ==
    HasHost(p) =>
        /\ FilesReadable(p)
        /\ host[p] = [pre   |-> Fix(p).pre,
                      input |-> prepare_input(args[p].operation, Fix(p))]

\* An isolated guest gets what its host holds, and commits what it makes of it.
GuestInv(p) ==
    /\ pc[p] = "fill" =>
           \A i \in 1 .. Len(buffer[p]) : input_bin[i] = host[p]
    /\ pc[p] \in {"rom_setup", "load"} =>
           \A i \in 1 .. Parts : input_bin[i] = host[p]
    /\ pc[p] = "load" =>
           \A i \in 1 .. Len(buffer[p]) : buffer[p][i] = host[p]
    /\ pc[p] = "read_pre_state" => stdin[p] = Frames(args[p].zkvm, host[p])
    /\ pc[p] = "read_input" =>
           /\ stdin[p] = <<InputFrame(host[p])>>
           /\ guest[p].state = host[p].pre
    /\ pc[p] = "process" =>
           /\ guest[p].input = host[p].input
           /\ guest[p].state = host[p].pre
    /\ pc[p] = "commit" \/ HasOutput(p) =>
           /\ host[p].pre \in States
           /\ ProcessReturns(host[p].input, host[p].pre)
    /\ pc[p] = "commit" =>
           guest[p].state = Process(host[p].input, host[p].pre)
    /\ HasOutput(p) =>
           output[p] = Root(Process(host[p].input, host[p].pre))

\* The End line comes after the comparison.
ComparedInv(p) ==
    pc[p] \in {"recompute", "end"} /\ args[p].zkvm # "jolt" => MatchesSpecs(p)

IInv ==
    /\ TypeOK
    /\ SharingInv
    /\ ReportedConforms
    /\ \A p \in Proc :
           /\ ChannelInv(p)
           /\ HostInv(p)
           /\ Isolated(p) => GuestInv(p)
           /\ ComparedInv(p)

\* Of a directory that was listed, every case is still to come, the one p runs,
\* or settled the way its name asks for, unless the process gave up.
SettledInv(p) ==
    /\ pc[p] = "stopped" <=> exit[p] # "running"
    /\ pc[p] = "start" => \A c \in Cases : status[p][c] = "pending"
    /\ exit[p] = "ok" => todo[p] = {}
    /\ \A c \in todo[p] : status[p][c] = "pending"
    /\ InCase(p) => /\ case[p] \notin args[p].excluded_cases
                    /\ case[p] \notin todo[p]
                    /\ status[p][case[p]] = "pending"
    /\ pc[p] # "start" /\ exit[p] \in {"running", "ok"} =>
           \A c \in Cases :
               \/ Dir(p)[c] = Absent
               \/ c \in todo[p]
               \/ InCase(p) /\ c = case[p]
               \/ status[p][c] = IF c \in args[p].excluded_cases
                                 THEN "skipped" ELSE "reported"

\* The prover is only asked in prove mode, Jolt's runner compares nothing, and
\* what follows the prover follows the verifier.
ProvingInv(p) ==
    /\ pc[p] \in {"prove", "verify"} => Proving(p)
    /\ pc[p] \in {"prove", "verify", "specs", "recompute"} =>
           args[p].zkvm # "jolt"
    /\ pc[p] \in {"specs", "recompute", "end"} /\ Proving(p)
           /\ args[p].zkvm # "pico" => proof[p] = "verified"

-----------------------------------------------------------------------------
(* The harness as a whole keeps the contract of HarnessContract. *)

Contract == INSTANCE HarnessContract
            WITH status <- status, exit <- exit, args <- args, disk <- disk

\* Seen from outside, through the rows reported and the exit code, run_tests and
\* its runners settle cases one by one and stop only as the contract allows.
ImplementsContract == Contract!Spec
================================================================================
