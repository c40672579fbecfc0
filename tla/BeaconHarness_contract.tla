------------------------- MODULE BeaconHarness_contract -------------------------
(***************************************************************************)
(* What a reader of the summary and of the exit code may rely on, proved   *)
(* from the invariants of BeaconHarness_proofs: a clean exit covers every  *)
(* case, a proved case was verified, a panic is deserved; and, of harness  *)
(* processes that do not overlap, the refinement of HarnessContract.       *)
(***************************************************************************)
EXTENDS BeaconHarness_proofs

-----------------------------------------------------------------------------
(* The shape of a step *)

\* A step of p leaves the other processes' lists, proofs and exit codes alone.
LEMMA StepIsOwn ==
    ASSUME TypeInv, NEW p \in Proc, Step(p) \/ Kill(p), NEW q \in Proc \ {p}
    PROVE  todo'[q] = todo[q] /\ exit'[q] = exit[q] /\ proof'[q] = proof[q]
      BY DEF Step, Kill, Stop, TypeInv, TypeOK, given, file, machine, Goto,
             LoadTestCases, SkipCase, StartCase, ReadCaseFiles, WriteStdin,
             BuildZiskGuest, TruncateZiskInput, FillZiskInput, CloseZiskInput,
             RomSetup, ReadZiskInput, DecodeZiskInput, GuestReadPreState,
             GuestReadInput, GuestProcess, GuestCommit, GenerateProof,
             VerifyProof, CompareSpecs, CompareRecompute, EndCase, Finish,
             HostPanic, GuestPanic, JoltGuestPanic, ToolFails

\* The process gives up in the middle of a case, or is killed.
GivesUp(p) ==
    /\ Active(p)
    /\ \E code \in {"panic", "exit1", "killed"} : Stop(p, code)

\* The process gets on with the case it runs.
GetsOn(p) ==
    /\ InCase(p) /\ InCase(p)'
    /\ UNCHANGED <<args, disk, todo, case, status, exit>>

\* Seen from the loop over the cases there are only a few kinds of steps.
LEMMA StepKinds ==
    ASSUME TypeInv, NEW p \in Proc, Step(p) \/ Kill(p)
    PROVE  \/ LoadTestCases(p) \/ SkipCase(p) \/ StartCase(p) \/ Finish(p)
           \/ EndCase(p) \/ GivesUp(p) \/ GetsOn(p)
<1>1. ASSUME HostPanic(p) \/ GuestPanic(p) \/ ToolFails(p) \/ Kill(p)
      PROVE  GivesUp(p)
      BY <1>1 DEF HostPanic, HostPanics, GuestPanic, GuestPanics, ToolFails,
                  ToolFailure, Kill, GivesUp, Active
<1>2. ASSUME \/ ReadCaseFiles(p) \/ WriteStdin(p) \/ BuildZiskGuest(p)
             \/ TruncateZiskInput(p) \/ FillZiskInput(p)
             \/ CloseZiskInput(p) \/ RomSetup(p) \/ ReadZiskInput(p)
             \/ DecodeZiskInput(p) \/ GuestReadPreState(p) \/ GuestReadInput(p)
             \/ GuestProcess(p) \/ GuestCommit(p) \/ GenerateProof(p)
             \/ VerifyProof(p) \/ CompareSpecs(p) \/ CompareRecompute(p)
             \/ JoltGuestPanic(p)
      PROVE  GetsOn(p)
      BY <1>2 DEF ReadCaseFiles, WriteStdin, BuildZiskGuest, TruncateZiskInput,
                  FillZiskInput, CloseZiskInput, RomSetup, ReadZiskInput,
                  DecodeZiskInput, GuestReadPreState, GuestReadInput,
                  GuestProcess, GuestCommit, AfterGuest, GenerateProof,
                  VerifyProof, CompareSpecs, CompareRecompute, JoltGuestPanic,
                  GuestPanics, GetsOn, InCase, Goto, given, file, machine,
                  TypeInv, TypeOK
<1>3. QED BY <1>1, <1>2 DEF Step

-----------------------------------------------------------------------------
(* Every case is settled *)

SettledInvs == \A p \in Proc : SettledInv(p)

\* The step of p keeps what is known of p's own list.
LEMMA OwnSettled ==
    ASSUME TypeInv, NEW p \in Proc, SettledInv(p), Step(p) \/ Kill(p)
    PROVE  SettledInv(p)'
<1>a. TypeOK
      BY DEF TypeInv
<1>1. CASE LoadTestCases(p)
      BY <1>1, <1>a DEF TypeOK, SettledInv, LoadTestCases, InCase, Dir, Goto,
                        given, file, machine
<1>2. CASE SkipCase(p)
      BY <1>2, <1>a DEF TypeOK, SettledInv, SkipCase, InCase, Dir, given, file,
                        machine
<1>3. CASE StartCase(p)
      BY <1>3, <1>a DEF TypeOK, SettledInv, StartCase, InCase, Dir, Goto, given,
                        file, machine
<1>4. CASE Finish(p)
      BY <1>4, <1>a DEF TypeOK, SettledInv, Finish, Stop, InCase, Dir, Goto,
                        given, file, machine
<1>5. CASE EndCase(p)
  <2>1. case[p] \in Cases
        BY <1>5 DEF EndCase, TypeInv, ChannelInv, InCase
  <2>2. QED
        BY <1>5, <1>a, <2>1 DEF TypeOK, SettledInv, EndCase, InCase, Dir, Goto,
                                given, file, machine
<1>6. CASE GivesUp(p)
      BY <1>6, <1>a DEF TypeOK, SettledInv, GivesUp, Active, Stop, InCase, Dir,
                        Goto, given, file, machine
<1>7. CASE GetsOn(p)
      BY <1>7, <1>a DEF TypeOK, SettledInv, GetsOn, InCase, Dir
<1>8. QED BY StepKinds, <1>1, <1>2, <1>3, <1>4, <1>5, <1>6, <1>7

\* And of everyone else's.
LEMMA OthersSettled ==
    ASSUME TypeInv, NEW p \in Proc, Step(p) \/ Kill(p), NEW q \in Proc \ {p},
           SettledInv(q)
    PROVE  SettledInv(q)'
<1>1. /\ args' = args /\ disk' = disk
      /\ pc'[q] = pc[q] /\ case'[q] = case[q] /\ status'[q] = status[q]
      BY StepIsLocal
<1>2. todo'[q] = todo[q] /\ exit'[q] = exit[q]
      BY StepIsOwn
<1>3. QED BY <1>1, <1>2 DEF SettledInv, InCase, Dir

\* Of a directory that was listed every case is to come, running or settled.
LEMMA SettledInvariance == Spec => []SettledInvs
<1>1. Init => SettledInvs
      BY DEF Init, SettledInvs, SettledInv, InCase
<1>2. TypeInv /\ SettledInvs /\ [Next]_vars => SettledInvs'
  <2> SUFFICES ASSUME TypeInv, SettledInvs, [Next]_vars,
                      NEW q \in Proc
               PROVE  SettledInv(q)'
      BY DEF SettledInvs
  <2>1. CASE Next
        BY <2>1, OwnSettled, OthersSettled DEF Next, SettledInvs
  <2>2. CASE UNCHANGED vars
        BY <2>2 DEF vars, SettledInvs, SettledInv, InCase, Dir
  <2>3. QED BY <2>1, <2>2
<1>3. QED BY <1>1, <1>2, TypeInvariance, PTL DEF Spec

\* A process that ends normally has accounted for every directory it listed.
THEOREM CleanExitIsComplete == Spec => []CleanExitCoversAll
<1>1. SettledInvs => CleanExitCoversAll
      BY DEF SettledInvs, SettledInv, CleanExitCoversAll, InCase
<1>2. QED BY <1>1, SettledInvariance, PTL

-----------------------------------------------------------------------------
(* What is proved is verified *)

ProvingInvs == \A p \in Proc : ProvingInv(p)

\* The prover is asked in prove mode only, and a comparison after it follows the
\* verifier.
LEMMA ProvingInvariance == Spec => []ProvingInvs
<1>1. Init => ProvingInvs
      BY DEF Init, ProvingInvs, ProvingInv
<1>2. TypeInv /\ ProvingInvs /\ [Next]_vars => ProvingInvs'
  <2> SUFFICES ASSUME TypeInv, ProvingInvs, [Next]_vars, NEW q \in Proc
               PROVE  ProvingInv(q)'
      BY DEF ProvingInvs
  <2>1. CASE UNCHANGED vars
        BY <2>1 DEF vars, ProvingInvs, ProvingInv, Proving
  <2>2. CASE Step(q) \/ Kill(q)
    <3>1. ProvingInv(q) /\ TypeOK
          BY DEF ProvingInvs, TypeInv
    <3>2. QED
          BY <2>2, <3>1
          DEF TypeOK, ProvingInv, Proving, Step, Kill, Stop, given, file,
              machine, Goto, LoadTestCases, SkipCase, StartCase, ReadCaseFiles,
              WriteStdin, BuildZiskGuest, TruncateZiskInput, FillZiskInput,
              CloseZiskInput, RomSetup, ReadZiskInput, DecodeZiskInput,
              GuestReadPreState, GuestReadInput, GuestProcess, GuestCommit,
              AfterGuest, GenerateProof, VerifyProof, CompareSpecs,
              CompareRecompute, EndCase, Finish, HostPanic, GuestPanic,
              JoltGuestPanic, ToolFails
  <2>3. ASSUME NEW p \in Proc \ {q}, Step(p) \/ Kill(p)
        PROVE  ProvingInv(q)'
    <3>1. args' = args /\ pc'[q] = pc[q] /\ proof'[q] = proof[q]
          BY <2>3, StepIsLocal, StepIsOwn
    <3>2. QED BY <3>1 DEF ProvingInvs, ProvingInv, Proving
  <2>4. QED BY <2>1, <2>2, <2>3 DEF Next
<1>3. QED BY <1>1, <1>2, TypeInvariance, PTL DEF Spec

\* Only the bottom of the loop reports, and only the case p runs.
LEMMA OnlyEndReports ==
    ASSUME TypeInv, NEW p \in Proc, Step(p) \/ Kill(p),
           NEW q \in Proc, NEW c \in Cases,
           status[q][c] # "reported", status'[q][c] = "reported"
    PROVE  q = p /\ EndCase(p) /\ c = case[p]
<1>1. q = p
      BY StepIsLocal
<1>2. ~SkipCase(p)
      BY <1>1 DEF SkipCase, TypeInv, TypeOK
<1>3. EndCase(p)
  <2>1. status' # status
        OBVIOUS
  <2>2. QED BY <1>2, <2>1, StepKinds
            DEF LoadTestCases, StartCase, Finish, GivesUp, GetsOn, Stop
<1>4. QED BY <1>1, <1>3 DEF EndCase, TypeInv, TypeOK

\* In prove mode SP1, RISC Zero and ZISK report a case only after the proof made
\* for it was verified.
THEOREM ProvedIsVerified == Spec => ReportedOnlyVerified
<1> DEFINE Verified ==
        \A p \in Proc, c \in Cases :
            /\ status[p][c] # "reported" /\ status'[p][c] = "reported"
            /\ Proving(p) /\ args[p].zkvm # "pico"
            => proof[p] = "verified"
<1>1. TypeInv /\ ProvingInvs /\ [Next]_vars => [Verified]_vars
  <2> SUFFICES ASSUME TypeInv, ProvingInvs, NEW p \in Proc,
                      Step(p) \/ Kill(p), NEW q \in Proc, NEW c \in Cases,
                      status[q][c] # "reported", status'[q][c] = "reported",
                      Proving(q), args[q].zkvm # "pico"
               PROVE  proof[q] = "verified"
      BY DEF Next
  <2>1. q = p /\ EndCase(p)
        BY OnlyEndReports
  <2>2. QED BY <2>1 DEF EndCase, ProvingInvs, ProvingInv
<1>2. QED BY <1>1, TypeInvariance, ProvingInvariance, PTL
          DEF Spec, ReportedOnlyVerified

-----------------------------------------------------------------------------
(* A panic is deserved *)

\* Over a faultless case process() returns, and the files it needs are there.
LEMMA FaultlessReturns ==
    ASSUME NEW a \in Args, NEW f \in Fixture, Faultless(a, f)
    PROVE  /\ ssz_from_file(f.pre)
           /\ a.operation \in BlockOperations =>
                  ssz_from_file(OperationFile(a.operation, f))
           /\ f.pre \in States
           /\ ProcessReturns(prepare_input(a.operation, f), f.pre)
<1> DEFINE op == a.operation
<1>1. op \in Operations
      BY DEF Args
<1>2. f.pre \in States /\ (op \in BlockOperations => f.op \in Payloads)
      BY DEF Faultless, Decodable
<1>3. ssz_from_file(f.pre)
      BY <1>2, SentinelAssumption DEF ssz_from_file, Damage
<1>4. TransitionState(op, f) # Trap /\ op # "execution_payload"
      BY DEF Faultless
<1>5. CASE op \in BlockOperations
  <2>1. OperationFile(op, f) = f.op
        BY <1>5, BlockDispatch DEF OperationFile
  <2>2. ssz_from_file(f.op) /\ f.op # Malformed
        BY <1>2, <1>5, SentinelAssumption DEF ssz_from_file, Damage
  <2>3. /\ BlockOperationType[op] # "ExecutionPayload"
        /\ BlockContainer[BlockOperationType[op]] = FixtureContainer[op]
        /\ BlockHandler[BlockOperationType[op]] = FixtureHandler[op]
        BY <1>4, <1>5, BlockDispatch
  <2>4. Process(prepare_input(op, f), f.pre) = TransitionState(op, f)
        BY <1>5, <2>1, <2>3 DEF Process, prepare_input, TransitionState
  <2>5. ProcessReturns(prepare_input(op, f), f.pre)
        BY <1>4, <1>5, <2>1, <2>2, <2>3, <2>4
        DEF ProcessReturns, prepare_input
  <2>6. QED BY <1>2, <1>3, <2>1, <2>2, <2>5
<1>6. CASE op \in EpochOperations
  <2>1. op \notin BlockOperations
        BY <1>6, OperationKinds
  <2>2. Process(prepare_input(op, f), f.pre) = TransitionState(op, f)
        BY <1>6, <2>1, EpochDispatch
        DEF Process, prepare_input, TransitionState
  <2>3. ProcessReturns(prepare_input(op, f), f.pre)
        BY <1>4, <2>1, <2>2 DEF ProcessReturns, prepare_input
  <2>4. QED BY <1>2, <1>3, <2>1, <2>3
<1>7. QED BY <1>1, <1>5, <1>6 DEF Operations

\* An execution that panics now does so over a case that deserves it: neither
\* the comparisons nor the guest find fault with a faultless one.
LEMMA PanicStep ==
    ASSUME TypeInv, SoundInv, NEW p \in Proc, ProvingInv(p), Isolated(p),
           ~Proving(p), Stop(p, "panic"),
           HostPanic(p) \/ GuestPanic(p) \/ ToolFails(p)
    PROVE  InCase(p) /\ ~Faultless(args[p], Fix(p))
<1> DEFINE op == args[p].operation
           f  == Fix(p)
<1>1. args[p] \in Args
      BY InvocationsAssumption DEF TypeInv, TypeOK
<1>2. InCase(p)
      BY DEF HostPanic, HostPanics, GuestPanic, GuestPanics, ToolFails, InCase
<1>3. f \in Fixture
      BY <1>2, FixtureTyped DEF TypeInv, ChannelInv, Fix
<1>4. HostInv(p) /\ GuestInv(p)
      BY DEF SoundInv
<1> SUFFICES ASSUME Faultless(args[p], f) PROVE FALSE
    BY <1>2
<1>5. /\ ssz_from_file(f.pre)
      /\ op \in BlockOperations => ssz_from_file(OperationFile(op, f))
      /\ f.pre \in States
      /\ ProcessReturns(prepare_input(op, f), f.pre)
      BY <1>1, <1>3, FaultlessReturns
<1>6. op \in Operations
      BY <1>1 DEF Args
<1>7. Process(prepare_input(op, f), f.pre) = TransitionState(op, f)
      BY <1>3, <1>5, <1>6, ProcessIsTransition
<1>8. HasHost(p) => /\ host[p].pre = f.pre
                    /\ host[p].input = prepare_input(op, f)
      BY <1>4 DEF HostInv
<1>9. CASE HostPanics(p)
  <2>1. CASE pc[p] = "prepare" /\ ~FilesReadable(p)
        BY <2>1, <1>5 DEF FilesReadable
  <2>2. CASE pc[p] = "specs" /\ ~MatchesSpecs(p)
    <3>1. HasHost(p) /\ HasOutput(p)
          BY <2>2 DEF HasHost, InCase, HasOutput, ProvingInv
    <3>2. output[p] = Root(TransitionState(op, f))
          BY <1>4, <1>7, <1>8, <3>1 DEF GuestInv
    <3>3. Conforms(op, f)
          BY <3>1 DEF Faultless, HasOutput
    <3>4. /\ f.post \in States \cup {Absent}
          /\ TransitionState(op, f) = ExpectedState(f)
          BY <3>3 DEF Conforms
    <3>5. CASE f.post # Absent
          BY <2>2, <3>2, <3>4, <3>5 DEF MatchesSpecs, ExpectedState
    <3>6. CASE f.post = Absent
          BY <1>5, <1>8, <2>2, <3>1, <3>2, <3>4, <3>6
             DEF MatchesSpecs, ExpectedState
    <3>7. QED BY <3>5, <3>6
  <2>3. CASE pc[p] = "recompute" /\ ~MatchesRecompute(p)
    <3>1. HasOutput(p)
          BY <2>3 DEF HasOutput, ProvingInv
    <3>2. QED BY <1>4, <2>3, <3>1 DEF GuestInv, MatchesRecompute
  <2>4. QED BY <1>9, <2>1, <2>2, <2>3 DEF HostPanics
<1>10. CASE GuestPanic(p)
  <2>1. args[p].zkvm # "zisk"
    <3>1. exit'[p] = "panic" /\ exit'[p] = ToolFailure(p)
          BY <1>10 DEF GuestPanic, Stop, TypeInv, TypeOK
    <3>2. QED BY <3>1 DEF ToolFailure
  <2>2. pc[p] # "load"
        BY <2>1 DEF TypeInv, SharingInv
  <2>3. CASE pc[p] = "read_pre_state" /\ ~PreStateReadable(p)
    <3>1. HasHost(p) /\ stdin[p] = Frames(args[p].zkvm, host[p])
          BY <1>4, <2>3 DEF HasHost, InCase, GuestInv
    <3>2. /\ HoldsPreState(args[p].zkvm, stdin[p])
          /\ PreState(args[p].zkvm, stdin[p]) = f.pre
          BY <1>8, <3>1, Framing
    <3>3. f.pre # Malformed
          BY <1>5, SentinelAssumption DEF Damage
    <3>4. QED BY <2>3, <3>2, <3>3 DEF PreStateReadable
  <2>4. CASE pc[p] = "read_input" /\ ~InputReadable(p)
        BY <1>4, <2>4 DEF GuestInv, InputReadable, InputFrame
  <2>5. CASE /\ pc[p] = "process"
             /\ ~ProcessReturns(guest[p].input, guest[p].state)
    <3>1. HasHost(p)
          BY <2>5 DEF HasHost, InCase
    <3>2. QED BY <1>4, <1>5, <1>8, <2>5, <3>1 DEF GuestInv
  <2>6. QED BY <1>10, <2>2, <2>3, <2>4, <2>5 DEF GuestPanic, GuestPanics
<1>11. CASE ToolFails(p)
  <2>1. pc[p] \notin {"prove", "verify"}
        BY DEF ProvingInv
  <2>2. args[p].zkvm = "zisk"
        BY <1>11, <2>1 DEF ToolFails, TypeInv, SharingInv
  <2>3. exit'[p] = "panic" /\ exit'[p] = "exit1"
        BY <1>11, <2>2 DEF ToolFails, ToolFailure, Stop, TypeInv, TypeOK
  <2>4. QED BY <2>3
<1>12. QED BY <1>9, <1>10, <1>11 DEF HostPanic

\* Whatever ends a process with an exit code is a panic, a tool's failure, the
\* end of the loop, or a kill.
LEMMA ExitComes ==
    ASSUME TypeInv, NEW p \in Proc, Step(p) \/ Kill(p), exit'[p] # exit[p]
    PROVE  \/ exit'[p] = "ok" /\ Finish(p)
           \/ exit'[p] = "killed" /\ Kill(p)
           \/ /\ exit'[p] \in {"panic", "exit1"}
              /\ HostPanic(p) \/ GuestPanic(p) \/ ToolFails(p)
              /\ Stop(p, exit'[p])
<1>a. exit \in [Proc -> {"running", "ok", "panic", "exit1", "killed"}]
      BY DEF TypeInv, TypeOK
<1>1. Finish(p) \/ Kill(p) \/ HostPanic(p) \/ GuestPanic(p) \/ ToolFails(p)
      BY DEF Step, LoadTestCases, SkipCase, StartCase, ReadCaseFiles,
             WriteStdin, BuildZiskGuest, TruncateZiskInput, FillZiskInput,
             CloseZiskInput, RomSetup, ReadZiskInput, DecodeZiskInput,
             GuestReadPreState, GuestReadInput, GuestProcess, GuestCommit,
             GenerateProof, VerifyProof, CompareSpecs, CompareRecompute,
             EndCase, JoltGuestPanic
<1>2. CASE Finish(p)
      BY <1>2, <1>a DEF Finish, Stop
<1>3. CASE Kill(p)
      BY <1>3, <1>a DEF Kill, Stop
<1>4. CASE HostPanic(p) \/ GuestPanic(p) \/ ToolFails(p)
  <2>1. PICK code \in {"panic", "exit1"} : Stop(p, code)
        BY <1>4 DEF HostPanic, GuestPanic, ToolFails, ToolFailure
  <2>2. exit'[p] = code
        BY <1>a, <2>1 DEF Stop
  <2>3. QED BY <1>4, <2>1, <2>2
<1>5. QED BY <1>1, <1>2, <1>3, <1>4

\* A process that has stopped takes no step.
LEMMA StoppedStays ==
    ASSUME NEW p \in Proc, pc[p] = "stopped"
    PROVE  ~(Step(p) \/ Kill(p))
BY DEF Step, LoadTestCases, SkipCase, StartCase, Finish, ReadCaseFiles,
       WriteStdin, BuildZiskGuest, TruncateZiskInput, FillZiskInput,
       CloseZiskInput, RomSetup, ReadZiskInput, DecodeZiskInput,
       GuestReadPreState, GuestReadInput, GuestProcess, GuestCommit,
       GenerateProof, VerifyProof, CompareSpecs, CompareRecompute, EndCase,
       HostPanic, HostPanics, GuestPanic, GuestPanics, JoltGuestPanic,
       ToolFails, Kill, Active

\* An execution of an isolated process only panics over a case that deserves it.
THEOREM PanicsAreDeserved == Spec => []PanicIsDeserved
<1>1. Init => PanicIsDeserved
      BY DEF Init, PanicIsDeserved
<1>2. /\ TypeInv /\ SoundInv /\ ProvingInvs /\ SettledInvs
      /\ PanicIsDeserved /\ [Next]_vars
      => PanicIsDeserved'
  <2> SUFFICES ASSUME TypeInv, SoundInv, ProvingInvs, SettledInvs,
                      PanicIsDeserved, [Next]_vars, NEW q \in Proc,
                      Isolated(q)', exit'[q] = "panic", ~Proving(q)'
               PROVE  ~Faultless(args[q], Fix(q))'
      BY DEF PanicIsDeserved
  <2>1. CASE UNCHANGED vars
        BY <2>1 DEF vars, PanicIsDeserved, Isolated, Proving, Fix, Dir
  <2>2. ASSUME NEW p \in Proc, Step(p) \/ Kill(p)
        PROVE  ~Faultless(args[q], Fix(q))'
    <3>1. args' = args /\ disk' = disk /\ Isolated(q) /\ ~Proving(q)
          BY <2>2, StepIsLocal DEF Isolated, Proving
    <3>2. CASE p # q
      <4>1. exit'[q] = exit[q] /\ case'[q] = case[q]
            BY <2>2, <3>2, StepIsLocal, StepIsOwn
      <4>2. QED BY <3>1, <4>1 DEF PanicIsDeserved, Fix, Dir
    <3>3. CASE p = q
      <4>1. pc[q] # "stopped"
            BY <2>2, <3>3, StoppedStays
      <4>2. exit[q] = "running"
            BY <4>1 DEF SettledInvs, SettledInv
      <4>3. /\ Stop(q, "panic")
            /\ HostPanic(q) \/ GuestPanic(q) \/ ToolFails(q)
            BY <2>2, <3>3, <4>2, ExitComes
      <4>4. ~Faultless(args[q], Fix(q))
            BY <3>1, <4>3, PanicStep DEF ProvingInvs
      <4>5. QED BY <3>1, <4>3, <4>4 DEF Stop, Fix, Dir
    <3>4. QED BY <3>2, <3>3
  <2>3. QED BY <2>1, <2>2 DEF Next
<1>3. QED BY <1>1, <1>2, TypeInvariance, SoundInvariance, ProvingInvariance,
             SettledInvariance, PTL DEF Spec

-----------------------------------------------------------------------------
(* Refinement *)

\* The contract judges a case as the harness's own vocabulary does.
LEMMA SameVerdicts ==
    ASSUME NEW a, NEW f
    PROVE  /\ Contract!Reportable(a, f) <=> Reportable(a, f)
           /\ Contract!Faultless(a, f) <=> Faultless(a, f)
<1>1. Contract!BlockOperations = BlockOperations
      BY DEF Contract!BlockOperations, BlockOperations
<1>2. Contract!FixtureHandler = FixtureHandler
      BY DEF Contract!FixtureHandler, FixtureHandler
<1>3. /\ \A op : Contract!TransitionState(op, f) = TransitionState(op, f)
      /\ \A op : Contract!Decodable(op, f) <=> Decodable(op, f)
      /\ Contract!ExpectedState(f) = ExpectedState(f)
      BY <1>1, <1>2
      DEF Contract!TransitionState, TransitionState, Contract!Decodable,
          Decodable, Contract!ExpectedState, ExpectedState
<1>4. \A op : Contract!Conforms(op, f) <=> Conforms(op, f)
      BY <1>3 DEF Contract!Conforms, Conforms
<1>5. QED BY <1>3, <1>4
          DEF Contract!Reportable, Reportable, Contract!Faultless, Faultless

\* A step of a process that is alone in the working tree settles one case, ends
\* the process the way the contract allows, or is of no concern to it.
LEMMA StepKeepsContract ==
    ASSUME TypeInv, SoundInv, ProvingInvs, SettledInvs, ~Parallel,
           NEW p \in Proc, Step(p) \/ Kill(p)
    PROVE  [Contract!Next]_<<args, disk, status, exit>>
<1>1. TypeOK /\ SettledInv(p) /\ ProvingInv(p) /\ ChannelInv(p)
      BY DEF TypeInv, SettledInvs, ProvingInvs
<1>2. Isolated(p)
      BY DEF Isolated
<1>3. args' = args /\ disk' = disk
      BY StepIsLocal
<1>4. \A c : c \in Contract!Unsettled(p) <=>
                 c \in Cases /\ Dir(p)[c] # Absent /\ status[p][c] = "pending"
      BY DEF Contract!Unsettled, Contract!Present, Dir
<1>5. CASE LoadTestCases(p) \/ StartCase(p) \/ GetsOn(p)
      BY <1>5, <1>3 DEF LoadTestCases, StartCase, GetsOn
<1>6. CASE SkipCase(p)
  <2>1. PICK c \in todo[p] :
            /\ pc[p] = "loop"
            /\ c \in args[p].excluded_cases
            /\ status' = [status EXCEPT ![p][c] = "skipped"]
            /\ exit' = exit
        BY <1>6 DEF SkipCase
  <2>2. c \in Contract!Unsettled(p)
        BY <1>1, <1>4, <2>1 DEF SettledInv, ChannelInv, TypeOK
  <2>3. exit[p] = "running"
        BY <1>1, <2>1 DEF SettledInv
  <2>4. Contract!Skip(p)
        BY <1>3, <2>1, <2>2, <2>3 DEF Contract!Skip
  <2>5. QED BY <2>4 DEF Contract!Next
<1>7. CASE EndCase(p)
  <2>1. InCase(p) /\ pc[p] = "end"
        BY <1>7 DEF EndCase, InCase
  <2>2. /\ case[p] \in Contract!Unsettled(p)
        /\ case[p] \notin args[p].excluded_cases
        BY <1>1, <1>4, <2>1 DEF SettledInv, ChannelInv, Fix
  <2>3. Contract!Reportable(args[p], disk[args[p].operation][case[p]])
        BY <1>2, <2>1, EndIsReportable, SameVerdicts DEF Fix, Dir
  <2>4. exit[p] = "running"
        BY <1>1, <2>1 DEF SettledInv
  <2>5. Contract!Report(p)
        BY <1>3, <1>7, <2>2, <2>3, <2>4 DEF EndCase, Contract!Report
  <2>6. QED BY <2>5 DEF Contract!Next
<1>8. CASE Finish(p) \/ GivesUp(p)
  <2>1. PICK code : Stop(p, code)
        BY <1>8 DEF Finish, GivesUp
  <2>2. exit' = [exit EXCEPT ![p] = code] /\ status' = status
        BY <2>1 DEF Stop
  <2>3. exit'[p] = code
        BY <1>1, <2>2 DEF TypeOK
  <2>4. exit[p] = "running"
        BY <1>1, StoppedStays DEF SettledInv
  <2>5. CASE exit'[p] = exit[p]
        BY <1>1, <1>3, <2>2, <2>5, <2>3 DEF TypeOK
  <2>6. CASE exit'[p] # exit[p]
    <3>1. code \in Contract!ExitCodes(p)
      <4>1. CASE code = "ok" /\ Finish(p)
        <5>1. Contract!Unsettled(p) = {}
              BY <1>1, <1>4, <2>4, <4>1 DEF Finish, SettledInv, InCase
        <5>2. QED BY <4>1, <5>1 DEF Contract!ExitCodes
      <4>2. CASE code = "killed"
            BY <4>2 DEF Contract!ExitCodes
      <4>3. CASE /\ code = "exit1"
                 /\ HostPanic(p) \/ GuestPanic(p) \/ ToolFails(p)
        <5>1. args[p].zkvm = "zisk"
              BY <1>1, <2>3, <4>3
              DEF HostPanic, GuestPanic, ToolFails, ToolFailure, Stop, TypeOK
        <5>2. QED BY <4>3, <5>1 DEF Contract!ExitCodes
      <4>4. CASE /\ code = "panic"
                 /\ HostPanic(p) \/ GuestPanic(p) \/ ToolFails(p)
        <5>1. CASE Proving(p)
              BY <4>4, <5>1 DEF Contract!ExitCodes, Proving
        <5>2. CASE ~Proving(p)
          <6>1. InCase(p) /\ ~Faultless(args[p], Fix(p))
                BY <1>1, <1>2, <2>1, <4>4, <5>2, PanicStep
          <6>2. case[p] \in Contract!Unsettled(p) \ args[p].excluded_cases
                BY <1>1, <1>4, <6>1 DEF SettledInv, ChannelInv, Fix
          <6>3. ~Contract!Faultless(args[p],
                                    disk[args[p].operation][case[p]])
                BY <6>1, SameVerdicts DEF Fix, Dir
          <6>4. QED BY <4>4, <6>2, <6>3 DEF Contract!ExitCodes
        <5>3. QED BY <5>1, <5>2
      <4>5. QED BY <2>3, <2>6, <4>1, <4>2, <4>3, <4>4, ExitComes
    <3>2. Contract!End(p)
          BY <1>3, <2>2, <2>4, <3>1 DEF Contract!End
    <3>3. QED BY <3>2 DEF Contract!Next
  <2>7. QED BY <2>5, <2>6
<1>9. QED BY <1>5, <1>6, <1>7, <1>8, StepKinds

\* Without make -j the harness implements its contract, whatever the vectors,
\* the transition function, the command lines, and the file earlier runs left.
THEOREM HarnessImplementsContract ==
    ASSUME ~Parallel PROVE Spec => ImplementsContract
<1>1. Init => Contract!Init
      BY DEF Init, Contract!Init
<1>2. TypeInv /\ SoundInv /\ ProvingInvs /\ SettledInvs /\ [Next]_vars
          => [Contract!Next]_<<args, disk, status, exit>>
      BY StepKeepsContract DEF Next, vars
<1>3. QED BY <1>1, <1>2, TypeInvariance, SoundInvariance, ProvingInvariance,
             SettledInvariance, PTL
          DEF Spec, ImplementsContract, Contract!Spec, Contract!vars
================================================================================
