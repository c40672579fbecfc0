------------------------- MODULE BeaconHarness_proofs -------------------------
(***************************************************************************)
(* Proofs about BeaconHarness, for any number of processes, test cases,    *)
(* states and payloads and for any transition function.                    *)
(***************************************************************************)
EXTENDS BeaconHarness, TLAPS

-----------------------------------------------------------------------------
(* The dispatch tables *)

\* Every arm of the block process_operation that is implemented decodes the
\* container and calls the method of the directory the command line named, and
\* prepare_input reads the file that directory has.
LEMMA BlockDispatch ==
    ASSUME NEW op \in BlockOperations
    PROVE  /\ get_input_filename[op] = FixtureFilename[op]
           /\ BlockOperationType[op] = "ExecutionPayload"
                  <=> op = "execution_payload"
           /\ op # "execution_payload" =>
                /\ BlockContainer[BlockOperationType[op]] = FixtureContainer[op]
                /\ BlockHandler[BlockOperationType[op]] = FixtureHandler[op]
BY DEF BlockOperations, get_input_filename, FixtureFilename, BlockOperationType,
       BlockContainer, FixtureContainer, BlockHandler, FixtureHandler

\* The same of the epoch process_operation.
LEMMA EpochDispatch ==
    ASSUME NEW op \in EpochOperations
    PROVE  EpochHandler[EpochOperationType[op]] = FixtureHandler[op]
BY DEF EpochOperations, EpochOperationType, EpochHandler, FixtureHandler

\* No operation is both.
LEMMA OperationKinds == BlockOperations \cap EpochOperations = {}
BY DEF BlockOperations, EpochOperations

\* The methods called are ream's.
LEMMA DispatchedHandlers ==
    /\ \A op \in BlockOperations \ {"execution_payload"} :
           BlockHandler[BlockOperationType[op]] \in Handlers
    /\ \A op \in EpochOperations : EpochHandler[EpochOperationType[op]] \in
        Handlers
BY BlockDispatch, EpochDispatch DEF Handlers, Operations

\* process() returns a state, or does not return.
LEMMA ProcessTyped ==
    ASSUME NEW input \in OperationInput, NEW s \in States,
           ProcessReturns(input, s)
    PROVE  Process(input, s) \in States
<1>1. CASE input \in BlockInput
  <2>1. PICK op \in BlockOperations : input.operation_type =
      BlockOperationType[op]
        BY <1>1 DEF BlockInput
  <2>2. /\ input.kind = "Block"
        /\ input.ssz_bytes.data \in Payloads \cup {Malformed}
        BY <1>1 DEF BlockInput
  <2>3. op # "execution_payload" /\ input.ssz_bytes.data \in Payloads
        BY <2>1, <2>2, BlockDispatch DEF ProcessReturns
  <2>4. BlockHandler[input.operation_type] \in Handlers
        BY <2>1, <2>3, DispatchedHandlers
  <2>5. Transition(BlockHandler[input.operation_type], input.ssz_bytes.data, s)
            \in [ok : BOOLEAN, state : States \cup {Trap}]
        BY <2>3, <2>4, TransitionAssumption
  <2>6. QED BY <2>2, <2>5 DEF Process, ProcessReturns
<1>2. CASE input \in EpochInput
  <2>1. PICK op \in EpochOperations : input.operation_type =
      EpochOperationType[op]
        BY <1>2 DEF EpochInput
  <2>2. input.kind = "Epoch" BY <1>2 DEF EpochInput
  <2>3. EpochHandler[input.operation_type] \in Handlers
        BY <2>1, DispatchedHandlers
  <2>4. Transition(EpochHandler[input.operation_type], Absent, s)
            \in [ok : BOOLEAN, state : States \cup {Trap}]
        BY <2>3, TransitionAssumption
  <2>5. QED BY <2>2, <2>4 DEF Process, ProcessReturns
<1>3. QED BY <1>1, <1>2 DEF OperationInput

\* prepare_input yields an OperationInput when the file it needs is readable.
LEMMA PrepareInputTyped ==
    ASSUME NEW op \in Operations, NEW f \in Fixture,
           op \in BlockOperations => ssz_from_file(OperationFile(op, f))
    PROVE  prepare_input(op, f) \in OperationInput
<1>1. CASE op \in BlockOperations
  <2>1. OperationFile(op, f) = f.op
        BY <1>1, BlockDispatch DEF OperationFile
  <2>2. f.op \in Payloads \cup {Malformed}
        BY <1>1, <2>1 DEF Fixture, Damage, ssz_from_file
  <2>3. prepare_input(op, f) \in BlockInput
        BY <1>1, <2>1, <2>2 DEF prepare_input, BlockInput
  <2>4. QED BY <2>3 DEF OperationInput
<1>2. CASE op \in EpochOperations
  <2>1. op \notin BlockOperations BY <1>2, OperationKinds
  <2>2. prepare_input(op, f) \in EpochInput
        BY <1>2, <2>1 DEF prepare_input, EpochInput
  <2>3. QED BY <2>2 DEF OperationInput
<1>3. QED BY <1>1, <1>2 DEF Operations

-----------------------------------------------------------------------------
(* The input channel *)

\* What the host writes is what the guest reads, for every backend: the guest
\* finds the pre-state, and after it the operation and nothing else.
LEMMA Framing ==
    ASSUME NEW zkvm, NEW h
    PROVE  /\ HoldsPreState(zkvm, Frames(zkvm, h))
           /\ PreState(zkvm, Frames(zkvm, h)) = h.pre
           /\ AfterPreState(zkvm, Frames(zkvm, h)) = <<InputFrame(h)>>
<1>1. CASE zkvm \in Prefixed
      BY <1>1 DEF HoldsPreState, PreState, AfterPreState, Frames, InputFrame
<1>2. CASE zkvm \notin Prefixed
      BY <1>2 DEF HoldsPreState, PreState, AfterPreState, Frames, InputFrame
<1>3. QED BY <1>1, <1>2

-----------------------------------------------------------------------------
(* Type correctness *)

TypeInv ==
    /\ TypeOK
    /\ SharingInv
    /\ \A p \in Proc : ChannelInv(p)

\* A directory entry that is present is a fixture.
LEMMA FixtureTyped ==
    ASSUME TypeOK, NEW p \in Proc, NEW c \in Cases, Dir(p)[c] # Absent
    PROVE  Dir(p)[c] \in Fixture
<1>1. args[p] \in Invocations /\ disk \in Trees
      BY DEF TypeOK
<1>2. disk \in [{a.operation : a \in Invocations} ->
                    [Cases -> Fixture \cup {Absent}]]
      BY <1>1, TreesAssumption
<1>3. args[p].operation \in {a.operation : a \in Invocations}
      BY <1>1
<1>4. QED BY <1>2, <1>3 DEF Dir

\* A process that ends, for whatever reason, leaves everything else alone.
LEMMA StopTyped ==
    ASSUME TypeInv, NEW p \in Proc, Active(p),
           NEW code \in {"ok", "panic", "exit1", "killed"}, Stop(p, code)
    PROVE  TypeInv'
<1> USE DEF TypeInv
<1>1. TypeOK'
      BY DEF TypeOK, Stop, Goto, Labels, given, file, machine
<1>2. SharingInv'
      BY DEF TypeOK, Stop, Goto, given, file, machine, SharingInv, Active
<1>3. ASSUME NEW q \in Proc PROVE ChannelInv(q)'
  <2>1. CASE q = p
        BY <2>1
        DEF TypeOK, Stop, Goto, given, file, machine, ChannelInv, InCase,
            HasHost, Dir
  <2>2. CASE q # p
        BY <2>2
        DEF TypeOK, Stop, Goto, given, file, machine, ChannelInv, InCase,
            HasHost, Fix, Dir
  <2>3. QED BY <2>1, <2>2
<1>4. QED BY <1>1, <1>2, <1>3

\* What the host writes is typed.
LEMMA FramesTyped ==
    ASSUME NEW zkvm, NEW h \in HostData
    PROVE  Frames(zkvm, h) \in Seq(Frame) /\ <<InputFrame(h)>> \in Seq(Frame)
<1> DEFINE len   == [tag |-> "len", val |-> h.pre]
           bytes == [tag |-> "bytes", val |-> h.pre]
<1>1. len \in Frame /\ bytes \in Frame
      BY DEF HostData, Frame
<1>2. InputFrame(h) \in Frame
      BY DEF InputFrame, HostData, Frame
<1>3. <<InputFrame(h)>> \in Seq(Frame)
      BY <1>2
<1>4. CASE zkvm \in Prefixed
  <2>1. Frames(zkvm, h) = <<len, bytes, InputFrame(h)>>
        BY <1>4 DEF Frames, InputFrame
  <2>2. QED BY <1>1, <1>2, <1>3, <2>1
<1>5. CASE zkvm \notin Prefixed
  <2>1. Frames(zkvm, h) = <<bytes, InputFrame(h)>>
        BY <1>5 DEF Frames, InputFrame
  <2>2. QED BY <1>1, <1>2, <1>3, <2>1
<1>6. QED BY <1>4, <1>5

\* Every step keeps the types.
LEMMA StepTyped ==
    ASSUME TypeInv, NEW p \in Proc, Step(p) \/ Kill(p)
    PROVE  TypeInv'
<1> USE DEF TypeInv
<1>1. CASE LoadTestCases(p)
  <2>1. TypeOK'
        BY <1>1 DEF TypeOK, LoadTestCases, Goto, Labels, given, file, machine
  <2>2. SharingInv'
        BY <1>1
        DEF TypeOK, SharingInv, Active, LoadTestCases, Goto, given, file,
            machine
  <2>3. ASSUME NEW q \in Proc PROVE ChannelInv(q)'
        BY <1>1
        DEF TypeOK, ChannelInv, InCase, HasHost, Fix, Dir, LoadTestCases,
            Goto,
                      given, file, machine
  <2>4. QED BY <2>1, <2>2, <2>3
<1>2. CASE SkipCase(p)
  <2>1. TypeOK'
        BY <1>2 DEF TypeOK, SkipCase, Goto, Labels, given, file, machine
  <2>2. SharingInv'
        BY <1>2 DEF TypeOK, SharingInv, Active, SkipCase, Goto, given, file,
                    machine
  <2>3. ASSUME NEW q \in Proc PROVE ChannelInv(q)'
        BY <1>2
        DEF TypeOK, ChannelInv, InCase, HasHost, Fix, Dir, SkipCase, Goto,
                      given, file, machine
  <2>4. QED BY <2>1, <2>2, <2>3
<1>3. CASE StartCase(p)
  <2>1. TypeOK'
        BY <1>3 DEF TypeOK, StartCase, Goto, Labels, given, file, machine
  <2>2. SharingInv'
        BY <1>3 DEF TypeOK, SharingInv, Active, StartCase, Goto, given, file,
                    machine
  <2>3. ASSUME NEW q \in Proc PROVE ChannelInv(q)'
        BY <1>3
        DEF TypeOK, ChannelInv, InCase, HasHost, Fix, Dir, StartCase, Goto,
                      given, file, machine
  <2>4. QED BY <2>1, <2>2, <2>3
<1>4. CASE ReadCaseFiles(p)
  <2> DEFINE h == [pre   |-> Fix(p).pre,
                   input |-> prepare_input(args[p].operation, Fix(p))]
  <2>a. case[p] \in Cases /\ Fix(p) # Absent
        BY <1>4 DEF ReadCaseFiles, ChannelInv, InCase
  <2>b. Fix(p) \in Fixture
        BY <2>a, FixtureTyped DEF Fix
  <2>c. Fix(p).pre \in Bytes
        BY <1>4, <2>b DEF ReadCaseFiles, FilesReadable, ssz_from_file, Fixture,
                          Damage, Bytes
  <2>d. args[p].operation \in Operations
        BY InvocationsAssumption DEF TypeOK, Args
  <2>e. prepare_input(args[p].operation, Fix(p)) \in OperationInput
        BY <1>4, <2>b, <2>d, PrepareInputTyped DEF ReadCaseFiles, FilesReadable
  <2>f. h \in HostData
        BY <2>c, <2>e DEF HostData
  <2>g. host' = [host EXCEPT ![p] = h]
        BY <1>4 DEF ReadCaseFiles
  <2> HIDE DEF h
  <2>1. TypeOK'
        BY <1>4, <2>f, <2>g
        DEF TypeOK, ReadCaseFiles, Goto, Labels, given, file, machine
  <2>2. SharingInv'
        BY <1>4
        DEF TypeOK, SharingInv, Active, ReadCaseFiles, Goto, given, file,
            machine
  <2>3. ASSUME NEW q \in Proc PROVE ChannelInv(q)'
    <3>1. CASE q = p
          BY <1>4, <2>a, <2>f, <2>g, <3>1
          DEF TypeOK, ChannelInv, InCase, HasHost, Fix,
             Dir, ReadCaseFiles, Goto, given, file, machine
    <3>2. CASE q # p
          BY <1>4, <3>2 DEF TypeOK, ChannelInv, InCase, HasHost, Fix, Dir,
             ReadCaseFiles, Goto, given, file, machine
    <3>3. QED BY <3>1, <3>2
  <2>4. QED BY <2>1, <2>2, <2>3
<1>5. CASE WriteStdin(p)
  <2>a. host[p] \in HostData
        BY <1>5 DEF WriteStdin, ChannelInv, HasHost, InCase
  <2>b. \E h \in HostData : stdin'[p] = Frames(args'[p].zkvm, h)
        BY <1>5, <2>a DEF WriteStdin, TypeOK, given, file
  <2>1. TypeOK'
        BY <1>5, <2>a, FramesTyped
        DEF TypeOK, WriteStdin, Goto, Labels, given, file, machine
  <2>2. SharingInv'
        BY <1>5 DEF TypeOK, SharingInv, Active, WriteStdin, Goto, given, file,
                    machine
  <2>3. ASSUME NEW q \in Proc PROVE ChannelInv(q)'
    <3>1. CASE q = p
          BY <1>5, <2>b, <3>1 DEF TypeOK, ChannelInv, InCase, HasHost, Fix,
             Dir, WriteStdin, Goto, given, file, machine
    <3>2. CASE q # p
          BY <1>5, <3>2 DEF TypeOK, ChannelInv, InCase, HasHost, Fix, Dir,
             WriteStdin, Goto, given, file, machine
    <3>3. QED BY <3>1, <3>2
  <2>4. QED BY <2>1, <2>2, <2>3
<1>6. CASE BuildZiskGuest(p)
  <2>1. TypeOK'
        BY <1>6 DEF TypeOK, BuildZiskGuest, Goto, Labels, given, file, machine
  <2>2. SharingInv'
        BY <1>6
        DEF TypeOK, SharingInv, Active, BuildZiskGuest, Goto, given, file,
            machine
  <2>3. ASSUME NEW q \in Proc PROVE ChannelInv(q)'
        BY <1>6
        DEF TypeOK, ChannelInv, InCase, HasHost, Fix, Dir, BuildZiskGuest,
            Goto,
                      given, file, machine
  <2>4. QED BY <2>1, <2>2, <2>3
<1>7. CASE TruncateZiskInput(p)
  <2>a. input_bin' \in File
        BY <1>7 DEF TruncateZiskInput, File, Piece
  <2>1. TypeOK'
        BY <1>7, <2>a
        DEF TypeOK, TruncateZiskInput, Goto, Labels, given, machine
  <2>2. SharingInv'
        BY <1>7
        DEF TypeOK, SharingInv, Active, TruncateZiskInput, Goto, given, machine
  <2>3. ASSUME NEW q \in Proc PROVE ChannelInv(q)'
        BY <1>7, <2>a, PartsAssumption
        DEF TypeOK, ChannelInv, InCase, HasHost, Fix, Dir, TruncateZiskInput,
            Goto, given, machine
  <2>4. QED BY <2>1, <2>2, <2>3
<1>8. CASE FillZiskInput(p)
  <2> DEFINE i == Len(buffer[p]) + 1
  <2>a. host[p] \in Piece /\ input_bin \in File
        BY <1>8 DEF FillZiskInput, ChannelInv, HasHost, InCase, Piece
  <2>b. i \in Nat /\ i <= Parts
        BY <1>8 DEF FillZiskInput, TypeOK
  <2>c. input_bin' \in File
        BY <1>8, <2>a, <2>b, PartsAssumption DEF FillZiskInput, File
  <2>d. /\ buffer' = [buffer EXCEPT ![p] = Append(buffer[p], host[p])]
        /\ Append(buffer[p], host[p]) \in Seq(Piece)
        /\ Len(Append(buffer[p], host[p])) = i
        BY <1>8, <2>a DEF FillZiskInput, TypeOK
  <2>1. TypeOK'
        BY <1>8, <2>c, <2>d DEF TypeOK, FillZiskInput, Labels, given, machine
  <2>2. SharingInv'
        BY <1>8
        DEF TypeOK, SharingInv, Active, FillZiskInput, given, machine
  <2>3. ASSUME NEW q \in Proc PROVE ChannelInv(q)'
        BY <1>8, <2>b, <2>c, <2>d
        DEF TypeOK, ChannelInv, InCase, HasHost, Fix, Dir, FillZiskInput,
            given, machine
  <2>4. QED BY <2>1, <2>2, <2>3
<1>8a. CASE CloseZiskInput(p)
  <2>1. TypeOK'
        BY <1>8a DEF TypeOK, CloseZiskInput, Goto, Labels, given, machine
  <2>2. SharingInv'
        BY <1>8a
        DEF TypeOK, SharingInv, Active, CloseZiskInput, Goto, given, machine
  <2>3. ASSUME NEW q \in Proc PROVE ChannelInv(q)'
        BY <1>8a, PartsAssumption
        DEF TypeOK, ChannelInv, InCase, HasHost, Fix, Dir, CloseZiskInput,
            Goto, given, machine
  <2>4. QED BY <2>1, <2>2, <2>3
<1>9. CASE RomSetup(p)
  <2>1. TypeOK'
        BY <1>9 DEF TypeOK, RomSetup, Goto, Labels, given, file, machine
  <2>2. SharingInv'
        BY <1>9 DEF TypeOK, SharingInv, Active, RomSetup, Goto, given, file,
                    machine
  <2>3. ASSUME NEW q \in Proc PROVE ChannelInv(q)'
        BY <1>9, PartsAssumption
        DEF TypeOK, ChannelInv, InCase, HasHost, Fix, Dir, RomSetup, Goto,
            given, file, machine
  <2>4. QED BY <2>1, <2>2, <2>3
<1>10. CASE ReadZiskInput(p)
  <2> DEFINE i == Len(buffer[p]) + 1
  <2>a. i \in 1 .. Parts
        BY <1>10, PartsAssumption DEF ReadZiskInput, TypeOK
  <2>b. LoadedInput(p) \in File
        BY <1>10 DEF ReadZiskInput, LoadedInput, TypeOK
  <2>c. LoadedInput(p)[i] \in Piece
        BY <2>a, <2>b DEF File
  <2>d. /\ buffer' = [buffer EXCEPT ![p] = Append(buffer[p],
                                                 LoadedInput(p)[i])]
        /\ Append(buffer[p], LoadedInput(p)[i]) \in Seq(Piece)
        /\ Len(Append(buffer[p], LoadedInput(p)[i])) = i
        BY <1>10, <2>c DEF ReadZiskInput, TypeOK
  <2>1. TypeOK'
        BY <1>10, <2>d DEF TypeOK, ReadZiskInput, Labels, given, machine
  <2>2. SharingInv'
        BY <1>10
        DEF TypeOK, SharingInv, Active, ReadZiskInput, given, machine
  <2>3. ASSUME NEW q \in Proc PROVE ChannelInv(q)'
        BY <1>10, <2>a, <2>d, PartsAssumption
        DEF TypeOK, ChannelInv, InCase, HasHost, Fix, Dir, ReadZiskInput,
            given, machine
  <2>4. QED BY <2>1, <2>2, <2>3
<1>10a. CASE DecodeZiskInput(p)
  <2>a. PICK h \in Decodings(buffer[p]) :
            stdin' = [stdin EXCEPT ![p] = Frames("zisk", h)]
        BY <1>10a DEF DecodeZiskInput
  <2>b. h \in HostData
        BY <2>a, MixturesAssumption DEF Decodings, Whole
  <2>c. args[p].zkvm = "zisk"
        BY <1>10a DEF DecodeZiskInput, SharingInv
  <2>d. stdin'[p] = Frames("zisk", h)
        BY <2>a DEF TypeOK
  <2>e. \E k \in HostData : stdin'[p] = Frames(args'[p].zkvm, k)
        BY <1>10a, <2>b, <2>c, <2>d DEF DecodeZiskInput, given
  <2>1. TypeOK'
        BY <1>10a, <2>a, <2>b, FramesTyped
        DEF TypeOK, DecodeZiskInput, Goto, Labels, given, machine
  <2>2. SharingInv'
        BY <1>10a
        DEF TypeOK, SharingInv, Active, DecodeZiskInput, Goto, given, machine
  <2>3. ASSUME NEW q \in Proc PROVE ChannelInv(q)'
    <3>1. CASE q = p
          BY <1>10a, <2>e, <3>1 DEF TypeOK, ChannelInv, InCase, HasHost, Fix,
             Dir, DecodeZiskInput, Goto, given, machine
    <3>2. CASE q # p
          BY <1>10a, <2>a, <3>2 DEF TypeOK, ChannelInv, InCase, HasHost, Fix,
             Dir, DecodeZiskInput, Goto, given, machine
    <3>3. QED BY <3>1, <3>2
  <2>4. QED BY <2>1, <2>2, <2>3
<1>11. CASE GuestReadPreState(p)
  <2>a. PICK h \in HostData : stdin[p] = Frames(args[p].zkvm, h)
        BY <1>11 DEF GuestReadPreState, ChannelInv
  <2>b. /\ PreState(args[p].zkvm, stdin[p]) = h.pre
        /\ AfterPreState(args[p].zkvm, stdin[p]) = <<InputFrame(h)>>
        BY <2>a, Framing
  <2>c. h.pre \in States
        BY <1>11, <2>b DEF GuestReadPreState, PreStateReadable, HostData, Bytes
  <2>d. /\ guest' = [guest EXCEPT ![p] = [state |-> h.pre, input |-> Absent]]
        /\ stdin' = [stdin EXCEPT ![p] = <<InputFrame(h)>>]
        BY <1>11, <2>b DEF GuestReadPreState
  <2>e. [state |-> h.pre, input |-> Absent] \in GuestData
        BY <2>c DEF GuestData
  <2>f. \E k \in HostData : stdin'[p] = <<InputFrame(k)>>
        BY <2>a, <2>d DEF TypeOK
  <2>g. stdin' \in [Proc -> Seq(Frame)]
        BY <2>d, FramesTyped DEF TypeOK
  <2>h. guest' \in [Proc -> GuestData \cup {Absent}]
        BY <2>d, <2>e DEF TypeOK
  <2>1. TypeOK'
        BY <1>11, <2>g, <2>h
        DEF TypeOK, GuestReadPreState, Goto, Labels, given, file, machine
  <2>2. SharingInv'
        BY <1>11
        DEF TypeOK, SharingInv, Active, GuestReadPreState, Goto, given, file,
            machine
  <2>3. ASSUME NEW q \in Proc PROVE ChannelInv(q)'
    <3>1. CASE q = p
          BY <1>11, <2>d, <2>e, <2>f, <3>1
          DEF TypeOK, ChannelInv, InCase, HasHost, Fix,
             Dir, GuestReadPreState, Goto, given, file, machine
    <3>2. CASE q # p
          BY <1>11, <3>2 DEF TypeOK, ChannelInv, InCase, HasHost, Fix, Dir,
             GuestReadPreState, Goto, given, file, machine
    <3>3. QED BY <3>1, <3>2
  <2>4. QED BY <2>1, <2>2, <2>3
<1>12. CASE GuestReadInput(p)
  <2>a. PICK h \in HostData : stdin[p] = <<InputFrame(h)>>
        BY <1>12 DEF GuestReadInput, ChannelInv
  <2>b. Head(stdin[p]).val \in OperationInput
        BY <2>a DEF InputFrame, HostData
  <2>c. guest[p] \in GuestData
        BY <1>12 DEF GuestReadInput, ChannelInv
  <2>d. [guest[p] EXCEPT !.input = Head(stdin[p]).val] \in GuestData
        BY <2>b, <2>c DEF GuestData
  <2>e. Tail(stdin[p]) \in Seq(Frame)
        BY <1>12 DEF GuestReadInput, InputReadable, TypeOK
  <2>f. stdin' \in [Proc -> Seq(Frame)]
        BY <1>12, <2>e DEF GuestReadInput, TypeOK
  <2>1. TypeOK'
        BY <1>12, <2>d, <2>f
        DEF TypeOK, GuestReadInput, Goto, Labels, given, file, machine
  <2>2. SharingInv'
        BY <1>12
        DEF TypeOK, SharingInv, Active, GuestReadInput, Goto, given, file,
            machine
  <2>3. ASSUME NEW q \in Proc PROVE ChannelInv(q)'
    <3>1. CASE q = p
          BY <1>12, <2>b, <2>c, <2>d, <3>1
          DEF TypeOK, ChannelInv, InCase, HasHost, Fix,
             Dir, GuestReadInput, GuestData, Goto, given, file, machine
    <3>2. CASE q # p
          BY <1>12, <3>2 DEF TypeOK, ChannelInv, InCase, HasHost, Fix, Dir,
             GuestReadInput, Goto, given, file, machine
    <3>3. QED BY <3>1, <3>2
  <2>4. QED BY <2>1, <2>2, <2>3
<1>13. CASE GuestProcess(p)
  <2>a. guest[p] \in GuestData /\ guest[p].input \in OperationInput
        BY <1>13 DEF GuestProcess, ChannelInv
  <2>b. Process(guest[p].input, guest[p].state) \in States
        BY <1>13, <2>a, ProcessTyped DEF GuestProcess, GuestData
  <2>c. [guest[p] EXCEPT !.state = Process(guest[p].input, guest[p].state)]
            \in GuestData
        BY <2>a, <2>b DEF GuestData
  <2>1. TypeOK'
        BY <1>13, <2>c DEF TypeOK, GuestProcess, Goto, Labels, given, file,
                           machine
  <2>2. SharingInv'
        BY <1>13
        DEF TypeOK, SharingInv, Active, GuestProcess, Goto, given, file, machine
  <2>3. ASSUME NEW q \in Proc PROVE ChannelInv(q)'
    <3>1. CASE q = p
          BY <1>13, <2>c, <3>1 DEF TypeOK, ChannelInv, InCase, HasHost, Fix,
             Dir, GuestProcess, Goto, given, file, machine
    <3>2. CASE q # p
          BY <1>13, <3>2 DEF TypeOK, ChannelInv, InCase, HasHost, Fix, Dir,
             GuestProcess, Goto, given, file, machine
    <3>3. QED BY <3>1, <3>2
  <2>4. QED BY <2>1, <2>2, <2>3
<1>14. CASE GuestCommit(p)
  <2>a. Root(guest[p].state) \in Roots
        BY <1>14 DEF GuestCommit, ChannelInv, GuestData, Root, Roots
  <2>1. TypeOK'
        BY <1>14, <2>a
        DEF TypeOK, GuestCommit, AfterGuest, Goto, Labels, given, file, machine
  <2>2. SharingInv'
        BY <1>14
        DEF TypeOK, SharingInv, Active, GuestCommit, AfterGuest, Goto, given,
            file, machine
  <2>3. ASSUME NEW q \in Proc PROVE ChannelInv(q)'
    <3>1. CASE q = p
          BY <1>14, <2>a, <3>1 DEF TypeOK, ChannelInv, InCase, HasHost, Fix,
             Dir, GuestCommit, AfterGuest, Goto, given, file, machine
    <3>2. CASE q # p
          BY <1>14, <3>2 DEF TypeOK, ChannelInv, InCase, HasHost, Fix, Dir,
             GuestCommit, AfterGuest, Goto, given, file, machine
    <3>3. QED BY <3>1, <3>2
  <2>4. QED BY <2>1, <2>2, <2>3
<1>15. CASE GenerateProof(p)
  <2>1. TypeOK'
        BY <1>15 DEF TypeOK, GenerateProof, Goto, Labels, given, file, machine
  <2>2. SharingInv'
        BY <1>15
        DEF TypeOK, SharingInv, Active, GenerateProof, Goto, given, file,
            machine
  <2>3. ASSUME NEW q \in Proc PROVE ChannelInv(q)'
        BY <1>15
        DEF TypeOK, ChannelInv, InCase, HasHost, Fix, Dir, GenerateProof,
            Goto,
                      given, file, machine
  <2>4. QED BY <2>1, <2>2, <2>3
<1>16. CASE VerifyProof(p)
  <2>1. TypeOK'
        BY <1>16 DEF TypeOK, VerifyProof, Goto, Labels, given, file, machine
  <2>2. SharingInv'
        BY <1>16
        DEF TypeOK, SharingInv, Active, VerifyProof, Goto, given, file, machine
  <2>3. ASSUME NEW q \in Proc PROVE ChannelInv(q)'
        BY <1>16
        DEF TypeOK, ChannelInv, InCase, HasHost, Fix, Dir, VerifyProof, Goto,
                      given, file, machine
  <2>4. QED BY <2>1, <2>2, <2>3
<1>17. CASE CompareSpecs(p)
  <2>1. TypeOK'
        BY <1>17 DEF TypeOK, CompareSpecs, Goto, Labels, given, file, machine
  <2>2. SharingInv'
        BY <1>17
        DEF TypeOK, SharingInv, Active, CompareSpecs, Goto, given, file, machine
  <2>3. ASSUME NEW q \in Proc PROVE ChannelInv(q)'
        BY <1>17
        DEF TypeOK, ChannelInv, InCase, HasHost, Fix, Dir, CompareSpecs,
            Goto,
                      given, file, machine
  <2>4. QED BY <2>1, <2>2, <2>3
<1>18. CASE CompareRecompute(p)
  <2>1. TypeOK'
        BY <1>18 DEF TypeOK, CompareRecompute, Goto, Labels, given, file,
                     machine
  <2>2. SharingInv'
        BY <1>18
        DEF TypeOK, SharingInv, Active, CompareRecompute, Goto, given, file,
            machine
  <2>3. ASSUME NEW q \in Proc PROVE ChannelInv(q)'
        BY <1>18
        DEF TypeOK, ChannelInv, InCase, HasHost, Fix, Dir, CompareRecompute,
            Goto,
                      given, file, machine
  <2>4. QED BY <2>1, <2>2, <2>3
<1>19. CASE EndCase(p)
  <2>a. stdin' \in [Proc -> Seq(Frame)]
        BY <1>19 DEF EndCase, TypeOK
  <2>1. TypeOK'
        BY <1>19, <2>a DEF TypeOK, EndCase, Goto, Labels, given, file, machine
  <2>2. SharingInv'
        BY <1>19 DEF TypeOK, SharingInv, Active, EndCase, Goto, given, file,
                     machine
  <2>3. ASSUME NEW q \in Proc PROVE ChannelInv(q)'
        BY <1>19
        DEF TypeOK, ChannelInv, InCase, HasHost, Fix, Dir, EndCase, Goto,
                      given, file, machine
  <2>4. QED BY <2>1, <2>2, <2>3
<1>20. CASE Finish(p)
      BY <1>20, StopTyped DEF Finish, Active
<1>21. CASE HostPanic(p)
      BY <1>21, StopTyped DEF HostPanic, HostPanics, Active
<1>22. CASE GuestPanic(p)
      BY <1>22, StopTyped DEF GuestPanic, GuestPanics, ToolFailure, Active
<1>23. CASE ToolFails(p)
      BY <1>23, StopTyped DEF ToolFails, ToolFailure, Active
<1>24. CASE Kill(p)
      BY <1>24, StopTyped DEF Kill, Active
<1>25. CASE JoltGuestPanic(p)
  <2>a. InCase(p) /\ HasHost(p) /\ buffer[p] = <<>>
        BY <1>25 DEF JoltGuestPanic, GuestPanics, InCase, HasHost, SharingInv,
                     ChannelInv
  <2>1. TypeOK'
        BY <1>25 DEF TypeOK, JoltGuestPanic, Goto, Labels, given, file, machine
  <2>2. SharingInv'
        BY <1>25, <2>a DEF TypeOK, SharingInv, Active, InCase, JoltGuestPanic,
            Goto, given, file, machine
  <2>3. ASSUME NEW q \in Proc PROVE ChannelInv(q)'
        BY <1>25, <2>a DEF TypeOK, ChannelInv, InCase, HasHost, Fix, Dir,
            JoltGuestPanic, Goto, given, file, machine
  <2>4. QED BY <2>1, <2>2, <2>3
<1>26. QED
      BY <1>1, <1>2, <1>3, <1>4, <1>5, <1>6, <1>7, <1>8, <1>8a, <1>9, <1>10,
         <1>10a, <1>11, <1>12, <1>13, <1>14, <1>15, <1>16, <1>17, <1>18, <1>19,
         <1>20, <1>21, <1>22, <1>23, <1>24, <1>25
      DEF Step

\* Initially nothing has started.
LEMMA InitTyped == Init => TypeInv
BY LeftoversAssumption
DEF Init, TypeInv, TypeOK, Labels, SharingInv, Active, ChannelInv, InCase,
    HasHost

\* Stuttering changes nothing.
LEMMA StutterTyped == TypeInv /\ UNCHANGED vars => TypeInv'
BY DEF TypeInv, TypeOK, vars, SharingInv, Active, ChannelInv, InCase, HasHost,
       Fix, Dir

\* Hence TypeInv holds in every state of every behaviour.
LEMMA TypeInvariance == Spec => []TypeInv
<1>1. TypeInv /\ [Next]_vars => TypeInv'
      BY StepTyped, StutterTyped DEF Next
<1>2. QED BY InitTyped, <1>1, PTL DEF Spec

\* The guest only holds decoded states, and commits the root of a state.
THEOREM TypeCorrect == Spec => []TypeOK
<1>1. TypeInv => TypeOK
      BY DEF TypeInv
<1>2. QED BY TypeInvariance, <1>1, PTL

-----------------------------------------------------------------------------
(* Soundness of the report *)

\* What process() makes of a prepared input is what ream's function for the
\* directory makes of the files.
LEMMA ProcessIsTransition ==
    ASSUME NEW op \in Operations, NEW f \in Fixture,
           op \in BlockOperations => ssz_from_file(OperationFile(op, f)),
           ProcessReturns(prepare_input(op, f), f.pre)
    PROVE  /\ Process(prepare_input(op, f), f.pre) = TransitionState(op, f)
           /\ op # "execution_payload"
           /\ op \in BlockOperations => f.op \in Payloads
<1>1. CASE op \in BlockOperations
  <2>1. OperationFile(op, f) = f.op
        BY <1>1, BlockDispatch DEF OperationFile
  <2>2. op # "execution_payload"
        BY <1>1, BlockDispatch DEF ProcessReturns, prepare_input
  <2>3. f.op # Malformed
        BY <1>1, <2>1 DEF ProcessReturns, prepare_input
  <2>4. f.op \in Payloads
        BY <1>1, <2>1, <2>3 DEF Fixture, Damage, ssz_from_file
  <2>5. BlockHandler[BlockOperationType[op]] = FixtureHandler[op]
        BY <1>1, <2>2, BlockDispatch
  <2>6. Process(prepare_input(op, f), f.pre) = TransitionState(op, f)
        BY <1>1, <2>1, <2>5 DEF Process, prepare_input, TransitionState
  <2>7. QED BY <2>2, <2>4, <2>6
<1>2. CASE op \in EpochOperations
  <2>1. op \notin BlockOperations
        BY <1>2, OperationKinds
  <2>2. op # "execution_payload"
        BY <2>1 DEF BlockOperations
  <2>3. Process(prepare_input(op, f), f.pre) = TransitionState(op, f)
        BY <1>2, <2>1, EpochDispatch DEF Process, prepare_input, TransitionState
  <2>4. QED BY <2>1, <2>2, <2>3
<1>3. QED BY <1>1, <1>2 DEF Operations

\* Roots tell states apart.
LEMMA RootInjective ==
    ASSUME NEW s, NEW u, Root(s) = Root(u)
    PROVE  s = u
<1>1. Root(s).root = s /\ Root(u).root = u
      BY DEF Root
<1>2. QED BY <1>1

SoundInv ==
    /\ ReportedConforms
    /\ \A p \in Proc :
           /\ HostInv(p)
           /\ Isolated(p) => GuestInv(p)
           /\ ComparedInv(p)

\* A root that matches both references, the vectors' and the host's own, is that
\* of a case ream gets right, wherever the guest had its input from.
LEMMA AgreedIsConformant ==
    ASSUME TypeInv, NEW p \in Proc, HasHost(p), HostInv(p), MatchesSpecs(p),
           MatchesRecompute(p)
    PROVE  /\ args[p].operation # "execution_payload"
           /\ Conforms(args[p].operation, Fix(p))
<1> DEFINE op == args[p].operation
<1>1. Fix(p) \in Fixture
      BY FixtureTyped DEF TypeInv, ChannelInv, Fix, HasHost
<1>2. op \in Operations
      BY InvocationsAssumption DEF TypeInv, TypeOK, Args
<1>3. /\ host[p].pre = Fix(p).pre
      /\ host[p].input = prepare_input(op, Fix(p))
      /\ op \in BlockOperations => ssz_from_file(OperationFile(op, Fix(p)))
      BY DEF HostInv, FilesReadable
<1>4. /\ Fix(p).pre \in States
      /\ ProcessReturns(prepare_input(op, Fix(p)), Fix(p).pre)
      /\ output[p] = Root(Process(prepare_input(op, Fix(p)), Fix(p).pre))
      BY <1>3 DEF MatchesRecompute
<1>5. /\ Process(prepare_input(op, Fix(p)), Fix(p).pre)
             = TransitionState(op, Fix(p))
      /\ op # "execution_payload"
      /\ op \in BlockOperations => Fix(p).op \in Payloads
      BY <1>1, <1>2, <1>3, <1>4, ProcessIsTransition
<1>6. Decodable(op, Fix(p))
      BY <1>4, <1>5 DEF Decodable
<1>7. /\ Fix(p).post \in States \cup {Absent}
      /\ output[p] = Root(ExpectedState(Fix(p)))
      BY <1>3 DEF MatchesSpecs, ExpectedState
<1>8. TransitionState(op, Fix(p)) = ExpectedState(Fix(p))
      BY <1>4, <1>5, <1>7, RootInjective
<1>9. QED BY <1>5, <1>6, <1>7, <1>8 DEF Conforms

\* The case at the bottom of the loop may be reported.
LEMMA EndIsReportable ==
    ASSUME TypeInv, SoundInv, NEW p \in Proc, pc[p] = "end", Isolated(p)
    PROVE  Reportable(args[p], Fix(p))
<1> SUFFICES ASSUME args[p].zkvm # "jolt"
             PROVE  /\ args[p].operation # "execution_payload"
                    /\ Conforms(args[p].operation, Fix(p))
    BY DEF Reportable
<1>1. HasHost(p) /\ HasOutput(p)
      BY DEF HasHost, HasOutput, InCase
<1>2. HostInv(p) /\ MatchesSpecs(p)
      BY DEF SoundInv, ComparedInv
<1>3. MatchesRecompute(p)
      BY <1>1 DEF SoundInv, GuestInv, MatchesRecompute
<1>4. QED BY <1>1, <1>2, <1>3, AgreedIsConformant

\* A step of p writes p's row of every variable and, in two places, the file.
LEMMA StepIsLocal ==
    ASSUME TypeInv, NEW p \in Proc, Step(p) \/ Kill(p)
    PROVE  /\ args' = args /\ disk' = disk
           /\ \A q \in Proc \ {p} :
                  /\ pc'[q] = pc[q] /\ case'[q] = case[q] /\ host'[q] = host[q]
                  /\ stdin'[q] = stdin[q] /\ guest'[q] = guest[q]
                  /\ output'[q] = output[q] /\ status'[q] = status[q]
                  /\ buffer'[q] = buffer[q]
           /\ input_bin' = input_bin \/ pc[p] \in {"truncate", "fill"}
      BY DEF Step, Kill, Stop, TypeInv, TypeOK, given, file, machine, Goto,
             LoadTestCases, SkipCase, StartCase, ReadCaseFiles, WriteStdin,
             BuildZiskGuest, TruncateZiskInput, FillZiskInput, CloseZiskInput,
             RomSetup, ReadZiskInput, DecodeZiskInput, GuestReadPreState,
             GuestReadInput, GuestProcess, GuestCommit, GenerateProof,
             VerifyProof, CompareSpecs, CompareRecompute, EndCase, Finish,
             HostPanic, GuestPanic, JoltGuestPanic, ToolFails

\* It leaves what is known of the other processes intact: the file is only ever
\* overwritten under a process that is not isolated.
LEMMA OthersSound ==
    ASSUME TypeInv, SoundInv, NEW p \in Proc, Step(p) \/ Kill(p),
           NEW q \in Proc \ {p}
    PROVE  /\ HostInv(q)'
           /\ Isolated(q)' => GuestInv(q)'
           /\ ComparedInv(q)'
<1>1. /\ args' = args /\ disk' = disk
      /\ pc'[q] = pc[q] /\ case'[q] = case[q] /\ host'[q] = host[q]
      /\ stdin'[q] = stdin[q] /\ guest'[q] = guest[q]
      /\ output'[q] = output[q] /\ buffer'[q] = buffer[q]
      /\ input_bin' = input_bin \/ pc[p] \in {"truncate", "fill"}
      BY StepIsLocal
<1>2. /\ HostInv(q) /\ ComparedInv(q)
      /\ Isolated(q) => GuestInv(q)
      BY DEF SoundInv
<1>3. HostInv(q)'
      BY <1>1, <1>2 DEF HostInv, HasHost, InCase, FilesReadable, Fix, Dir
<1>4. ComparedInv(q)'
      BY <1>1, <1>2 DEF ComparedInv, MatchesSpecs, Fix, Dir
<1>5. ASSUME Isolated(q)' PROVE GuestInv(q)'
  <2>1. Isolated(q)
        BY <1>1, <1>5 DEF Isolated
  <2>2. pc[q] \in {"fill", "rom_setup", "load"} => input_bin' = input_bin
        BY <1>1, <2>1 DEF Isolated, TypeInv, SharingInv, Active
  <2>3. QED BY <1>1, <1>2, <2>1, <2>2 DEF GuestInv, HasOutput
<1>6. QED BY <1>3, <1>4, <1>5

\* It establishes what is to be known of p itself.
LEMMA OwnSound ==
    ASSUME TypeInv, SoundInv, NEW p \in Proc, Step(p) \/ Kill(p)
    PROVE  /\ HostInv(p)'
           /\ Isolated(p)' => GuestInv(p)'
           /\ ComparedInv(p)'
<1> DEFINE Goal == /\ HostInv(p)'
                   /\ Isolated(p) => GuestInv(p)'
                   /\ ComparedInv(p)'
<1> SUFFICES Goal
    BY StepIsLocal DEF Isolated
<1>a. /\ HostInv(p) /\ ComparedInv(p)
      /\ Isolated(p) => GuestInv(p)
      BY DEF SoundInv
<1>b. TypeOK
      BY DEF TypeInv
<1>1. CASE LoadTestCases(p)
      BY <1>1, <1>a, <1>b
      DEF TypeOK, HostInv, GuestInv, ComparedInv, HasHost, HasOutput, InCase,
          FilesReadable, MatchesSpecs, Fix, Dir, LoadTestCases, Goto, given,
          file, machine
<1>2. CASE SkipCase(p)
      BY <1>2, <1>a, <1>b
      DEF TypeOK, HostInv, GuestInv, ComparedInv, HasHost, HasOutput, InCase,
          FilesReadable, MatchesSpecs, Fix, Dir, SkipCase, Goto, given, file,
          machine
<1>3. CASE StartCase(p)
      BY <1>3, <1>a, <1>b
      DEF TypeOK, HostInv, GuestInv, ComparedInv, HasHost, HasOutput, InCase,
          FilesReadable, MatchesSpecs, Fix, Dir, StartCase, Goto, given, file,
          machine
<1>4. CASE ReadCaseFiles(p)
      BY <1>4, <1>a, <1>b
      DEF TypeOK, HostInv, GuestInv, ComparedInv, HasHost, HasOutput, InCase,
          FilesReadable, MatchesSpecs, Fix, Dir, ReadCaseFiles, Goto, given,
          file, machine
<1>5. CASE WriteStdin(p)
      BY <1>5, <1>a, <1>b
      DEF TypeOK, HostInv, GuestInv, ComparedInv, HasHost, HasOutput, InCase,
          FilesReadable, MatchesSpecs, Fix, Dir, WriteStdin, Goto, given, file,
          machine
<1>6. CASE BuildZiskGuest(p)
      BY <1>6, <1>a, <1>b
      DEF TypeOK, HostInv, GuestInv, ComparedInv, HasHost, HasOutput, InCase,
          FilesReadable, MatchesSpecs, Fix, Dir, BuildZiskGuest, Goto, given,
          file, machine
<1>7. CASE TruncateZiskInput(p)
  <2>1. buffer'[p] = <<>>
        BY <1>7, <1>b DEF TruncateZiskInput, TypeInv, ChannelInv
  <2>2. QED
        BY <1>7, <1>a, <1>b, <2>1
        DEF TypeOK, HostInv, GuestInv, ComparedInv, HasHost, HasOutput, InCase,
            FilesReadable, MatchesSpecs, Fix, Dir, TruncateZiskInput, Goto,
            given, machine
<1>8. CASE FillZiskInput(p)
  <2> DEFINE i == Len(buffer[p]) + 1
  <2>1. HostInv(p)' /\ ComparedInv(p)'
        BY <1>8, <1>a, <1>b
        DEF TypeOK, HostInv, ComparedInv, HasHost, InCase, FilesReadable, Fix,
            Dir, FillZiskInput, given
  <2>2. ASSUME Isolated(p) PROVE GuestInv(p)'
    <3>1. input_bin \in File /\ i \in 1 .. Parts
          BY <1>8, <1>b, PartsAssumption
          DEF FillZiskInput, TypeInv, ChannelInv, TypeOK
    <3>2. /\ input_bin' = [input_bin EXCEPT ![i] = host[p]]
          /\ Len(buffer'[p]) = i
          BY <1>8, <1>b DEF FillZiskInput, TypeOK
    <3>3. \A k \in 1 .. i - 1 : input_bin[k] = host[p]
          BY <1>8, <1>a, <1>b, <2>2 DEF FillZiskInput, GuestInv, TypeOK
    <3>4. \A k \in 1 .. i : input_bin'[k] = host[p]
          BY <3>1, <3>2, <3>3 DEF File
    <3>5. pc'[p] = "fill" /\ host' = host
          BY <1>8 DEF FillZiskInput
    <3>6. QED BY <3>2, <3>4, <3>5 DEF GuestInv, HasOutput
  <2>3. QED BY <2>1, <2>2
<1>8a. CASE CloseZiskInput(p)
  <2>1. buffer'[p] = <<>> /\ Len(buffer[p]) = Parts
        BY <1>8a, <1>b DEF CloseZiskInput, TypeOK
  <2>2. QED
        BY <1>8a, <1>a, <1>b, <2>1
        DEF TypeOK, HostInv, GuestInv, ComparedInv, HasHost, HasOutput, InCase,
            FilesReadable, MatchesSpecs, Fix, Dir, CloseZiskInput, Goto, given,
            machine
<1>9. CASE RomSetup(p)
  <2>1. buffer'[p] = <<>>
        BY <1>9, <1>b DEF RomSetup, TypeInv, ChannelInv, file
  <2>2. QED
        BY <1>9, <1>a, <1>b, <2>1
        DEF TypeOK, HostInv, GuestInv, ComparedInv, HasHost, HasOutput, InCase,
            FilesReadable, MatchesSpecs, Fix, Dir, RomSetup, Goto, given, file,
            machine
<1>10. CASE ReadZiskInput(p)
  <2> DEFINE i == Len(buffer[p]) + 1
  <2>1. HostInv(p)' /\ ComparedInv(p)'
        BY <1>10, <1>a, <1>b
        DEF TypeOK, HostInv, ComparedInv, HasHost, InCase, FilesReadable, Fix,
            Dir, ReadZiskInput, given
  <2>2. ASSUME Isolated(p) PROVE GuestInv(p)'
    <3>1. i \in 1 .. Parts /\ buffer[p] \in Seq(Piece)
          BY <1>10, <1>b, PartsAssumption DEF ReadZiskInput, TypeOK
    <3>2. /\ \A k \in 1 .. Parts : input_bin[k] = host[p]
          /\ \A k \in 1 .. Len(buffer[p]) : buffer[p][k] = host[p]
          BY <1>10, <1>a, <2>2 DEF ReadZiskInput, GuestInv
    <3>3. LoadedInput(p)[i] = host[p]
          BY <1>10, <3>1, <3>2 DEF ReadZiskInput, LoadedInput
    <3>4. buffer'[p] = Append(buffer[p], host[p])
          BY <1>10, <1>b, <3>3 DEF ReadZiskInput, TypeOK
    <3>5. \A k \in 1 .. Len(buffer'[p]) : buffer'[p][k] = host[p]
          BY <3>1, <3>2, <3>4
    <3>6. pc'[p] = "load" /\ host' = host /\ input_bin' = input_bin
          BY <1>10 DEF ReadZiskInput
    <3>7. QED BY <3>2, <3>5, <3>6 DEF GuestInv, HasOutput
  <2>3. QED BY <2>1, <2>2
<1>10a. CASE DecodeZiskInput(p)
  <2>1. HostInv(p)' /\ ComparedInv(p)'
        BY <1>10a, <1>a, <1>b
        DEF TypeOK, HostInv, ComparedInv, HasHost, InCase, FilesReadable, Fix,
            Dir, DecodeZiskInput, Goto, given
  <2>2. ASSUME Isolated(p) PROVE GuestInv(p)'
    <3>1. \A i \in 1 .. Parts : buffer[p][i] = host[p]
          BY <1>10a, <1>a, <2>2 DEF DecodeZiskInput, GuestInv
    <3>2. host[p] \in HostData
          BY <1>10a DEF DecodeZiskInput, TypeInv, ChannelInv, HasHost, InCase
    <3>3. Decodings(buffer[p]) = {host[p]}
          BY <3>1, <3>2, PartsAssumption DEF Decodings, Whole
    <3>4. args[p].zkvm = "zisk"
          BY <1>10a DEF DecodeZiskInput, TypeInv, SharingInv
    <3>5. stdin' = [stdin EXCEPT ![p] = Frames(args[p].zkvm, host[p])]
          BY <1>10a, <3>3, <3>4 DEF DecodeZiskInput
    <3>6. QED
          BY <1>10a, <1>b, <3>5
          DEF TypeOK, GuestInv, HasOutput, DecodeZiskInput, Goto, given
  <2>3. QED BY <2>1, <2>2
<1>11. CASE GuestReadPreState(p)
  <2>1. HostInv(p)' /\ ComparedInv(p)'
        BY <1>11, <1>a, <1>b
        DEF TypeOK, HostInv, ComparedInv, HasHost, InCase, FilesReadable, Fix,
            Dir, GuestReadPreState, Goto, given, file
  <2>2. ASSUME Isolated(p) PROVE GuestInv(p)'
    <3> USE <2>2
    <3>1. stdin[p] = Frames(args[p].zkvm, host[p])
          BY <1>11, <1>a DEF GuestReadPreState, GuestInv
    <3>2. /\ PreState(args[p].zkvm, stdin[p]) = host[p].pre
          /\ AfterPreState(args[p].zkvm, stdin[p]) = <<InputFrame(host[p])>>
          BY <3>1, Framing
    <3>3. /\ guest' = [guest EXCEPT ![p] =
                           [state |-> host[p].pre, input |-> Absent]]
          /\ stdin' = [stdin EXCEPT ![p] = <<InputFrame(host[p])>>]
          BY <1>11, <3>2 DEF GuestReadPreState
    <3>9. QED
          BY <1>11, <1>b, <3>3
          DEF TypeOK, GuestInv, HasOutput, GuestReadPreState, Goto, given, file
  <2>3. QED BY <2>1, <2>2
<1>12. CASE GuestReadInput(p)
  <2>1. HostInv(p)' /\ ComparedInv(p)'
        BY <1>12, <1>a, <1>b
        DEF TypeOK, HostInv, ComparedInv, HasHost, InCase, FilesReadable, Fix,
            Dir, GuestReadInput, Goto, given, file
  <2>2. ASSUME Isolated(p) PROVE GuestInv(p)'
    <3> USE <2>2
    <3>1. stdin[p] = <<InputFrame(host[p])>> /\ guest[p].state = host[p].pre
          BY <1>12, <1>a DEF GuestReadInput, GuestInv
    <3>2. Head(stdin[p]).val = host[p].input
          BY <3>1 DEF InputFrame
    <3>3. guest[p] \in GuestData
          BY <1>12 DEF GuestReadInput, TypeInv, ChannelInv
    <3>4. guest' = [guest EXCEPT ![p] =
                       [state |-> host[p].pre, input |-> host[p].input]]
      <4>1. [guest[p] EXCEPT !.input = host[p].input]
                = [state |-> host[p].pre, input |-> host[p].input]
            BY <3>1, <3>3 DEF GuestData
      <4>2. guest' = [guest EXCEPT ![p] =
                         [guest[p] EXCEPT !.input = host[p].input]]
            BY <1>12, <3>2 DEF GuestReadInput
      <4>3. QED BY <4>1, <4>2
    <3>9. QED
          BY <1>12, <1>b, <3>4
          DEF TypeOK, GuestInv, HasOutput, GuestReadInput, Goto, given, file
  <2>3. QED BY <2>1, <2>2
<1>13. CASE GuestProcess(p)
  <2>1. HostInv(p)' /\ ComparedInv(p)'
        BY <1>13, <1>a, <1>b
        DEF TypeOK, HostInv, ComparedInv, HasHost, InCase, FilesReadable, Fix,
            Dir, GuestProcess, Goto, given, file
  <2>2. ASSUME Isolated(p) PROVE GuestInv(p)'
    <3> USE <2>2
    <3>1. /\ guest[p].input = host[p].input
          /\ guest[p].state = host[p].pre
          BY <1>13, <1>a DEF GuestProcess, GuestInv
    <3>2. guest[p] \in GuestData
          BY <1>13 DEF GuestProcess, TypeInv, ChannelInv
    <3>3. host[p].pre \in States
          BY <3>1, <3>2 DEF GuestData
    <3>4. ProcessReturns(host[p].input, host[p].pre)
          BY <1>13, <3>1 DEF GuestProcess
    <3>5. guest' = [guest EXCEPT ![p] =
                       [state |-> Process(host[p].input, host[p].pre),
                        input |-> host[p].input]]
      <4>1. [guest[p] EXCEPT !.state = Process(host[p].input, host[p].pre)]
                = [state |-> Process(host[p].input, host[p].pre),
                   input |-> host[p].input]
            BY <3>1, <3>2 DEF GuestData
      <4>2. guest' = [guest EXCEPT ![p] =
                         [guest[p] EXCEPT
                             !.state = Process(host[p].input, host[p].pre)]]
            BY <1>13, <3>1 DEF GuestProcess
      <4>3. QED BY <4>1, <4>2
    <3>9. QED
          BY <1>13, <1>b, <3>3, <3>4, <3>5
          DEF TypeOK, GuestInv, HasOutput, GuestProcess, Goto, given, file
  <2>3. QED BY <2>1, <2>2
<1>14. CASE GuestCommit(p)
      BY <1>14, <1>a, <1>b
      DEF TypeOK, HostInv, GuestInv, ComparedInv, HasHost, HasOutput, InCase,
          FilesReadable, MatchesSpecs, Fix, Dir, GuestCommit, AfterGuest, Goto,
          given, file, machine
<1>15. CASE GenerateProof(p)
      BY <1>15, <1>a, <1>b
      DEF TypeOK, HostInv, GuestInv, ComparedInv, HasHost, HasOutput, InCase,
          FilesReadable, MatchesSpecs, Fix, Dir, GenerateProof, Goto, given,
          file, machine
<1>16. CASE VerifyProof(p)
      BY <1>16, <1>a, <1>b
      DEF TypeOK, HostInv, GuestInv, ComparedInv, HasHost, HasOutput, InCase,
          FilesReadable, MatchesSpecs, Fix, Dir, VerifyProof, Goto, given, file,
          machine
<1>17. CASE CompareSpecs(p)
      BY <1>17, <1>a, <1>b
      DEF TypeOK, HostInv, GuestInv, ComparedInv, HasHost, HasOutput, InCase,
          FilesReadable, MatchesSpecs, Fix, Dir, CompareSpecs, Goto, given,
          file, machine
<1>18. CASE CompareRecompute(p)
      BY <1>18, <1>a, <1>b
      DEF TypeOK, HostInv, GuestInv, ComparedInv, HasHost, HasOutput, InCase,
          FilesReadable, MatchesSpecs, Fix, Dir, CompareRecompute, Goto, given,
          file, machine
<1>19. CASE EndCase(p)
      BY <1>19, <1>a, <1>b
      DEF TypeOK, HostInv, GuestInv, ComparedInv, HasHost, HasOutput, InCase,
          FilesReadable, MatchesSpecs, Fix, Dir, EndCase, Goto, given, file,
          machine
<1>20. CASE \E code : Stop(p, code)
      BY <1>20, <1>b DEF TypeOK, HostInv, GuestInv, ComparedInv, HasHost,
          HasOutput, InCase, Stop, Goto
<1>21. CASE JoltGuestPanic(p)
  <2>1. HasHost(p) /\ HasHost(p)'
        BY <1>21, <1>b
        DEF TypeOK, JoltGuestPanic, GuestPanics, HasHost, InCase, Goto
  <2>2. QED
        BY <1>21, <1>a, <1>b, <2>1
        DEF TypeOK, HostInv, GuestInv, ComparedInv, HasOutput, FilesReadable,
            MatchesSpecs, Fix, Dir, JoltGuestPanic, Goto, given, file, machine
<1>22. QED
      BY <1>1, <1>2, <1>3, <1>4, <1>5, <1>6, <1>7, <1>8, <1>8a, <1>9, <1>10,
         <1>10a, <1>11, <1>12, <1>13, <1>14, <1>15, <1>16, <1>17, <1>18, <1>19,
         <1>20, <1>21
      DEF Step, Kill, Finish, HostPanic, GuestPanic, JoltGuestPanic, ToolFails

\* Every step keeps SoundInv: a new report comes from EndCase, of the case p
\* ran, and EndIsReportable says it may be made.
LEMMA StepSound ==
    ASSUME TypeInv, SoundInv, NEW p \in Proc, Step(p) \/ Kill(p)
    PROVE  SoundInv'
<1>1. ASSUME NEW q \in Proc
      PROVE  /\ HostInv(q)'
             /\ Isolated(q)' => GuestInv(q)'
             /\ ComparedInv(q)'
      BY OwnSound, OthersSound
<1>2. ReportedConforms'
  <2> SUFFICES ASSUME NEW q \in Proc, NEW c \in Cases, Isolated(q),
                      status'[q][c] = "reported"
               PROVE  Reportable(args[q], Dir(q)[c])
      BY StepIsLocal DEF ReportedConforms, Isolated, Dir
  <2>1. CASE status[q][c] = "reported"
        BY <2>1 DEF SoundInv, ReportedConforms
  <2>2. CASE status[q][c] # "reported"
    <3>1. q = p
          BY <2>2, StepIsLocal
    <3>2. EndCase(p)
          BY <2>2, <3>1
          DEF Step, Kill, Stop, TypeInv, TypeOK, LoadTestCases, SkipCase,
              StartCase, ReadCaseFiles, WriteStdin, BuildZiskGuest,
              TruncateZiskInput, FillZiskInput, CloseZiskInput, RomSetup,
              ReadZiskInput, DecodeZiskInput, GuestReadPreState, GuestReadInput,
              GuestProcess, GuestCommit, GenerateProof, VerifyProof,
              CompareSpecs, CompareRecompute, Finish, HostPanic, GuestPanic,
              JoltGuestPanic, ToolFails, machine
    <3>3. c = case[p]
          BY <2>2, <3>1, <3>2 DEF EndCase, TypeInv, TypeOK
    <3>4. QED BY <3>1, <3>2, <3>3, EndIsReportable DEF EndCase, Fix
  <2>3. QED BY <2>1, <2>2
<1>3. QED BY <1>1, <1>2 DEF SoundInv

\* Initially no case runs and none is reported.
LEMMA InitSound == Init => SoundInv
BY
DEF Init, SoundInv, ReportedConforms, HostInv, GuestInv, ComparedInv,
    HasHost,
       HasOutput, InCase

\* Stuttering changes nothing.
LEMMA StutterSound == SoundInv /\ UNCHANGED vars => SoundInv'
BY
DEF SoundInv, vars, ReportedConforms, Isolated, HostInv, GuestInv,
    ComparedInv,
       HasHost, HasOutput, InCase, FilesReadable, MatchesSpecs, LoadedInput,
           Fix, Dir

\* Hence SoundInv holds in every state of every behaviour.
LEMMA SoundInvariance == Spec => []SoundInv
<1>1. TypeInv /\ SoundInv /\ [Next]_vars => SoundInv'
      BY StepSound, StutterSound DEF Next
<1>2. QED BY InitSound, TypeInvariance, <1>1, PTL DEF Spec

\* A reported case is a correct one, however many processes run, unless another
\* ZISK process overlaps with it.
THEOREM ReportIsSound == Spec => []ReportedConforms
<1>1. SoundInv => ReportedConforms
      BY DEF SoundInv
<1>2. QED BY SoundInvariance, <1>1, PTL

\* The guest processes the case its host runs.
THEOREM GuestIsAttributed == Spec => []GuestRunsThisCase
<1>1. SoundInv => GuestRunsThisCase
  <2> SUFFICES ASSUME SoundInv, NEW p \in Proc, Isolated(p), pc[p] = "process"
               PROVE  /\ guest[p].state = Fix(p).pre
                      /\ guest[p].input = prepare_input(args[p].operation,
                          Fix(p))
      BY DEF GuestRunsThisCase
  <2>1. HostInv(p) /\ GuestInv(p)
        BY DEF SoundInv
  <2>2. HasHost(p)
        BY DEF HasHost, InCase
  <2>3. QED BY <2>1, <2>2 DEF HostInv, GuestInv
<1>2. QED BY SoundInvariance, <1>1, PTL

\* The invariant the two layers make together, which the serial ZISK run checks:
\* what the host, the channel, the guest and the file hold between two steps.
THEOREM IInvInvariant == Spec => []IInv
<1>1. TypeInv /\ SoundInv => IInv
      BY DEF TypeInv, SoundInv, IInv
<1>2. QED BY TypeInvariance, SoundInvariance, <1>1, PTL
================================================================================
