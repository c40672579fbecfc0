------------------------- MODULE BeaconHarness_overlap -------------------------
(***************************************************************************)
(* With make -j several harness processes truncate, write and read ZISK's  *)
(* input file at once, piece by piece.  Proved here: what holds even then, *)
(* of every process and without Isolated.                                  *)
(***************************************************************************)
EXTENDS BeaconHarness_contract

-----------------------------------------------------------------------------
(* A recomputed report *)

\* At the bottom of the loop the root matches what the host computes itself.
RecomputedInv(p) ==
    pc[p] = "end" /\ args[p].compare_recompute /\ args[p].zkvm # "jolt" =>
        MatchesRecompute(p)

OverlapInv ==
    /\ RecomputedReportConforms
    /\ \A p \in Proc : RecomputedInv(p)

\* The bottom of the loop is reached through the second comparison only, if it is
\* asked for; the first has been passed before it.
LEMMA OwnRecomputed ==
    ASSUME TypeInv, NEW p \in Proc, Step(p) \/ Kill(p)
    PROVE  RecomputedInv(p)'
<1>a. TypeOK
      BY DEF TypeInv
<1> SUFFICES ASSUME pc'[p] = "end", args[p].compare_recompute,
                    args[p].zkvm # "jolt"
             PROVE  MatchesRecompute(p)'
    BY StepIsLocal DEF RecomputedInv
<1>1. CompareRecompute(p)
      BY <1>a
      DEF Step, Kill, Stop, Goto, TypeOK, LoadTestCases, SkipCase, StartCase,
          Finish, ReadCaseFiles, WriteStdin, BuildZiskGuest, TruncateZiskInput,
          FillZiskInput, CloseZiskInput, RomSetup, ReadZiskInput,
          DecodeZiskInput, GuestReadPreState, GuestReadInput, GuestProcess,
          GuestCommit, AfterGuest, GenerateProof, VerifyProof, CompareSpecs,
          EndCase, HostPanic, GuestPanic, JoltGuestPanic, ToolFails
<1>2. QED BY <1>1 DEF CompareRecompute, MatchesRecompute, machine

\* A step of p leaves what the others compared alone.
LEMMA OthersRecomputed ==
    ASSUME TypeInv, NEW p \in Proc, Step(p) \/ Kill(p), NEW q \in Proc \ {p},
           RecomputedInv(q)
    PROVE  RecomputedInv(q)'
<1>1. /\ args' = args
      /\ pc'[q] = pc[q] /\ host'[q] = host[q] /\ output'[q] = output[q]
      BY StepIsLocal
<1>2. QED BY <1>1 DEF RecomputedInv, MatchesRecompute

\* Every step keeps OverlapInv: a new report is of the case at the bottom of the
\* loop, whose root matches both references.
LEMMA StepOverlap ==
    ASSUME TypeInv, SoundInv, OverlapInv, NEW p \in Proc, Step(p) \/ Kill(p)
    PROVE  OverlapInv'
<1>1. ASSUME NEW q \in Proc PROVE RecomputedInv(q)'
      BY OwnRecomputed, OthersRecomputed DEF OverlapInv
<1>2. RecomputedReportConforms'
  <2> SUFFICES ASSUME NEW q \in Proc, NEW c \in Cases,
                      args[q].compare_recompute, status'[q][c] = "reported"
               PROVE  Reportable(args[q], Dir(q)[c])
      BY StepIsLocal DEF RecomputedReportConforms, Dir
  <2>1. CASE status[q][c] = "reported"
        BY <2>1 DEF OverlapInv, RecomputedReportConforms
  <2>2. CASE status[q][c] # "reported"
    <3>1. q = p /\ EndCase(p) /\ c = case[p]
          BY <2>2, OnlyEndReports
    <3> SUFFICES ASSUME args[p].zkvm # "jolt"
                 PROVE  /\ args[p].operation # "execution_payload"
                        /\ Conforms(args[p].operation, Fix(p))
        BY <3>1 DEF Reportable, Fix
    <3>2. pc[p] = "end" /\ HasHost(p)
          BY <3>1 DEF EndCase, HasHost, InCase
    <3>3. HostInv(p) /\ MatchesSpecs(p)
          BY <3>2 DEF SoundInv, ComparedInv
    <3>4. MatchesRecompute(p)
          BY <3>1, <3>2 DEF OverlapInv, RecomputedInv
    <3>5. QED BY <3>2, <3>3, <3>4, AgreedIsConformant
  <2>3. QED BY <2>1, <2>2
<1>3. QED BY <1>1, <1>2 DEF OverlapInv

\* With --compare-recompute a report is correct however processes overlap and
\* whatever the guest read: its root matches the vectors' and the one the host
\* computes from the files of that very case.
THEOREM RecomputedReportIsSound == Spec => []RecomputedReportConforms
<1>1. Init => OverlapInv
      BY DEF Init, OverlapInv, RecomputedReportConforms, RecomputedInv
<1>2. TypeInv /\ SoundInv /\ OverlapInv /\ [Next]_vars => OverlapInv'
  <2>1. ASSUME OverlapInv, UNCHANGED vars PROVE OverlapInv'
        BY <2>1 DEF vars, OverlapInv, RecomputedReportConforms, RecomputedInv,
                    MatchesRecompute, Dir
  <2>2. QED BY <2>1, StepOverlap DEF Next
<1>3. OverlapInv => RecomputedReportConforms
      BY DEF OverlapInv
<1>4. QED BY <1>1, <1>2, <1>3, TypeInvariance, SoundInvariance, PTL DEF Spec

-----------------------------------------------------------------------------
(* Whose pieces are loaded *)

\* A gap, or a piece of what the host makes of a case some process is to run.
Genuine(b) == b = Corrupt \/ \E q \in Proc, c \in Cases : MadeOf(b, q, c)

\* Once some process has begun to rewrite the file, what an earlier run left in
\* it is gone.
FileInv ==
    (\E p \in Proc : pc[p] \in {"fill", "rom_setup", "load"}) =>
        \A i \in 1 .. Parts : Genuine(input_bin[i])

LoadInv(p) ==
    pc[p] = "load" => \A i \in 1 .. Len(buffer[p]) : Genuine(buffer[p][i])

Origins == FileInv /\ \A p \in Proc : LoadInv(p)

\* What is genuine stays genuine: neither the command lines nor the vectors
\* change.
LEMMA GenuineStays ==
    ASSUME args' = args, disk' = disk, NEW b
    PROVE  Genuine(b)' <=> Genuine(b)
BY DEF Genuine, MadeOf

\* The host always holds a genuine input.
LEMMA HostIsGenuine ==
    ASSUME TypeInv, SoundInv, SettledInvs, NEW p \in Proc, HasHost(p)
    PROVE  Genuine(host[p])
<1>1. InCase(p)
      BY DEF HasHost
<1>2. case[p] \in Cases /\ Fix(p) # Absent
      BY <1>1 DEF TypeInv, ChannelInv
<1>3. case[p] \notin args[p].excluded_cases
      BY <1>1 DEF SettledInvs, SettledInv
<1>4. HostInv(p)
      BY DEF SoundInv
<1>5. MadeOf(host[p], p, case[p])
      BY <1>2, <1>3, <1>4 DEF HostInv, Fix, Dir, MadeOf
<1>6. QED BY <1>2, <1>5 DEF Genuine

\* Only two steps write the file, and what they write are gaps or genuine.
LEMMA StepFile ==
    ASSUME TypeInv, SoundInv, SettledInvs, FileInv,
           NEW p \in Proc, Step(p) \/ Kill(p)
    PROVE  FileInv'
<1>1. \A b : Genuine(b)' <=> Genuine(b)
      BY StepIsLocal, GenuineStays
<1>2. CASE TruncateZiskInput(p)
  <2>1. \A i \in 1 .. Parts : input_bin'[i] = Corrupt
        BY <1>2 DEF TruncateZiskInput
  <2>2. QED BY <2>1 DEF FileInv, Genuine
<1>3. CASE FillZiskInput(p)
  <2>1. HasHost(p) /\ pc[p] = "fill"
        BY <1>3 DEF FillZiskInput, HasHost, InCase
  <2>2. input_bin \in File
        BY <2>1 DEF TypeInv, ChannelInv
  <2>3. \A i \in 1 .. Parts : input_bin'[i] \in {input_bin[i], host[p]}
        BY <1>3, <2>2 DEF FillZiskInput, File
  <2>4. \A i \in 1 .. Parts : Genuine(input_bin[i])
        BY <2>1 DEF FileInv
  <2>5. \A i \in 1 .. Parts : Genuine(input_bin'[i])
        BY <2>1, <2>3, <2>4, HostIsGenuine
  <2>6. QED BY <1>1, <2>5 DEF FileInv
<1>4. CASE ~TruncateZiskInput(p) /\ ~FillZiskInput(p)
  <2>1. input_bin' = input_bin
        BY <1>4
        DEF Step, Kill, Stop, LoadTestCases, SkipCase, StartCase, Finish,
            ReadCaseFiles, WriteStdin, BuildZiskGuest, CloseZiskInput, RomSetup,
            ReadZiskInput, DecodeZiskInput, GuestReadPreState, GuestReadInput,
            GuestProcess, GuestCommit, GenerateProof, VerifyProof, CompareSpecs,
            CompareRecompute, EndCase, HostPanic, GuestPanic, JoltGuestPanic,
            ToolFails, file
  <2>2. pc'[p] \in {"fill", "rom_setup", "load"} =>
            pc[p] \in {"fill", "rom_setup", "load"}
        BY <1>4
        DEF Step, Kill, Stop, Goto, LoadTestCases, SkipCase, StartCase, Finish,
            ReadCaseFiles, WriteStdin, BuildZiskGuest, CloseZiskInput, RomSetup,
            ReadZiskInput, DecodeZiskInput, GuestReadPreState, GuestReadInput,
            GuestProcess, GuestCommit, AfterGuest, GenerateProof, VerifyProof,
            CompareSpecs, CompareRecompute, EndCase, HostPanic, GuestPanic,
            JoltGuestPanic, ToolFails, TypeInv, TypeOK
  <2>3. \A q \in Proc \ {p} : pc'[q] = pc[q]
        BY StepIsLocal
  <2>4. (\E q \in Proc : pc'[q] \in {"fill", "rom_setup", "load"}) =>
            \E q \in Proc : pc[q] \in {"fill", "rom_setup", "load"}
        BY <2>2, <2>3
  <2>5. QED BY <1>1, <2>1, <2>4 DEF FileInv
<1>5. QED BY <1>2, <1>3, <1>4

\* A step of p leaves what the others have read alone.
LEMMA OthersLoad ==
    ASSUME TypeInv, NEW p \in Proc, Step(p) \/ Kill(p), NEW q \in Proc \ {p},
           LoadInv(q)
    PROVE  LoadInv(q)'
<1>1. pc'[q] = pc[q] /\ buffer'[q] = buffer[q]
      BY StepIsLocal
<1>2. \A b : Genuine(b)' <=> Genuine(b)
      BY StepIsLocal, GenuineStays
<1>3. QED BY <1>1, <1>2 DEF LoadInv

\* Each piece p reads is one that is in the file then.
LEMMA OwnLoad ==
    ASSUME TypeInv, FileInv, NEW p \in Proc, Step(p) \/ Kill(p), LoadInv(p)
    PROVE  LoadInv(p)'
<1>a. TypeOK /\ \A b : Genuine(b)' <=> Genuine(b)
      BY StepIsLocal, GenuineStays DEF TypeInv
<1>1. CASE ReadZiskInput(p)
  <2> DEFINE i == Len(buffer[p]) + 1
  <2>1. i \in 1 .. Parts /\ buffer[p] \in Seq(Piece) /\ pc[p] = "load"
        BY <1>1, <1>a, PartsAssumption DEF ReadZiskInput, TypeOK
  <2>2. Genuine(LoadedInput(p)[i])
        BY <1>1, <2>1 DEF ReadZiskInput, LoadedInput, FileInv
  <2>3. buffer'[p] = Append(buffer[p], LoadedInput(p)[i])
        BY <1>1, <1>a DEF ReadZiskInput, TypeOK
  <2>4. \A k \in 1 .. Len(buffer[p]) : Genuine(buffer[p][k])
        BY <2>1 DEF LoadInv
  <2>5. \A k \in 1 .. Len(buffer'[p]) :
            \/ buffer'[p][k] = LoadedInput(p)[i]
            \/ k \in 1 .. Len(buffer[p]) /\ buffer'[p][k] = buffer[p][k]
        BY <2>1, <2>3
  <2>6. \A k \in 1 .. Len(buffer'[p]) : Genuine(buffer'[p][k])
        BY <2>2, <2>4, <2>5
  <2>7. QED BY <1>a, <2>6 DEF LoadInv
<1>2. CASE ~ReadZiskInput(p)
  <2>1. pc'[p] = "load" => buffer'[p] = <<>>
        BY <1>2, <1>a
        DEF Step, Kill, Stop, Goto, LoadTestCases, SkipCase, StartCase, Finish,
            ReadCaseFiles, WriteStdin, BuildZiskGuest, TruncateZiskInput,
            FillZiskInput, CloseZiskInput, RomSetup, DecodeZiskInput,
            GuestReadPreState, GuestReadInput, GuestProcess, GuestCommit,
            AfterGuest, GenerateProof, VerifyProof, CompareSpecs,
            CompareRecompute, EndCase, HostPanic, GuestPanic, JoltGuestPanic,
            ToolFails, TypeOK, TypeInv, ChannelInv, file
  <2>2. QED BY <2>1 DEF LoadInv
<1>3. QED BY <1>1, <1>2

LEMMA OriginInvariance == Spec => []Origins
<1>1. Init => Origins
      BY DEF Init, Origins, FileInv, LoadInv
<1>2. TypeInv /\ SoundInv /\ SettledInvs /\ Origins /\ [Next]_vars => Origins'
  <2> SUFFICES ASSUME TypeInv, SoundInv, SettledInvs, Origins, [Next]_vars
               PROVE  Origins'
      OBVIOUS
  <2>1. CASE Next
        BY <2>1, StepFile, OthersLoad, OwnLoad DEF Next, Origins
  <2>2. CASE UNCHANGED vars
    <3>1. \A b : Genuine(b)' <=> Genuine(b)
          BY <2>2, GenuineStays DEF vars
    <3>2. QED BY <2>2, <3>1 DEF vars, Origins, FileInv, LoadInv
  <2>3. QED BY <2>1, <2>2
<1>3. QED BY <1>1, <1>2, TypeInvariance, SoundInvariance, SettledInvariance, PTL
          DEF Spec

\* However ZISK processes overlap, no piece an earlier make left in the file
\* reaches a guest: everyone truncates the file before loading it, and only whole
\* inputs of these processes' cases are ever written into it, piece by piece.
THEOREM LoadsNothingLeft == Spec => []NothingLeftIsLoaded
<1>1. Origins => NothingLeftIsLoaded
      BY DEF Origins, LoadInv, Genuine, NothingLeftIsLoaded
<1>2. QED BY <1>1, OriginInvariance, PTL
================================================================================
