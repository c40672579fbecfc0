---------------------------- MODULE Download_proofs ----------------------------
(***************************************************************************)
(* Proofs about Download, for any releases, archives and forks.            *)
(***************************************************************************)
EXTENDS Download, TLAPS

\* What the script knows at each of its lines: of the directory it tests and
\* makes, and of the archive curl stored.
ScriptInv ==
    /\ script \in {"url", "curl", "receive", "test", "mkdir"} => ~directory
    /\ script \in {"tar", "fill", "rm", "skipped", "complete"} => directory
    /\ script = "receive" =>
           archive \notin {Absent, Page} /\ archive.release = url
    /\ script \in {"mkdir", "tar", "fill", "rm"} => archive # Absent
    /\ ~directory => tree = Empty

\* What tar has written so far; and, once it is gone, a whole release unless it
\* was cut short.
TreeInv ==
    /\ script = "tar" /\ archive = Page => tree = Empty
    /\ script = "tar" /\ archive # Page =>
           /\ written <= archive.size
           /\ tree = Unpacked(archive.release, written)
    /\ script = "fill" =>
           /\ archive # Page /\ written < archive.size
           /\ tree = [Unpacked(archive.release, written) EXCEPT
                         ![NextMember] = Torn]
    /\ script \notin {"tar", "fill"} /\ directory /\ ~cut =>
           \E r \in Release : tree = Unpacked(r, Size(r))

\* Without -j make starts a benchmark after the script, so that what it listed
\* stays as it was.
BenchInv ==
    /\ script = "off" => bench = "none"
    /\ bench = "running" /\ ~jobs =>
           /\ ScriptEnded /\ directory
           /\ \E fork \in Fork : listed = <<fork, Listing(fork)>>

Inv == TypeOK /\ ScriptInv /\ TreeInv /\ TreeIsOfOneRelease /\ BenchInv

-----------------------------------------------------------------------------
(* Trees *)

\* Extracting nothing leaves nothing.
LEMMA UnpackedNone ==
    ASSUME NEW r PROVE Unpacked(r, 0) = Empty
BY DEF Unpacked, Empty

\* One more member, whole, is one more of the release.
LEMMA UnpackedNext ==
    ASSUME NEW r \in Release, NEW n \in Nat, n < Size(r)
    PROVE  /\ Contents[r][n + 1] \in Member
           /\ [[Unpacked(r, n) EXCEPT ![Contents[r][n + 1]] = Torn]
                  EXCEPT ![Contents[r][n + 1]] = r] = Unpacked(r, n + 1)
<1> DEFINE m == Contents[r][n + 1]
<1>1. Contents[r] \in Seq(Member)
      BY ContentsAssumption
<1>2. m \in Member
      BY <1>1 DEF Size
<1>3. \A i : i \in 1 .. n + 1 <=> i \in 1 .. n \/ i = n + 1
      OBVIOUS
<1> HIDE DEF m
<1>4. \A x \in Member : (\E i \in 1 .. n + 1 : Contents[r][i] = x)
          <=> (\E i \in 1 .. n : Contents[r][i] = x) \/ x = m
      BY <1>3 DEF m
<1>5. [[Unpacked(r, n) EXCEPT ![m] = Torn] EXCEPT ![m] = r]
          = Unpacked(r, n + 1)
      BY <1>2, <1>4 DEF Unpacked
<1>6. QED BY <1>2, <1>5 DEF m

\* A tree holds releases, and pieces.
LEMMA UnpackedTyped ==
    ASSUME NEW r \in Release, NEW n
    PROVE  Unpacked(r, n) \in [Member -> Release \cup {Absent, Torn}]
BY DEF Unpacked

\* Over a whole release a benchmark lists the cases of its fork.
LEMMA ListingOfWhole ==
    ASSUME NEW r \in Release, tree = Unpacked(r, Size(r)), NEW fork
    PROVE  Listing(fork) = CasesOf(r, fork)
<1>1. \A x \in Member : tree[x] # Absent
          <=> x \in {Contents[r][i] : i \in 1 .. Size(r)}
      BY MarkersAssumption DEF Unpacked
<1>2. {x \in Member : x.fork = fork /\ tree[x] # Absent}
          = {Contents[r][i] : i \in 1 .. Size(r)} \cap
                {x \in Member : x.fork = fork}
      BY <1>1
<1>3. QED BY <1>2 DEF Listing, CasesOf

\* Sizes are numbers.
LEMMA SizeTyped == ASSUME NEW r \in Release PROVE Size(r) \in Nat
<1>1. Contents[r] \in Seq(Member)
      BY ContentsAssumption
<1>2. QED BY <1>1 DEF Size

\* What the archive holds, when it holds any of a release.
LEMMA ArchiveTyped ==
    ASSUME TypeOK, archive \notin {Absent, Page}
    PROVE  /\ archive \in [release : Release, size : Nat]
           /\ archive.release \in Release /\ archive.size \in Nat
           /\ archive.size <= Size(archive.release)
           /\ Size(archive.release) \in Nat
BY SizeTyped DEF TypeOK

-----------------------------------------------------------------------------
(* Type correctness *)

LEMMA StepTyped ==
    ASSUME Inv, Next
    PROVE  TypeOK'
<1> USE DEF Inv
<1>1. CASE StartBenchmark
  <2>1. PICK fork \in Fork : listed' = <<fork, Listing(fork)>>
        BY <1>1 DEF StartBenchmark
  <2>2. Listing(fork) \in SUBSET {m.case : m \in Member}
        BY DEF Listing
  <2>3. listed' \in Fork \X SUBSET {m.case : m \in Member}
        BY <2>1, <2>2
  <2>4. QED BY <1>1, <2>3 DEF StartBenchmark, TypeOK, disk, fate
<1>2. CASE OpenArchive
  <2>1. Partial(url, 0) \in [release : Release, size : Nat]
        BY DEF Partial, TypeOK
  <2>2. archive'.size = 0 /\ archive'.release = url
        BY <1>2 DEF OpenArchive, Partial
  <2>3. archive'.size <= Size(archive'.release)
        BY <2>2, SizeTyped DEF TypeOK
  <2>4. QED BY <1>2, <2>1, <2>3
            DEF OpenArchive, TypeOK, disk, fate, make, Goto
<1>3. CASE Receive
  <2>1. archive \notin {Absent, Page} /\ archive.release = url
        BY <1>3 DEF Receive, ScriptInv
  <2>2. archive' = Partial(url, archive.size + 1)
        BY <1>3 DEF Receive
  <2>3. archive' \in [release : Release, size : Nat]
        BY <2>1, <2>2, ArchiveTyped DEF Partial, TypeOK
  <2>4. archive'.size <= Size(archive'.release)
    <3>1. archive'.size = archive.size + 1 /\ archive'.release = url
          BY <2>2 DEF Partial
    <3>2. QED BY <1>3, <2>1, <3>1, ArchiveTyped DEF Receive
  <2>5. QED BY <1>3, <2>3, <2>4 DEF Receive, TypeOK, disk, fate, make
<1>4. CASE CreateMember \/ FillMember
  <2>1. archive \notin {Absent, Page} /\ written < archive.size
        BY <1>4 DEF CreateMember, FillMember, HasMore, ScriptInv, TreeInv
  <2>2. archive.release \in Release
        BY <2>1, ArchiveTyped
  <2>3. tree' \in [Member -> Release \cup {Absent, Torn}] /\ written' \in Nat
        BY <1>4, <2>2 DEF CreateMember, FillMember, TypeOK
  <2>4. QED BY <1>4, <2>3
            DEF CreateMember, FillMember, TypeOK, fate, make, Goto
<1>5. CASE EndTar
  <2>1. tree' \in [Member -> Release \cup {Absent, Torn}]
        BY <1>5 DEF EndTar, TypeOK
  <2>2. cut' \in BOOLEAN
        BY <1>5 DEF EndTar
  <2>3. QED BY <1>5, <2>1, <2>2 DEF EndTar, TypeOK, fate, make, Goto
<1>6. CASE AskForDownload \/ AskForBenchmark \/ NoRuleForDirectory \/ EndMake
      BY <1>6 DEF AskForDownload, AskForBenchmark, NoRuleForDirectory, EndMake,
                  TypeOK, disk, fate, Goto
<1>7. CASE \/ CheckDirectory \/ GetUrl \/ EndReceive \/ TestArchive
           \/ MakeDirectory \/ RemoveArchive \/ NoUrl \/ NoAnswer \/ ErrorPage
  <2>1. CASE CheckDirectory \/ GetUrl \/ NoUrl
        BY <2>1 DEF CheckDirectory, GetUrl, NoUrl, TypeOK, disk, fate, make,
                    Goto
  <2>2. CASE EndReceive \/ TestArchive \/ NoAnswer
        BY <2>2 DEF EndReceive, TestArchive, NoAnswer, TypeOK, disk, fate, make,
                    Goto
  <2>3. CASE MakeDirectory
        BY <2>3 DEF MakeDirectory, TypeOK, fate, make, Goto
  <2>4. CASE RemoveArchive \/ ErrorPage
    <3>1. archive' \in {Absent, Page}
          BY <2>4 DEF RemoveArchive, ErrorPage
    <3>2. QED BY <2>4, <3>1
              DEF RemoveArchive, ErrorPage, TypeOK, disk, fate, make, Goto
  <2>5. QED BY <1>7, <2>1, <2>2, <2>3, <2>4
<1>8. CASE Clean
      BY <1>8 DEF Clean, TypeOK, Empty, make, fate
<1>9. CASE Kill \/ Publish \/ BecomeCalm
      BY <1>9 DEF Kill, Publish, BecomeCalm, TypeOK, disk, fate, make, Goto
<1>10. QED
      BY <1>1, <1>2, <1>3, <1>4, <1>5, <1>6, <1>7, <1>8, <1>9
      DEF Next, Progress

-----------------------------------------------------------------------------
(* The script *)

LEMMA StepScript ==
    ASSUME Inv, Next
    PROVE  ScriptInv'
<1> USE DEF Inv
<1>1. CASE \/ AskForDownload \/ AskForBenchmark \/ StartBenchmark
           \/ NoRuleForDirectory \/ EndMake \/ Clean
      BY <1>1 DEF AskForDownload, AskForBenchmark, StartBenchmark,
                  NoRuleForDirectory, EndMake, ScriptEnded, Clean, ScriptInv,
                  disk, Goto
<1>2. CASE CheckDirectory \/ GetUrl \/ NoUrl \/ EndReceive \/ NoAnswer
           \/ TestArchive
  <2>1. CASE CheckDirectory \/ GetUrl \/ NoUrl
        BY <2>1 DEF CheckDirectory, GetUrl, NoUrl, ScriptInv, TypeOK, disk, Goto
  <2>2. CASE EndReceive \/ NoAnswer \/ TestArchive
        BY <2>2 DEF EndReceive, NoAnswer, TestArchive, ScriptInv, disk, Goto
  <2>3. QED BY <1>2, <2>1, <2>2
<1>3. CASE OpenArchive
  <2>1. Partial(url, 0) \in [release : Release, size : Nat]
        BY DEF Partial, TypeOK
  <2>2. archive' \notin {Absent, Page} /\ archive'.release = url
        BY <1>3, <2>1, MarkersAssumption DEF OpenArchive, Partial
  <2>3. QED BY <1>3, <2>2 DEF OpenArchive, ScriptInv, disk, Goto
<1>4. CASE Receive
  <2>1. archive \notin {Absent, Page}
        BY <1>4 DEF Receive, ScriptInv
  <2>2. Partial(url, archive.size + 1) \in [release : Release, size : Nat]
        BY <2>1, ArchiveTyped DEF Partial, TypeOK
  <2>3. archive' \notin {Absent, Page} /\ archive'.release = url
        BY <1>4, <2>2, MarkersAssumption DEF Receive, Partial
  <2>4. QED BY <1>4, <2>3 DEF Receive, ScriptInv, disk
<1>5. CASE ErrorPage \/ MakeDirectory \/ RemoveArchive
      BY <1>5 DEF ErrorPage, MakeDirectory, RemoveArchive, ScriptInv, disk, Goto
<1>6. CASE CreateMember \/ FillMember \/ EndTar
      BY <1>6 DEF CreateMember, FillMember, EndTar, ScriptInv, Goto
<1>7. CASE Kill \/ Publish \/ BecomeCalm
      BY <1>7 DEF Kill, Publish, BecomeCalm, ScriptInv, disk, Goto
<1>8. QED BY <1>1, <1>2, <1>3, <1>4, <1>5, <1>6, <1>7 DEF Next, Progress

-----------------------------------------------------------------------------
(* The tree *)

\* Every step of tar leaves a prefix of the release in the archive, and the last
\* one a whole release or the note that it is not.
LEMMA StepTree ==
    ASSUME Inv, Next
    PROVE  TreeInv' /\ TreeIsOfOneRelease'
<1> USE DEF Inv
<1>1. CASE \/ AskForDownload \/ AskForBenchmark \/ StartBenchmark
           \/ NoRuleForDirectory \/ EndMake \/ CheckDirectory \/ GetUrl
           \/ OpenArchive \/ Receive \/ EndReceive \/ TestArchive \/ NoUrl
           \/ NoAnswer \/ ErrorPage \/ RemoveArchive
  <2>1. UNCHANGED <<tree, directory, cut>>
        BY <1>1 DEF AskForDownload, AskForBenchmark, StartBenchmark,
           NoRuleForDirectory, EndMake, CheckDirectory, GetUrl, OpenArchive,
           Receive, EndReceive, TestArchive, NoUrl, NoAnswer, ErrorPage,
           RemoveArchive, disk
  <2>2. \/ script \notin {"tar", "fill"} /\ script' \notin {"tar", "fill"}
        \/ UNCHANGED <<script, archive, written>>
        BY <1>1 DEF AskForDownload, AskForBenchmark, StartBenchmark,
           NoRuleForDirectory, EndMake, CheckDirectory, GetUrl, OpenArchive,
           Receive, EndReceive, TestArchive, NoUrl, NoAnswer, ErrorPage,
           RemoveArchive, Goto, ScriptEnded
  <2>3. TreeInv'
        BY <2>1, <2>2 DEF TreeInv, NextMember
  <2>4. TreeIsOfOneRelease'
        BY <2>1 DEF TreeIsOfOneRelease
  <2>5. QED BY <2>3, <2>4
<1>2. CASE MakeDirectory
  <2>1. tree' = Empty /\ script' = "tar" /\ written' = 0 /\ archive' = archive
        BY <1>2 DEF MakeDirectory, ScriptInv, Goto
  <2>2. archive # Page => 0 <= archive.size
        BY <1>2, ArchiveTyped DEF MakeDirectory, ScriptInv
  <2>3. QED BY <2>1, <2>2, <1>2, UnpackedNone
            DEF TreeInv, MakeDirectory, TreeIsOfOneRelease
<1>3. CASE CreateMember
  <2>1. archive \notin {Absent, Page} /\ written < archive.size
        BY <1>3 DEF CreateMember, HasMore, ScriptInv
  <2>2. tree = Unpacked(archive.release, written)
        BY <1>3, <2>1 DEF CreateMember, TreeInv
  <2>3. /\ script' = "fill" /\ archive' = archive /\ written' = written
        /\ tree' = [Unpacked(archive.release, written) EXCEPT
                       ![NextMember] = Torn]
        BY <1>3, <2>2 DEF CreateMember, Goto
  <2>4. TreeInv'
        BY <2>1, <2>3 DEF TreeInv, NextMember
  <2>5. PrefixOf(archive.release, tree')
    <3>1. written \in 0 .. Size(archive.release)
          /\ written < Size(archive.release)
          BY <2>1, ArchiveTyped DEF TypeOK
    <3>2. QED BY <2>3, <3>1 DEF PrefixOf, NextMember
  <2>6. QED BY <2>1, <2>4, <2>5, ArchiveTyped DEF TreeIsOfOneRelease
<1>4. CASE FillMember
  <2>1. archive \notin {Absent, Page} /\ written < archive.size
        BY <1>4 DEF FillMember, ScriptInv, TreeInv
  <2>2. tree = [Unpacked(archive.release, written) EXCEPT
                   ![NextMember] = Torn]
        BY <1>4 DEF FillMember, TreeInv
  <2>3. /\ archive.release \in Release /\ archive.size \in Nat
        /\ written \in Nat /\ written < Size(archive.release)
        BY <2>1, ArchiveTyped DEF TypeOK
  <2>4. tree' = Unpacked(archive.release, written + 1)
        BY <1>4, <2>2, <2>3, UnpackedNext DEF FillMember, NextMember
  <2>5. script' = "tar" /\ archive' = archive /\ written' = written + 1
        BY <1>4 DEF FillMember, Goto
  <2>6. TreeInv'
        BY <2>1, <2>3, <2>4, <2>5 DEF TreeInv
  <2>7. PrefixOf(archive.release, tree')
    <3>1. written + 1 \in 0 .. Size(archive.release)
          BY <2>3, SizeTyped
    <3>2. QED BY <2>4, <3>1 DEF PrefixOf
  <2>8. QED BY <2>3, <2>6, <2>7 DEF TreeIsOfOneRelease
<1>5. CASE EndTar
  <2>1. script' = "rm" /\ directory' = directory
        BY <1>5 DEF EndTar, Goto
  <2>2. CASE archive = Page
    <3>1. tree' = tree /\ cut'
          BY <1>5, <2>2 DEF EndTar
    <3>2. QED BY <2>1, <3>1 DEF TreeInv, TreeIsOfOneRelease
  <2>3. CASE archive # Page
    <3> DEFINE r == archive.release
    <3>1. archive # Absent
          BY <1>5 DEF EndTar, ScriptInv
    <3>2. /\ archive \in [release : Release, size : Nat]
          /\ r \in Release /\ Size(r) \in Nat /\ archive.size <= Size(r)
          BY <2>3, <3>1, ArchiveTyped
    <3>3. written = archive.size /\ tree = Unpacked(r, written)
      <4>1. written <= archive.size /\ ~(written < archive.size)
            BY <1>5, <2>3 DEF EndTar, HasMore, TreeInv
      <4>2. QED BY <1>5, <2>3, <3>2, <4>1 DEF EndTar, TreeInv, TypeOK
    <3>4. cut' <=> archive # Partial(r, Size(r))
          BY <1>5, <2>3 DEF EndTar
    <3>5. CASE ~cut'
      <4>1. written = Size(r)
            BY <3>3, <3>4, <3>5 DEF Partial
      <4>2. tree' = Unpacked(r, Size(r))
            BY <1>5, <3>3, <3>5, <4>1 DEF EndTar
      <4>3. TreeInv'
            BY <2>1, <3>2, <4>2 DEF TreeInv
      <4>4. PrefixOf(r, tree')
            BY <3>2, <4>2 DEF PrefixOf
      <4>5. QED BY <3>2, <4>3, <4>4 DEF TreeIsOfOneRelease
    <3>6. CASE cut'
      <4>1. archive.size # Size(r)
        <5>1. archive = [release |-> r, size |-> archive.size]
              BY <3>2
        <5>2. QED BY <3>4, <3>6, <5>1 DEF Partial
      <4>2. written < Size(r) /\ written \in 0 .. Size(r)
            BY <3>2, <3>3, <4>1
      <4>3. tree' \in {Unpacked(r, written),
                       [Unpacked(r, written) EXCEPT
                           ![Contents[r][written + 1]] = Torn]}
            BY <1>5, <3>3 DEF EndTar, NextMember
      <4>4. PrefixOf(r, tree')
            BY <4>2, <4>3 DEF PrefixOf
      <4>5. TreeInv'
            BY <2>1, <3>6 DEF TreeInv
      <4>6. QED BY <3>2, <4>4, <4>5 DEF TreeIsOfOneRelease
    <3>7. QED BY <3>5, <3>6
  <2>4. QED BY <2>2, <2>3
<1>6. CASE Clean
  <2>1. tree' = Empty /\ ~directory' /\ script' \notin {"tar", "fill"}
        BY <1>6 DEF Clean
  <2>2. PrefixOf(latest, tree') /\ latest \in Release
        BY <2>1, UnpackedNone, SizeTyped DEF PrefixOf, TypeOK
  <2>3. QED BY <2>1, <2>2 DEF TreeInv, TreeIsOfOneRelease
<1>7. CASE Kill
      BY <1>7 DEF Kill, disk, Goto, TreeInv, TreeIsOfOneRelease
<1>8. CASE Publish \/ BecomeCalm
      BY <1>8 DEF Publish, BecomeCalm, disk, TreeInv, TreeIsOfOneRelease,
                  NextMember
<1>9. QED BY <1>1, <1>2, <1>3, <1>4, <1>5, <1>6, <1>7, <1>8 DEF Next, Progress

-----------------------------------------------------------------------------
(* The benchmark *)

LEMMA StepBench ==
    ASSUME Inv, Next
    PROVE  BenchInv'
<1> USE DEF Inv
<1>1. CASE StartBenchmark
      BY <1>1 DEF StartBenchmark, BenchmarkDue, BenchInv, ScriptEnded, Listing,
                  disk
<1>2. CASE AskForDownload \/ AskForBenchmark \/ NoRuleForDirectory \/ EndMake
           \/ Kill
      BY <1>2 DEF AskForDownload, AskForBenchmark, NoRuleForDirectory,
                  BenchmarkDue, EndMake, Kill, BenchInv, Goto
<1>3. CASE Clean
      BY <1>3 DEF Clean, BenchInv, make
<1>4. CASE Publish \/ BecomeCalm
      BY <1>4 DEF Publish, BecomeCalm, BenchInv, ScriptEnded, Listing, disk,
                  make
<1>5. CASE \/ CheckDirectory \/ GetUrl \/ OpenArchive \/ Receive \/ EndReceive
           \/ TestArchive \/ MakeDirectory \/ CreateMember \/ FillMember
           \/ EndTar \/ RemoveArchive \/ NoUrl \/ NoAnswer \/ ErrorPage
  <2>1. ~ScriptEnded /\ script' # "off" /\ UNCHANGED make
        BY <1>5 DEF CheckDirectory, GetUrl, OpenArchive, Receive, EndReceive,
           TestArchive, MakeDirectory, CreateMember, FillMember, EndTar,
           RemoveArchive, NoUrl, NoAnswer, ErrorPage, ScriptEnded, Goto
  <2>2. QED BY <2>1 DEF BenchInv, make
<1>6. QED BY <1>1, <1>2, <1>3, <1>4, <1>5 DEF Next, Progress

-----------------------------------------------------------------------------
(* The theorems *)

LEMMA Invariance == Spec => []Inv
<1>1. Init => Inv
  <2> SUFFICES ASSUME Init PROVE Inv
      OBVIOUS
  <2>1. TypeOK
        BY DEF Init, TypeOK, Empty
  <2>2. ScriptInv /\ TreeInv /\ BenchInv
        BY DEF Init, ScriptInv, TreeInv, BenchInv
  <2>3. PrefixOf(latest, tree)
        BY UnpackedNone, SizeTyped DEF Init, PrefixOf
  <2>4. QED BY <2>1, <2>2, <2>3 DEF Inv, TreeIsOfOneRelease, TypeOK
<1>2. Inv /\ [Next]_vars => Inv'
  <2> SUFFICES ASSUME Inv, [Next]_vars PROVE Inv'
      OBVIOUS
  <2>1. CASE Next
        BY <2>1, StepTyped, StepScript, StepTree, StepBench DEF Inv
  <2>2. CASE UNCHANGED vars
        BY <2>2 DEF vars, Inv, TypeOK, ScriptInv, TreeInv, NextMember,
                    TreeIsOfOneRelease, BenchInv, ScriptEnded, Listing
  <2>3. QED BY <2>1, <2>2
<1>3. QED BY <1>1, <1>2, PTL DEF Spec

\* The archive is never longer than its release, the tree holds only files of
\* releases and pieces.
THEOREM DownloadTypes == Spec => []TypeOK
<1>1. Inv => TypeOK
      BY DEF Inv
<1>2. QED BY <1>1, Invariance, PTL

\* However often the script is interrupted, repeated or overtaken by a release,
\* mainnet holds a prefix of one release.
THEOREM OneRelease == Spec => []TreeIsOfOneRelease
<1>1. Inv => TreeIsOfOneRelease
      BY DEF Inv
<1>2. QED BY <1>1, Invariance, PTL

\* Without -j, a benchmark over a tree that was not cut short lists every case.
THEOREM WholeTree == Spec => []BenchmarkSeesWholeTree
<1>1. Inv => BenchmarkSeesWholeTree
  <2> SUFFICES ASSUME Inv, bench = "running", ~jobs, ~cut
               PROVE  \E r \in Release :
                          /\ tree = Unpacked(r, Size(r))
                          /\ listed[2] = CasesOf(r, listed[1])
      BY DEF BenchmarkSeesWholeTree
  <2>1. /\ ScriptEnded /\ directory
        /\ \E fork \in Fork : listed = <<fork, Listing(fork)>>
        BY DEF Inv, BenchInv
  <2>2. PICK r \in Release : tree = Unpacked(r, Size(r))
        BY <2>1 DEF Inv, TreeInv, ScriptEnded
  <2>3. PICK fork \in Fork : listed = <<fork, Listing(fork)>>
        BY <2>1
  <2>4. listed[1] = fork /\ listed[2] = CasesOf(r, fork)
        BY <2>2, <2>3, ListingOfWhole
  <2>5. QED BY <2>2, <2>4
<1>2. QED BY <1>1, Invariance, PTL
================================================================================
