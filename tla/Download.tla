-------------------------------- MODULE Download --------------------------------
(***************************************************************************)
(* host/subscripts/download_ef_data.sh, under the targets of the Makefile  *)
(* that start it, and what a benchmark then finds: load_test_cases.        *)
(*                                                                         *)
(* Someone runs make, over and over; the machine and the network fail at   *)
(* any moment.  make all asks for the download and for the benchmarks;     *)
(* a benchmark asks for the directory mainnet, for which there is no rule. *)
(* make block-all and its like ask for the benchmarks only.  With -j make  *)
(* looks for the directory while the script runs.                          *)
(***************************************************************************)
EXTENDS Integers, Sequences

CONSTANTS
    Release,    \* releases of consensus-spec-tests
    Member,     \* files in their archives: [fork, case, file]
    Contents,   \* Contents[r]: the members of r's archive, in order
    Fork,       \* forks a benchmark may be asked for
    Absent, Torn, Page

ASSUME ContentsAssumption == Contents \in [Release -> Seq(Member)]

ASSUME MarkersAssumption ==
    /\ Absent \notin Release /\ Torn \notin Release /\ Absent # Torn
    /\ Page \notin [release : Release, size : Nat]
    /\ Absent \notin [release : Release, size : Nat]
    /\ Absent # Page

VARIABLES
    latest,     \* the release the API names now
    archive,    \* subscripts/mainnet.tar.gz
    directory,  \* whether host/mainnet exists
    tree,       \* tree[m]: what is in it at member m
    script,     \* what the script is about to do
    url,        \* DOWNLOAD_URL: of which release
    written,    \* members tar has written
    bench,      \* the benchmark: "none", "due", "running" or "refused"
    listed,     \* the fork it was asked for and the cases it listed
    jobs,       \* whether make was run with -j
    cut,        \* whether what is in mainnet was cut short
    calm        \* from now on nothing fails

vars == <<latest, archive, directory, tree, script, url, written, bench, listed,
          jobs, cut, calm>>

disk == <<directory, tree>>
make == <<bench, listed, jobs>>
fate == <<latest, calm>>

-----------------------------------------------------------------------------
(* Vocabulary *)

Size(r) == Len(Contents[r])

Partial(r, n) == [release |-> r, size |-> n]

Empty == [m \in Member |-> Absent]

\* What tar leaves of release r after n members.
Unpacked(r, n) ==
    [m \in Member |->
        IF \E i \in 1 .. n : Contents[r][i] = m THEN r ELSE Absent]

CasesOf(r, fork) ==
    {m.case : m \in {Contents[r][i] : i \in 1 .. Size(r)} \cap
                    {x \in Member : x.fork = fork}}

\* get_test_cases in the directory of the fork: none if there is no directory.
Listing(fork) ==
    {m.case : m \in {x \in Member : x.fork = fork /\ tree[x] # Absent}}

ScriptEnded == script \in {"unasked", "skipped", "complete"}

Goto(l) == script' = l

-----------------------------------------------------------------------------
Init ==
    /\ latest \in Release
    /\ archive = Absent
    /\ directory = FALSE
    /\ tree = Empty
    /\ script = "off"
    /\ url \in Release
    /\ written = 0
    /\ bench = "none"
    /\ listed = <<>>
    /\ jobs \in BOOLEAN
    /\ cut = FALSE
    /\ calm = FALSE

(* make *)

\* make download, or make all.
AskForDownload ==
    /\ script = "off"
    /\ Goto("check")
    /\ bench' \in {"none", "due"}
    /\ jobs' \in BOOLEAN
    /\ UNCHANGED <<archive, disk, url, written, listed, cut, fate>>

\* make block-all, epoch-all or one of the run targets.
AskForBenchmark ==
    /\ script = "off"
    /\ Goto("unasked")
    /\ bench' = "due"
    /\ jobs' \in BOOLEAN
    /\ UNCHANGED <<archive, disk, url, written, listed, cut, fate>>

\* When make comes to a benchmark: at once with -j, else after the script.
BenchmarkDue == bench = "due" /\ (jobs \/ ScriptEnded)

\* Mutant of StartBenchmark: the benchmarks do not ask for the directory.
StartBenchmarkAnyhow ==
    /\ BenchmarkDue
    /\ bench' = "running"
    /\ \E fork \in Fork : listed' = <<fork, Listing(fork)>>
    /\ UNCHANGED <<archive, disk, script, url, written, jobs, cut, fate>>

\* run-block-%: $(EXTRACT_DIR).  The process lists the directory of its fork.
StartBenchmark ==
    /\ BenchmarkDue /\ directory
    /\ bench' = "running"
    /\ \E fork \in Fork : listed' = <<fork, Listing(fork)>>
    /\ UNCHANGED <<archive, disk, script, url, written, jobs, cut, fate>>

\* No rule to make target 'mainnet': make waits for the script and stops.
NoRuleForDirectory ==
    /\ BenchmarkDue /\ ~directory
    /\ bench' = "refused"
    /\ UNCHANGED <<archive, disk, script, url, written, listed, jobs, cut,
                   fate>>

EndMake ==
    /\ \/ ScriptEnded /\ bench # "due"
       \/ script = "failed"
    /\ Goto("off")
    /\ bench' = "none"
    /\ listed' = <<>>
    /\ UNCHANGED <<archive, disk, url, written, jobs, cut, fate>>

\* rm -rf mainnet; the archive it removes is host/mainnet.tar.gz.
Clean ==
    /\ script = "off" /\ ~calm
    /\ directory' = FALSE
    /\ tree' = Empty
    /\ cut' = FALSE
    /\ UNCHANGED <<archive, script, url, written, make, fate>>

(* download_and_extract *)

\* Mutant of CheckDirectory: a directory without a whole file does not count.
CheckDirectoryFilled ==
    /\ script = "check"
    /\ Goto(IF \E m \in Member : tree[m] \in Release THEN "skipped" ELSE "url")
    /\ UNCHANGED <<archive, disk, url, written, make, cut, fate>>

CheckDirectory ==
    /\ script = "check"
    /\ Goto(IF directory THEN "skipped" ELSE "url")
    /\ UNCHANGED <<archive, disk, url, written, make, cut, fate>>

GetUrl ==
    /\ script = "url"
    /\ url' = latest
    /\ Goto("curl")
    /\ UNCHANGED <<archive, disk, written, make, cut, fate>>

\* curl or jq fails, or the release has no such asset: the URL is empty.
NoUrl ==
    /\ script = "url" /\ ~calm
    /\ Goto("failed")
    /\ UNCHANGED <<archive, disk, url, written, make, cut, fate>>

\* Mutant of OpenArchive: an archive that is there is not fetched again.
OpenArchiveOnce ==
    /\ script = "curl"
    /\ IF archive = Absent THEN archive' = Partial(url, 0) /\ Goto("receive")
                           ELSE UNCHANGED archive /\ Goto("test")
    /\ UNCHANGED <<disk, url, written, make, cut, fate>>

\* Mutant of OpenArchive: curl -C - resumes an interrupted transfer.
ResumeArchive ==
    /\ script = "curl"
    /\ archive' = Partial(url, IF archive \in {Absent, Page} THEN 0
                               ELSE archive.size)
    /\ Goto("receive")
    /\ UNCHANGED <<disk, url, written, make, cut, fate>>

\* The first byte arrives: curl -o truncates the file.
OpenArchive ==
    /\ script = "curl"
    /\ archive' = Partial(url, 0)
    /\ Goto("receive")
    /\ UNCHANGED <<disk, url, written, make, cut, fate>>

Receive ==
    /\ script = "receive" /\ archive.size < Size(url)
    /\ archive' = Partial(url, archive.size + 1)
    /\ UNCHANGED <<disk, script, url, written, make, cut, fate>>

\* curl returns, with everything or because the connection was lost.  Its status
\* is not looked at.
EndReceive ==
    /\ script = "receive"
    /\ archive.size = Size(url) \/ ~calm
    /\ Goto("test")
    /\ UNCHANGED <<archive, disk, url, written, make, cut, fate>>

\* No connection: whatever is there stays there.
NoAnswer ==
    /\ script = "curl" /\ ~calm
    /\ Goto("test")
    /\ UNCHANGED <<archive, disk, url, written, make, cut, fate>>

\* Without --fail the page that reports an error is stored.
ErrorPage ==
    /\ script = "curl" /\ ~calm
    /\ archive' = Page
    /\ Goto("test")
    /\ UNCHANGED <<disk, url, written, make, cut, fate>>

TestArchive ==
    /\ script = "test"
    /\ Goto(IF archive = Absent THEN "failed" ELSE "mkdir")
    /\ UNCHANGED <<archive, disk, url, written, make, cut, fate>>

MakeDirectory ==
    /\ script = "mkdir"
    /\ directory' = TRUE
    /\ written' = 0
    /\ Goto("tar")
    /\ UNCHANGED <<archive, tree, url, make, cut, fate>>

HasMore == archive # Page /\ written < archive.size

NextMember == Contents[archive.release][written + 1]

\* tar creates a file and then fills it.
CreateMember ==
    /\ script = "tar" /\ HasMore
    /\ tree' = [tree EXCEPT ![NextMember] = Torn]
    /\ Goto("fill")
    /\ UNCHANGED <<archive, directory, url, written, make, cut, fate>>

FillMember ==
    /\ script = "fill"
    /\ tree' = [tree EXCEPT ![NextMember] = archive.release]
    /\ written' = written + 1
    /\ Goto("tar")
    /\ UNCHANGED <<archive, directory, url, make, cut, fate>>

\* The end of the archive, wherever it is: the end of a truncated one may come
\* inside a member.  tar's status is not looked at.
EndTar ==
    /\ script = "tar" /\ ~HasMore
    /\ cut' = (archive = Page \/ archive # Partial(archive.release,
                                                   Size(archive.release)))
    /\ tree' \in {tree} \cup
           (IF cut' /\ archive # Page
            THEN {[tree EXCEPT ![NextMember] = Torn]} ELSE {})
    /\ Goto("rm")
    /\ UNCHANGED <<archive, directory, url, written, make, fate>>

RemoveArchive ==
    /\ script = "rm"
    /\ archive' = Absent
    /\ Goto("complete")
    /\ UNCHANGED <<disk, url, written, make, cut, fate>>

(* The world around it *)

\* make and all it started are killed.
Kill ==
    /\ script # "off" /\ ~calm
    /\ Goto("off")
    /\ cut' = (cut \/ script \in {"tar", "fill"})
    /\ bench' = "none"
    /\ listed' = <<>>
    /\ UNCHANGED <<archive, disk, url, written, jobs, fate>>

Publish ==
    /\ ~calm
    /\ latest' \in Release
    /\ UNCHANGED <<archive, disk, script, url, written, make, cut, calm>>

BecomeCalm ==
    /\ ~calm
    /\ calm' = TRUE
    /\ UNCHANGED <<latest, archive, disk, script, url, written, make, cut>>

Progress ==
    \/ AskForDownload \/ AskForBenchmark \/ StartBenchmark
    \/ NoRuleForDirectory \/ EndMake
    \/ CheckDirectory \/ GetUrl \/ OpenArchive \/ Receive \/ EndReceive
    \/ TestArchive \/ MakeDirectory \/ CreateMember \/ FillMember \/ EndTar
    \/ RemoveArchive

Next ==
    \/ Progress
    \/ NoUrl \/ NoAnswer \/ ErrorPage \/ Clean \/ Kill \/ Publish \/ BecomeCalm

Spec == Init /\ [][Next]_vars

\* What runs is scheduled, and someone asks for the download again and again.
FairSpec == Spec /\ WF_vars(Progress) /\ SF_vars(AskForDownload)

-----------------------------------------------------------------------------
(* Properties *)

\* Type correctness; no archive is longer than its release.
TypeOK ==
    /\ latest \in Release /\ url \in Release
    /\ archive \in [release : Release, size : Nat] \cup {Absent, Page}
    /\ archive \notin {Absent, Page} => archive.size <= Size(archive.release)
    /\ directory \in BOOLEAN
    /\ tree \in [Member -> Release \cup {Absent, Torn}]
    /\ script \in {"off", "unasked", "check", "url", "curl", "receive", "test",
                   "mkdir", "tar", "fill", "rm", "skipped", "complete",
                   "failed"}
    /\ written \in Nat
    /\ bench \in {"none", "due", "running", "refused"}
    /\ listed \in {<<>>} \cup Fork \X SUBSET {m.case : m \in Member}
    /\ jobs \in BOOLEAN /\ cut \in BOOLEAN /\ calm \in BOOLEAN

\* t is what an extraction of r leaves that stops within the archive: the first
\* members, whole, and perhaps a piece of the next.
PrefixOf(r, t) ==
    \E n \in 0 .. Size(r) :
        \/ t = Unpacked(r, n)
        \/ /\ n < Size(r)
           /\ t = [Unpacked(r, n) EXCEPT ![Contents[r][n + 1]] = Torn]

\* Whatever was interrupted, lost or repeated, download_ef_data.sh never mixes
\* two releases and never leaves more than one file in pieces.
TreeIsOfOneRelease == \E r \in Release : PrefixOf(r, tree)

\* Without -j, a benchmark over a tree that was not cut short lists every case
\* its fork has in a release, with every file whole: make starts it neither into
\* an extraction nor without a tree, which would list as empty.
BenchmarkSeesWholeTree ==
    bench = "running" /\ ~jobs /\ ~cut =>
        \E r \in Release : /\ tree = Unpacked(r, Size(r))
                           /\ listed[2] = CasesOf(r, listed[1])

\* An interrupted fetch is repeated: once nothing fails any more, a tree that
\* was not begun becomes a whole one, whatever archive was left behind.
RetryRecovers ==
    (calm /\ script = "off" /\ ~directory)
        ~> (\E r \in Release : tree = Unpacked(r, Size(r)))

\* What the script says before it ends.  It looks at neither curl's status nor
\* tar's.
CompleteIsComplete ==
    script = "complete" => \E r \in Release : tree = Unpacked(r, Size(r))
================================================================================
