---------------------------- MODULE Pipeline_tables ----------------------------
(***************************************************************************)
(* What is in the files of Pipeline: proofs for any targets, backends,     *)
(* cases and number of runs.                                               *)
(*                                                                         *)
(* The invariant says of every file, whoever left it, that it is absent or *)
(* well made (FileInv), and of each recipe that is under way how far its   *)
(* own three files have got (RecipeInv).                                   *)
(***************************************************************************)
EXTENDS Pipeline_proofs, FiniteSetTheorems

\* Rows of one process: those of b and t, of one run, each case once.
Good(rows, b, t) ==
    /\ rows \in Seq(Row)
    /\ \A i \in DOMAIN rows : rows[i].backend = b /\ rows[i].target = t
    /\ \A i, j \in DOMAIN rows : rows[i].run = rows[j].run
    /\ \A i, j \in DOMAIN rows : rows[i].case = rows[j].case => i = j

GoodTable(lines, b, t) ==
    \E rows : Good(rows, b, t) /\ lines = Heading \o rows

\* The three files of b and t, in the files f.
Log(f, b, t)     == f[TeeFile(b, t)]
Summary(f, b, t) == f[SortFile(b, t)]
Table(f, b, t)   == f[SortedPlace(b, t)]

\* Whatever the history, a file is absent or well made.
FilesOf(f, b, t) ==
    /\ Log(f, b, t) # Absent => Good(Log(f, b, t), b, t)
    /\ Summary(f, b, t) # Absent => GoodTable(Summary(f, b, t), b, t)
    /\ Table(f, b, t) # Absent => GoodTable(Table(f, b, t), b, t)

FileInv == \A b \in Backend, t \in Target : FilesOf(files, b, t)

Labels == {"idle", "ready", "run", "complete", "parse", "sort", "tail", "rm",
           "done", "failed"}

\* The recipe has emptied its log, and the harness has ended.
Begun == {"run", "complete", "parse", "sort", "tail", "rm", "done"}
Ended == Begun \ {"run"}

CasesIn(log) == {log[i].case : i \in DOMAIN log}

\* How far the recipe of t has got, at label l, in run r with harness status e.
Progress(l, e, r, f, b, t) ==
    /\ l # "idle" => r > 0
    /\ l \in Begun =>
           /\ Log(f, b, t) # Absent
           /\ \A i \in DOMAIN Log(f, b, t) : Log(f, b, t)[i].run = r
    /\ l \in Ended =>
           \/ e = "failed"
           \/ CasesIn(Log(f, b, t)) = Case[t]
    /\ l = "parse" =>
           \E k \in 0 .. Len(Log(f, b, t)) :
               Summary(f, b, t) = Heading \o SubSeq(Log(f, b, t), 1, k)
    /\ l \in {"sort", "tail"} => Summary(f, b, t) = Heading \o Log(f, b, t)
    /\ l = "tail" => Table(f, b, t) = Heading
    /\ l = "rm" => Summary(f, b, t) # Absent
    /\ l = "done" => Summary(f, b, t) = Absent
    /\ l \in {"rm", "done"} =>
           \E rows \in Reorderings(Log(f, b, t)) :
               Table(f, b, t) = Heading \o rows

RecipeInv ==
    \A t \in Target : Progress(pc[t], exit[t], run, files, backend, t)

\* The variables but for the files.
ControlInv ==
    /\ backend \in Backend
    /\ jobs \in BOOLEAN
    /\ run \in 0 .. MaxRuns
    /\ pc \in [Target -> Labels]
    /\ exit \in [Target -> {"none", "ok", "failed"}]

Inv == ControlInv /\ FileInv /\ RecipeInv

-----------------------------------------------------------------------------
(* Files *)

LEMMA TeeApart ==
    ASSUME NEW b \in Backend, NEW c \in Backend, NEW t \in Target,
           NEW u \in Target, TeeFile(b, t) = TeeFile(c, u)
    PROVE  b = c /\ t = u
<1>1. b = <<b[1], b[2]>> /\ c = <<c[1], c[2]>>
      BY BackendAssumption
<1> DEFINE name(v, w, x) == <<"logs", v, w, x>>
<1>2. \A v, w, x, y, z, r : name(v, w, x) = name(y, z, r) =>
                               v = y /\ w = z /\ x = r
      OBVIOUS
<1>3. name(b[2], b[1], t) = name(c[2], c[1], u)
      BY DEF TeeFile
<1> HIDE DEF name
<1>4. b[2] = c[2] /\ b[1] = c[1] /\ t = u
      BY <1>2, <1>3
<1>5. QED BY <1>1, <1>4

LEMMA SortApart ==
    ASSUME NEW b \in Backend, NEW c \in Backend, NEW t \in Target,
           NEW u \in Target, SortFile(b, t) = SortFile(c, u)
    PROVE  b = c /\ t = u
<1>1. /\ b = <<b[1], b[2]>> /\ b[2] \in {"execute", "prove"}
      /\ c = <<c[1], c[2]>> /\ c[2] \in {"execute", "prove"}
      BY BackendAssumption
<1> DEFINE long(x, y)  == <<"summaries", "prove", "summary", x, y>>
           short(x, y) == <<"summaries", "summary", x, y>>
<1>2. \A x, y, z, w : long(x, y) # short(z, w)
      OBVIOUS
<1>3. \A x, y, z, w : long(x, y) = long(z, w) => x = z /\ y = w
      OBVIOUS
<1>4. \A x, y, z, w : short(x, y) = short(z, w) => x = z /\ y = w
      OBVIOUS
<1>5. /\ SortFile(b, t) = IF b[2] = "prove" THEN long(b[1], t)
                                            ELSE short(b[1], t)
      /\ SortFile(c, u) = IF c[2] = "prove" THEN long(c[1], u)
                                            ELSE short(c[1], u)
      BY DEF SortFile
<1> HIDE DEF long, short
<1>6. CASE b[2] = "prove" /\ c[2] = "prove"
  <2>1. long(b[1], t) = long(c[1], u)
        BY <1>5, <1>6
  <2>2. b[1] = c[1] /\ t = u
        BY <1>3, <2>1
  <2>3. QED BY <1>1, <1>6, <2>2
<1>7. CASE b[2] # "prove" /\ c[2] # "prove"
  <2>1. short(b[1], t) = short(c[1], u)
        BY <1>5, <1>7
  <2>2. b[1] = c[1] /\ t = u
        BY <1>4, <2>1
  <2>3. QED BY <1>1, <1>7, <2>2
<1>8. ~(b[2] = "prove" /\ c[2] # "prove")
      BY <1>2, <1>5
<1>9. ~(b[2] # "prove" /\ c[2] = "prove")
      BY <1>2, <1>5
<1>10. QED BY <1>6, <1>7, <1>8, <1>9

\* Logs, summaries and sorted tables are different files.
LEMMA KindsApart ==
    ASSUME NEW b \in Backend, NEW c \in Backend, NEW t \in Target,
           NEW u \in Target
    PROVE  /\ TeeFile(b, t) # SortFile(c, u)
           /\ TeeFile(b, t) # SortedPlace(c, u)
           /\ SortFile(b, t) # SortedPlace(c, u)
<1>1. TeeFile(b, t)[1] = "logs" /\ SortFile(c, u)[1] = "summaries"
      BY DEF TeeFile, SortFile
<1>2. QED BY <1>1, SortedIsNoOther

\* Each file of the development is one of three kinds.
LEMMA NamesAre ==
    /\ \A b \in Backend, t \in Target :
           /\ TeeFile(b, t) \in Names
           /\ SortFile(b, t) \in Names
           /\ SortedPlace(b, t) \in Names
    /\ \A n \in Names : \E b \in Backend, t \in Target :
           n \in {TeeFile(b, t), SortFile(b, t), SortedPlace(b, t)}
<1>1. ASSUME NEW b \in Backend, NEW t \in Target
      PROVE  NamesOf(b, t)
                 = {TeeFile(b, t), SortFile(b, t), SortedPlace(b, t)}
      BY NamesWrittenOut, SortedWrittenOut DEF NamesOf
<1>2. \A n : n \in Names <=> \E b \in Backend, t \in Target : n \in NamesOf(b, t)
      BY DEF Names
<1>3. QED BY <1>1, <1>2

\* The files of all others are what they were.
Beside(b, t) ==
    \A c \in Backend, u \in Target :
        c # b \/ u # t =>
            /\ Log(files', c, u) = Log(files, c, u)
            /\ Summary(files', c, u) = Summary(files, c, u)
            /\ Table(files', c, u) = Table(files, c, u)

LEMMA WriteOne ==
    ASSUME FilesInv, NEW name \in Names, NEW lines, Write(name, lines)
    PROVE  /\ DOMAIN files' = Names
           /\ files'[name] = lines
           /\ \A n \in Names : n # name => files'[n] = files[n]
BY DEF FilesInv, Write

LEMMA WriteLog ==
    ASSUME FilesInv, NEW b \in Backend, NEW t \in Target, NEW lines,
           Write(TeeFile(b, t), lines)
    PROVE  /\ DOMAIN files' = Names
           /\ Log(files', b, t) = lines
           /\ Summary(files', b, t) = Summary(files, b, t)
           /\ Table(files', b, t) = Table(files, b, t)
           /\ Beside(b, t)
<1>1. /\ DOMAIN files' = Names
      /\ files'[TeeFile(b, t)] = lines
      /\ \A n \in Names : n # TeeFile(b, t) => files'[n] = files[n]
      BY WriteOne, NamesAre
<1>2. ASSUME NEW c \in Backend, NEW u \in Target,
             NEW n \in {TeeFile(c, u), SortFile(c, u), SortedPlace(c, u)},
             n # TeeFile(b, t)
      PROVE  files'[n] = files[n]
      BY <1>1, <1>2, NamesAre
<1>3. ASSUME NEW c \in Backend, NEW u \in Target, c # b \/ u # t
      PROVE  TeeFile(b, t) \notin {TeeFile(c, u), SortFile(c, u),
                                    SortedPlace(c, u)}
      BY <1>3, TeeApart, KindsApart
<1>4. Beside(b, t)
      BY <1>2, <1>3 DEF Beside, Log, Summary, Table
<1>5. QED BY <1>1, <1>2, <1>4, KindsApart DEF Log, Summary, Table

LEMMA WriteSummary ==
    ASSUME FilesInv, NEW b \in Backend, NEW t \in Target, NEW lines,
           Write(SortFile(b, t), lines)
    PROVE  /\ DOMAIN files' = Names
           /\ Log(files', b, t) = Log(files, b, t)
           /\ Summary(files', b, t) = lines
           /\ Table(files', b, t) = Table(files, b, t)
           /\ Beside(b, t)
<1>1. /\ DOMAIN files' = Names
      /\ files'[SortFile(b, t)] = lines
      /\ \A n \in Names : n # SortFile(b, t) => files'[n] = files[n]
      BY WriteOne, NamesAre
<1>2. ASSUME NEW c \in Backend, NEW u \in Target,
             NEW n \in {TeeFile(c, u), SortFile(c, u), SortedPlace(c, u)},
             n # SortFile(b, t)
      PROVE  files'[n] = files[n]
      BY <1>1, <1>2, NamesAre
<1>3. ASSUME NEW c \in Backend, NEW u \in Target, c # b \/ u # t
      PROVE  SortFile(b, t) \notin {TeeFile(c, u), SortFile(c, u),
                                    SortedPlace(c, u)}
      BY <1>3, SortApart, KindsApart
<1>4. Beside(b, t)
      BY <1>2, <1>3 DEF Beside, Log, Summary, Table
<1>5. QED BY <1>1, <1>2, <1>4, KindsApart DEF Log, Summary, Table

LEMMA WriteTable ==
    ASSUME FilesInv, NEW b \in Backend, NEW t \in Target, NEW lines,
           Write(SortedPlace(b, t), lines)
    PROVE  /\ DOMAIN files' = Names
           /\ Log(files', b, t) = Log(files, b, t)
           /\ Summary(files', b, t) = Summary(files, b, t)
           /\ Table(files', b, t) = lines
           /\ Beside(b, t)
<1>1. /\ DOMAIN files' = Names
      /\ files'[SortedPlace(b, t)] = lines
      /\ \A n \in Names : n # SortedPlace(b, t) => files'[n] = files[n]
      BY WriteOne, NamesAre
<1>2. ASSUME NEW c \in Backend, NEW u \in Target,
             NEW n \in {TeeFile(c, u), SortFile(c, u), SortedPlace(c, u)},
             n # SortedPlace(b, t)
      PROVE  files'[n] = files[n]
      BY <1>1, <1>2, NamesAre
<1>3. ASSUME NEW c \in Backend, NEW u \in Target, c # b \/ u # t
      PROVE  SortedPlace(b, t) \notin {TeeFile(c, u), SortFile(c, u),
                                    SortedPlace(c, u)}
      BY <1>3, SortedApart, KindsApart
<1>4. Beside(b, t)
      BY <1>2, <1>3 DEF Beside, Log, Summary, Table
<1>5. QED BY <1>1, <1>2, <1>4, KindsApart DEF Log, Summary, Table

-----------------------------------------------------------------------------
(* Lines *)

LEMMA HeadingIs ==
    /\ Heading \in Seq(Lines) /\ Len(Heading) = 2 /\ DOMAIN Heading = 1 .. 2
    /\ \A i \in 1 .. 2 : Heading[i] \notin Row
    /\ \A s \in Seq(Row) : s \in Seq(Lines)
<1>1. Len(Heading) = 2 /\ DOMAIN Heading = 1 .. 2
      BY DEF Heading
<1>2. Heading \in Seq(Range(Heading))
      BY DEF Heading, Range
<1>3. ASSUME NEW s \in Seq(Row) PROVE s \in Seq(Lines)
      BY <1>3, SeqMonotonic DEF Lines
<1>4. \A i \in 1 .. 2 : DOMAIN Heading[i] = {"heading"}
      BY DEF Heading
<1>5. \A x \in Row : DOMAIN x = {"backend", "target", "case", "run"}
      BY DEF Row
<1>6. {"heading"} # {"backend", "target", "case", "run"}
      OBVIOUS
<1>7. Heading \in Seq(Lines)
      BY <1>2, SeqMonotonic DEF Lines
<1>8. QED BY <1>1, <1>3, <1>4, <1>5, <1>6, <1>7

\* A heading over rows, taken apart.
LEMMA UnderHeading ==
    ASSUME NEW rows \in Seq(Row)
    PROVE  LET lines == Heading \o rows
           IN  /\ lines \in Seq(Lines)
               /\ Len(lines) = 2 + Len(rows)
               /\ \A i \in 1 .. 2 : lines[i] = Heading[i]
               /\ \A i \in 1 .. Len(rows) : lines[i + 2] = rows[i]
               /\ \A i \in 3 .. Len(lines) : lines[i] = rows[i - 2]
               /\ SubSeq(lines, 1, 2) = Heading
               /\ SubSeq(lines, 3, Len(lines)) = rows
<1> DEFINE lines == Heading \o rows
<1>1. /\ lines \in Seq(Lines)
      /\ Len(lines) = 2 + Len(rows)
      /\ \A i \in 1 .. 2 + Len(rows) :
             lines[i] = IF i <= 2 THEN Heading[i] ELSE rows[i - 2]
  <2>1. rows \in Seq(Lines) /\ Heading \in Seq(Lines) /\ Len(Heading) = 2
        BY HeadingIs
  <2>2. /\ Heading \o rows \in Seq(Lines)
        /\ Len(Heading \o rows) = Len(Heading) + Len(rows)
        /\ \A i \in 1 .. Len(Heading) + Len(rows) :
               (Heading \o rows)[i] = IF i <= Len(Heading) THEN Heading[i]
                                      ELSE rows[i - Len(Heading)]
        BY <2>1, ConcatProperties, Zenon
  <2>3. QED BY <2>1, <2>2
<1>2. Len(rows) \in Nat
      BY LenProperties
<1> HIDE DEF lines
<1>3. \A i \in 1 .. 2 : lines[i] = Heading[i]
      BY <1>1, <1>2
<1>4. \A i \in 1 .. Len(rows) : lines[i + 2] = rows[i]
      BY <1>1, <1>2
<1>5. \A i \in 3 .. Len(lines) : lines[i] = rows[i - 2]
      BY <1>1, <1>2
<1>6. SubSeq(lines, 1, 2) = Heading
  <2>1. /\ SubSeq(lines, 1, 2) \in Seq(Lines)
        /\ Len(SubSeq(lines, 1, 2)) = 2
        /\ \A i \in 1 .. 2 : SubSeq(lines, 1, 2)[i] = lines[i]
        BY <1>1, <1>2, SubSeqProperties
  <2>2. QED BY <1>3, <2>1, HeadingIs, SeqEqual
<1>7. SubSeq(lines, 3, Len(lines)) = rows
  <2>1. /\ SubSeq(lines, 3, Len(lines)) \in Seq(Lines)
        /\ Len(SubSeq(lines, 3, Len(lines))) = Len(rows)
        /\ \A i \in 1 .. Len(rows) :
               SubSeq(lines, 3, Len(lines))[i] = lines[3 + i - 1]
        BY <1>1, <1>2, SubSeqProperties
  <2>2. \A i \in 1 .. Len(rows) : SubSeq(lines, 3, Len(lines))[i] = rows[i]
        BY <1>2, <1>4, <2>1
  <2>3. rows \in Seq(Lines)
        BY HeadingIs
  <2>4. QED BY <2>1, <2>2, <2>3, SeqEqual
<1>8. QED BY <1>1, <1>3, <1>4, <1>5, <1>6, <1>7 DEF lines

\* An empty log, an empty table.
LEMMA NothingIsGood ==
    ASSUME NEW b, NEW t
    PROVE  Good(<<>>, b, t) /\ Heading \o <<>> = Heading
<1>1. Heading \o <<>> = Heading
      BY HeadingIs, ConcatEmptySeq
<1>2. <<>> \in Seq(Row) /\ DOMAIN <<>> = {}
      OBVIOUS
<1>3. QED BY <1>1, <1>2 DEF Good

LEMMA AppendGood ==
    ASSUME NEW log, NEW b, NEW t, NEW r, Good(log, b, t),
           \A i \in DOMAIN log : log[i].run = r,
           NEW row \in Row, row.backend = b, row.target = t, row.run = r,
           row.case \notin CasesIn(log)
    PROVE  /\ Good(Append(log, row), b, t)
           /\ \A i \in DOMAIN Append(log, row) : Append(log, row)[i].run = r
<1> DEFINE longer == Append(log, row)
<1>1. log \in Seq(Row) /\ Len(log) \in Nat /\ DOMAIN log = 1 .. Len(log)
      BY LenProperties DEF Good
<1>2. /\ longer \in Seq(Row)
      /\ DOMAIN longer = 1 .. Len(log) + 1
      /\ \A i \in 1 .. Len(log) : longer[i] = log[i]
      /\ longer[Len(log) + 1] = row
  <2>1. /\ longer \in Seq(Row)
        /\ Len(longer) = Len(log) + 1
        /\ \A i \in 1 .. Len(log) : longer[i] = log[i]
        /\ longer[Len(log) + 1] = row
        BY <1>1, AppendProperties
  <2>2. QED BY <2>1, LenProperties
<1> HIDE DEF longer
<1>3. \A i \in DOMAIN longer : i \in DOMAIN log \/ i = Len(log) + 1
      BY <1>1, <1>2
<1>4. \A i \in DOMAIN longer :
          /\ longer[i].backend = b /\ longer[i].target = t
          /\ longer[i].run = r
      BY <1>1, <1>2, <1>3 DEF Good
<1>5. ASSUME NEW i \in DOMAIN longer, NEW j \in DOMAIN longer,
             longer[i].case = longer[j].case
      PROVE  i = j
  <2>1. \A k \in DOMAIN log : log[k].case # row.case
        BY DEF CasesIn
  <2>2. CASE i \in DOMAIN log /\ j \in DOMAIN log
    <3>1. longer[i] = log[i] /\ longer[j] = log[j]
          BY <1>1, <1>2, <2>2
    <3>2. log[i].run = log[j].run /\ log[i].case = log[j].case
          BY <1>5, <2>2, <3>1
    <3>3. QED BY <2>2, <3>2 DEF Good
  <2>3. CASE i \in DOMAIN log /\ j = Len(log) + 1
        BY <1>1, <1>2, <1>5, <2>1, <2>3
  <2>4. CASE j \in DOMAIN log /\ i = Len(log) + 1
        BY <1>1, <1>2, <1>5, <2>1, <2>4
  <2>5. QED BY <1>3, <2>2, <2>3, <2>4
<1>6. QED BY <1>2, <1>4, <1>5 DEF Good, longer

\* A parser in the middle of a log.
LEMMA PrefixGood ==
    ASSUME NEW log, NEW b, NEW t, Good(log, b, t), NEW k \in 0 .. Len(log)
    PROVE  /\ Good(SubSeq(log, 1, k), b, t)
           /\ Len(SubSeq(log, 1, k)) = k
           /\ k < Len(log) =>
                  Append(Heading \o SubSeq(log, 1, k), log[k + 1])
                      = Heading \o SubSeq(log, 1, k + 1)
<1>1. log \in Seq(Row) /\ Len(log) \in Nat /\ DOMAIN log = 1 .. Len(log)
      BY LenProperties DEF Good
<1>2. ASSUME NEW n \in 0 .. Len(log)
      PROVE  /\ SubSeq(log, 1, n) \in Seq(Row)
             /\ Len(SubSeq(log, 1, n)) = n
             /\ DOMAIN SubSeq(log, 1, n) = 1 .. n
             /\ \A i \in 1 .. n : SubSeq(log, 1, n)[i] = log[i]
  <2>1. \A i \in 1 .. n : log[i] \in Row
        BY <1>1, ElementOfSeq
  <2>2. /\ SubSeq(log, 1, n) \in Seq(Row)
        /\ Len(SubSeq(log, 1, n)) = IF 1 <= n THEN n - 1 + 1 ELSE 0
        /\ \A i \in 1 .. n - 1 + 1 : SubSeq(log, 1, n)[i] = log[1 + i - 1]
        BY <2>1, SubSeqProperties
  <2>3. n \in Nat /\ n - 1 + 1 = n
        BY <1>1
  <2>4. Len(SubSeq(log, 1, n)) = n
        BY <2>2, <2>3
  <2>5. \A i \in 1 .. n : SubSeq(log, 1, n)[i] = log[i]
        BY <2>2, <2>3
  <2>6. QED BY <2>2, <2>4, <2>5, LenProperties
<1>3. Good(SubSeq(log, 1, k), b, t)
      BY <1>1, <1>2 DEF Good
<1>4. ASSUME k < Len(log)
      PROVE  Append(Heading \o SubSeq(log, 1, k), log[k + 1])
                 = Heading \o SubSeq(log, 1, k + 1)
  <2> DEFINE rows == SubSeq(log, 1, k)
             more == SubSeq(log, 1, k + 1)
  <2>1. k + 1 \in 0 .. Len(log) /\ k \in Nat
        BY <1>1, <1>4
  <2>2. /\ rows \in Seq(Row) /\ Len(rows) = k
        /\ \A i \in 1 .. k : rows[i] = log[i]
        BY <1>2
  <2>3. /\ more \in Seq(Row) /\ Len(more) = k + 1
        /\ \A i \in 1 .. k + 1 : more[i] = log[i]
        BY <1>2, <2>1
  <2> HIDE DEF rows, more
  <2> DEFINE lines == Heading \o rows
             longer == Heading \o more
  <2>4. /\ lines \in Seq(Lines) /\ Len(lines) = 2 + k
        /\ \A i \in 1 .. 2 : lines[i] = Heading[i]
        /\ \A i \in 3 .. 2 + k : lines[i] = log[i - 2]
    <3>1. /\ lines \in Seq(Lines) /\ Len(lines) = 2 + k
          /\ \A i \in 1 .. 2 : lines[i] = Heading[i]
          /\ \A i \in 3 .. 2 + k : lines[i] = rows[i - 2]
          BY <2>2, UnderHeading
    <3>2. \A i \in 3 .. 2 + k : i - 2 \in 1 .. k
          BY <2>1
    <3>3. QED BY <2>2, <3>1, <3>2
  <2>5. /\ longer \in Seq(Lines) /\ Len(longer) = 3 + k
        /\ \A i \in 1 .. 2 : longer[i] = Heading[i]
        /\ \A i \in 3 .. 3 + k : longer[i] = log[i - 2]
    <3>1. /\ longer \in Seq(Lines) /\ Len(longer) = 2 + (k + 1)
          /\ \A i \in 1 .. 2 : longer[i] = Heading[i]
          /\ \A i \in 3 .. 2 + (k + 1) : longer[i] = more[i - 2]
          BY <2>3, UnderHeading
    <3>2. \A i \in 3 .. 3 + k : i - 2 \in 1 .. k + 1
          BY <2>1
    <3>3. 2 + (k + 1) = 3 + k
          BY <2>1
    <3>4. QED BY <2>3, <3>1, <3>2, <3>3
  <2>6. log[k + 1] \in Lines
    <3>1. log[k + 1] \in Row
          BY <1>1, <1>4, <2>1, ElementOfSeq
    <3>2. QED BY <3>1 DEF Lines
  <2> HIDE DEF lines, longer
  <2>7. /\ Append(lines, log[k + 1]) \in Seq(Lines)
        /\ Len(Append(lines, log[k + 1])) = 3 + k
        /\ \A i \in 1 .. 2 + k : Append(lines, log[k + 1])[i] = lines[i]
        /\ Append(lines, log[k + 1])[3 + k] = log[k + 1]
    <3>1. /\ Append(lines, log[k + 1]) \in Seq(Lines)
          /\ Len(Append(lines, log[k + 1])) = Len(lines) + 1
          /\ \A i \in 1 .. Len(lines) : Append(lines, log[k + 1])[i] = lines[i]
          /\ Append(lines, log[k + 1])[Len(lines) + 1] = log[k + 1]
          BY <2>4, <2>6, AppendProperties
    <3>2. Len(lines) + 1 = 3 + k
          BY <2>1, <2>4
    <3>3. QED BY <2>4, <3>1, <3>2
  <2>8. \A i \in 1 .. 3 + k : Append(lines, log[k + 1])[i] = longer[i]
    <3>1. longer[3 + k] = log[k + 1]
          BY <2>1, <2>5
    <3>2. \A i \in 1 .. 2 + k : lines[i] = longer[i]
          BY <2>1, <2>4, <2>5
    <3>3. QED BY <2>1, <2>7, <3>1, <3>2
  <2>9. Append(lines, log[k + 1]) = longer
        BY <2>5, <2>7, <2>8, SeqEqual
  <2>10. QED BY <2>9 DEF lines, longer, rows, more
<1>5. QED BY <1>2, <1>3, <1>4

\* Sorting neither repeats a row nor brings one in.
LEMMA ReorderedGood ==
    ASSUME NEW log, NEW b, NEW t, Good(log, b, t),
           NEW rows \in Reorderings(log)
    PROVE  Good(rows, b, t)
<1>1. log \in Seq(Row) /\ Len(log) \in Nat /\ DOMAIN log = 1 .. Len(log)
      BY LenProperties DEF Good
<1>2. /\ rows \in [DOMAIN log -> Range(log)]
      /\ \A x \in Range(log) :
             Cardinality({i \in DOMAIN log : rows[i] = x})
                 = Cardinality({i \in DOMAIN log : log[i] = x})
      BY DEF Reorderings
<1>3. \A i \in DOMAIN log : \E k \in DOMAIN log : rows[i] = log[k]
      BY <1>2 DEF Range
<1>4. \A i \in DOMAIN log : rows[i] \in Row
      BY <1>1, <1>3, ElementOfSeq
<1>5. rows \in Seq(Row) /\ DOMAIN rows = DOMAIN log
  <2>1. rows \in [1 .. Len(log) -> Row]
        BY <1>1, <1>2, <1>4
  <2>2. QED BY <1>1, <2>1, SeqDef
<1>6. ASSUME NEW i \in DOMAIN log, NEW j \in DOMAIN log,
             rows[i].case = rows[j].case
      PROVE  i = j
  <2>1. PICK k \in DOMAIN log : rows[i] = log[k]
        BY <1>3
  <2>2. PICK m \in DOMAIN log : rows[j] = log[m]
        BY <1>3
  <2>3. k = m
        BY <1>6, <2>1, <2>2 DEF Good
  <2> DEFINE x == log[k]
             before == {n \in DOMAIN log : log[n] = x}
             after == {n \in DOMAIN log : rows[n] = x}
  <2>4. before = {k}
        BY DEF Good
  <2>5. Cardinality(before) = 1
        BY <2>4, FS_Singleton
  <2>6. x \in Range(log)
        BY DEF Range
  <2>7. Cardinality(after) = 1
        BY <1>2, <2>5, <2>6
  <2>8. IsFiniteSet(after)
    <3>1. IsFiniteSet(DOMAIN log)
          BY <1>1, FS_Interval
    <3>2. QED BY <3>1, FS_Subset
  <2>9. \E y : after = {y}
        BY <2>7, <2>8, FS_Singleton
  <2>10. i \in after /\ j \in after
        BY <2>1, <2>2, <2>3
  <2>11. QED BY <2>9, <2>10
<1>7. \A i \in DOMAIN log : rows[i].backend = b /\ rows[i].target = t
      BY <1>3 DEF Good
<1>8. \A i, j \in DOMAIN log : rows[i].run = rows[j].run
      BY <1>3 DEF Good
<1>9. QED BY <1>5, <1>6, <1>7, <1>8 DEF Good

\* What the property asks of a file.
LEMMA GoodIsOneRun ==
    ASSUME NEW b, NEW t, NEW lines
    PROVE  /\ Good(lines, b, t) => OneRun(lines, b, t)
           /\ GoodTable(lines, b, t) => OneRun(lines, b, t)
<1>1. ASSUME Good(lines, b, t) PROVE OneRun(lines, b, t)
      BY <1>1 DEF Good, OneRun
<1>2. ASSUME GoodTable(lines, b, t) PROVE OneRun(lines, b, t)
  <2>1. PICK rows : Good(rows, b, t) /\ lines = Heading \o rows
        BY <1>2 DEF GoodTable
  <2>2. rows \in Seq(Row) /\ Len(rows) \in Nat /\ DOMAIN rows = 1 .. Len(rows)
        BY <2>1, LenProperties DEF Good
  <2>3. /\ lines \in Seq(Lines) /\ Len(lines) = 2 + Len(rows)
        /\ \A i \in 1 .. 2 : lines[i] = Heading[i]
        /\ \A i \in 3 .. Len(lines) : lines[i] = rows[i - 2]
        BY <2>1, <2>2, UnderHeading
  <2>4. DOMAIN lines = 1 .. 2 + Len(rows)
        BY <2>3, LenProperties
  <2>5. \A i \in DOMAIN lines : lines[i] \in Row =>
            i - 2 \in DOMAIN rows /\ lines[i] = rows[i - 2]
    <3>1. \A i \in 1 .. 2 : lines[i] \notin Row
          BY <2>3, HeadingIs
    <3>2. \A i \in DOMAIN lines : i \in 1 .. 2 \/ i \in 3 .. Len(lines)
          BY <2>2, <2>3, <2>4
    <3>3. \A i \in 3 .. Len(lines) : i - 2 \in DOMAIN rows
          BY <2>2, <2>3
    <3>4. QED BY <2>3, <3>1, <3>2, <3>3
  <2> DEFINE at == {i \in DOMAIN lines : lines[i] \in Row}
  <2>6. \A i \in at : lines[i].backend = b /\ lines[i].target = t
        BY <2>1, <2>5 DEF Good
  <2>7. ASSUME NEW i \in at, NEW j \in at
        PROVE  /\ lines[i].run = lines[j].run
               /\ lines[i].case = lines[j].case => i = j
    <3>1. /\ i - 2 \in DOMAIN rows /\ lines[i] = rows[i - 2]
          /\ j - 2 \in DOMAIN rows /\ lines[j] = rows[j - 2]
          BY <2>5
    <3>2. /\ lines[i].run = lines[j].run
          /\ lines[i].case = lines[j].case => i - 2 = j - 2
          BY <2>1, <3>1 DEF Good
    <3>3. QED BY <2>4, <2>2, <3>2
  <2>8. QED BY <2>6, <2>7 DEF OneRun
<1>3. QED BY <1>1, <1>2

-----------------------------------------------------------------------------
(* Steps *)

\* The first rows of a log are good if the log is.
LEMMA GoodTables ==
    ASSUME NEW log, NEW b, NEW t, Good(log, b, t)
    PROVE  /\ GoodTable(Heading, b, t)
           /\ GoodTable(Heading \o log, b, t)
           /\ \A k \in 0 .. Len(log) :
                  GoodTable(Heading \o SubSeq(log, 1, k), b, t)
           /\ \A rows \in Reorderings(log) : GoodTable(Heading \o rows, b, t)
<1>1. GoodTable(Heading, b, t)
      BY NothingIsGood DEF GoodTable
<1>2. \A k \in 0 .. Len(log) : GoodTable(Heading \o SubSeq(log, 1, k), b, t)
      BY PrefixGood DEF GoodTable
<1>3. \A rows \in Reorderings(log) : GoodTable(Heading \o rows, b, t)
      BY ReorderedGood DEF GoodTable
<1>4. QED BY <1>1, <1>2, <1>3 DEF GoodTable

\* What a recipe's process has reported, while its rows are of this run.
LEMMA LoggedIs ==
    ASSUME NEW t \in Target,
           \A i \in DOMAIN Log(files, backend, t) :
               Log(files, backend, t)[i].run = run
    PROVE  Logged(t) = CasesIn(Log(files, backend, t))
BY DEF Logged, CasesIn, Log, Range

\* A step of one recipe leaves the others as they were.
LEMMA OthersKeep ==
    ASSUME ControlInv, FileInv, RecipeInv, NEW t \in Target,
           backend' = backend, run' = run,
           \A u \in Target : u # t => pc'[u] = pc[u] /\ exit'[u] = exit[u],
           Beside(backend, t), FilesOf(files', backend, t),
           Progress(pc'[t], exit'[t], run, files', backend, t)
    PROVE  FileInv' /\ RecipeInv'
<1>1. ASSUME NEW b \in Backend, NEW u \in Target PROVE FilesOf(files', b, u)
  <2>1. CASE b = backend /\ u = t
        BY <2>1
  <2>2. CASE b # backend \/ u # t
    <3>1. /\ Log(files', b, u) = Log(files, b, u)
          /\ Summary(files', b, u) = Summary(files, b, u)
          /\ Table(files', b, u) = Table(files, b, u)
          BY <2>2 DEF Beside
    <3>2. FilesOf(files, b, u)
          BY DEF FileInv
    <3>3. QED BY <3>1, <3>2 DEF FilesOf
  <2>3. QED BY <2>1, <2>2
<1>2. ASSUME NEW u \in Target
      PROVE  Progress(pc'[u], exit'[u], run', files', backend', u)
  <2>1. CASE u = t
        BY <2>1
  <2>2. CASE u # t
    <3>1. /\ Log(files', backend, u) = Log(files, backend, u)
          /\ Summary(files', backend, u) = Summary(files, backend, u)
          /\ Table(files', backend, u) = Table(files, backend, u)
          BY <2>2 DEF Beside, ControlInv
    <3>2. Progress(pc[u], exit[u], run, files, backend, u)
          BY DEF RecipeInv
    <3>3. pc'[u] = pc[u] /\ exit'[u] = exit[u]
          BY <2>2
    <3>4. QED BY <3>1, <3>2, <3>3, Zenon DEF Progress
  <2>3. QED BY <2>1, <2>2
<1>3. QED BY <1>1, <1>2 DEF FileInv, RecipeInv

\* No file changes: what is known of a recipe's files stays.
LEMMA NoWrite ==
    ASSUME FileInv, NEW t \in Target, backend \in Backend, files' = files
    PROVE  Beside(backend, t) /\ FilesOf(files', backend, t)
BY DEF Beside, FileInv

LEMMA ControlStep ==
    ASSUME ControlInv, NEW t \in Target, Recipe(t)
    PROVE  /\ ControlInv'
           /\ backend' = backend /\ run' = run
           /\ \A u \in Target : u # t => pc'[u] = pc[u] /\ exit'[u] = exit[u]
<1> USE DEF ControlInv, Goto, Labels
<1>1. CASE StartRecipe(t) \/ RefuseRecipe(t)
      BY <1>1 DEF StartRecipe, RefuseRecipe
<1>2. CASE LogCase(t)
      BY <1>2 DEF LogCase
<1>3. CASE EndHarness(t)
  <2>1. PICK code \in {"ok", "failed"} : exit' = [exit EXCEPT ![t] = code]
        BY <1>3 DEF EndHarness
  <2>2. QED BY <1>3, <2>1 DEF EndHarness
<1>4. CASE ParseHeading(t) \/ ParseRow(t) \/ EndParse(t)
      BY <1>4 DEF ParseHeading, ParseRow, EndParse
<1>5. CASE SortHeading(t) \/ SortRows(t) \/ RemoveSummary(t)
      BY <1>5 DEF SortHeading, SortRows, RemoveSummary
<1>6. QED BY <1>1, <1>2, <1>3, <1>4, <1>5 DEF Recipe

\* One step per action of a recipe: what it leaves in its own three files.
LEMMA OwnStep ==
    ASSUME FilesInv, ControlInv, FileInv, RecipeInv,
           NEW t \in Target, Recipe(t)
    PROVE  FileInv' /\ RecipeInv'
<1> DEFINE b == backend
           log == Log(files, b, t)
           summary == Summary(files, b, t)
           table == Table(files, b, t)
<1>1. b \in Backend /\ run \in 0 .. MaxRuns /\ pc[t] \in Labels
      BY DEF ControlInv
<1>2. /\ backend' = backend /\ run' = run
      /\ \A u \in Target : u # t => pc'[u] = pc[u] /\ exit'[u] = exit[u]
      BY ControlStep
<1>3. /\ FilesOf(files, b, t)
      /\ Progress(pc[t], exit[t], run, files, b, t)
      BY <1>1 DEF FileInv, RecipeInv
<1>4. /\ LogOf(b, t) = TeeFile(b, t)
      /\ SummaryOf(b, t) = SortFile(b, t)
      /\ Sorted(SortFile(b, t)) = SortedPlace(b, t)
      BY <1>1, NamesWrittenOut, SortedWrittenOut
<1>5. DOMAIN pc = Target /\ DOMAIN exit = Target
      BY DEF ControlInv
<1>6. SUFFICES /\ Beside(b, t)
               /\ FilesOf(files', b, t)
               /\ Progress(pc'[t], exit'[t], run, files', b, t)
      BY <1>2, OthersKeep
<1>7. files' = files => Beside(b, t) /\ FilesOf(files', b, t)
      BY <1>1, NoWrite
<1>8. pc[t] \in Begun =>
          /\ log # Absent /\ Good(log, b, t)
          /\ \A i \in DOMAIN log : log[i].run = run
          /\ Logged(t) = CasesIn(log)
      BY <1>3, LoggedIs DEF Progress, FilesOf
<1>9. CASE StartRecipe(t)
  <2>1. Write(TeeFile(b, t), <<>>) /\ pc[t] = "ready" /\ pc'[t] = "run"
        BY <1>5, <1>9 DEF StartRecipe, MayStart, Goto
  <2>2. /\ Log(files', b, t) = <<>>
        /\ Summary(files', b, t) = summary
        /\ Table(files', b, t) = table
        /\ Beside(b, t)
        BY <1>1, <2>1, WriteLog
  <2>3. FilesOf(files', b, t)
        BY <1>3, <2>2, NothingIsGood DEF FilesOf
  <2>4. <<>> # Absent
        BY AbsentAssumption, EmptySeq
  <2>5. Progress(pc'[t], exit'[t], run, files', b, t)
        BY <1>3, <2>1, <2>2, <2>4 DEF Progress, Begun, Ended
  <2>6. QED BY <2>2, <2>3, <2>5
<1>10. CASE RefuseRecipe(t)
  <2>1. pc[t] = "ready" /\ pc'[t] = "failed" /\ files' = files
        BY <1>5, <1>10 DEF RefuseRecipe, MayStart, Goto
  <2>2. Progress(pc'[t], exit'[t], run, files', b, t)
        BY <1>3, <2>1 DEF Progress, Begun, Ended
  <2>3. QED BY <1>7, <2>1, <2>2
<1>11. CASE LogCase(t)
  <2>1. PICK c \in Case[t] \ Logged(t) :
            Write(TeeFile(b, t),
                  Append(log, [backend |-> b, target |-> t, case |-> c,
                               run |-> run]))
        BY <1>11 DEF LogCase, Log
  <2> DEFINE row == [backend |-> b, target |-> t, case |-> c, run |-> run]
  <2>2. pc[t] = "run" /\ pc' = pc /\ exit' = exit
        BY <1>11 DEF LogCase
  <2>3. row \in Row
    <3>1. c \in UNION Range(Case)
          BY CaseAssumption DEF Range
    <3>2. run \in 1 .. MaxRuns
          BY <1>1, <1>3, <2>2, MaxRunsAssumption DEF Progress
    <3>3. QED BY <1>1, <3>1, <3>2 DEF Row
  <2>4. /\ log # Absent /\ Good(log, b, t)
        /\ \A i \in DOMAIN log : log[i].run = run
        /\ c \notin CasesIn(log)
        BY <1>8, <2>1, <2>2 DEF Begun
  <2>5. /\ Good(Append(log, row), b, t)
        /\ \A i \in DOMAIN Append(log, row) : Append(log, row)[i].run = run
    <3>1. /\ row.backend = b /\ row.target = t /\ row.run = run
          /\ row.case \notin CasesIn(log)
          BY <2>4
    <3>2. \A r, x : /\ Good(log, b, t) /\ (\A i \in DOMAIN log : log[i].run = r)
                   /\ x \in Row /\ x.backend = b /\ x.target = t /\ x.run = r
                   /\ x.case \notin CasesIn(log)
                   => /\ Good(Append(log, x), b, t)
                      /\ \A i \in DOMAIN Append(log, x) :
                             Append(log, x)[i].run = r
          BY AppendGood
    <3> HIDE DEF row, b, log
    <3>3. QED BY <2>3, <2>4, <3>1, <3>2
  <2>6. /\ Log(files', b, t) = Append(log, row)
        /\ Summary(files', b, t) = summary
        /\ Table(files', b, t) = table
        /\ Beside(b, t)
        BY <1>1, <2>1, WriteLog
  <2>7. Append(log, row) # Absent
    <3>1. Append(log, row) \in Seq(Lines)
          BY <2>5, HeadingIs DEF Good
    <3>2. QED BY <3>1, AbsentAssumption
  <2> HIDE DEF row
  <2>8. FilesOf(files', b, t)
        BY <1>3, <2>5, <2>6 DEF FilesOf
  <2>9. Progress(pc'[t], exit'[t], run, files', b, t)
        BY <1>3, <2>2, <2>5, <2>6, <2>7 DEF Progress, Begun, Ended
  <2>10. QED BY <2>6, <2>8, <2>9
<1>12. CASE EndHarness(t)
  <2>1. /\ pc[t] = "run" /\ pc'[t] = "complete" /\ files' = files
        /\ exit'[t] = "failed" \/ Logged(t) = Case[t]
        BY <1>5, <1>12 DEF EndHarness, Goto
  <2>2. Logged(t) = CasesIn(log)
        BY <1>8, <2>1 DEF Begun
  <2>3. Progress(pc'[t], exit'[t], run, files', b, t)
        BY <1>3, <2>1, <2>2 DEF Progress, Begun, Ended
  <2>4. QED BY <1>7, <2>1, <2>3
<1>13. CASE ParseHeading(t)
  <2>1. /\ pc[t] = "complete" /\ pc'[t] = "parse" /\ exit' = exit
        /\ Write(SortFile(b, t), Heading)
        BY <1>4, <1>5, <1>13 DEF ParseHeading, Goto
  <2>2. /\ Log(files', b, t) = log
        /\ Summary(files', b, t) = Heading
        /\ Table(files', b, t) = table
        /\ Beside(b, t)
        BY <1>1, <2>1, WriteSummary
  <2>3. Good(log, b, t)
        BY <1>8, <2>1 DEF Begun
  <2>4. FilesOf(files', b, t)
        BY <1>3, <2>2, <2>3, GoodTables DEF FilesOf
  <2>5. \E k \in 0 .. Len(log) : Heading = Heading \o SubSeq(log, 1, k)
    <3>1. Len(log) \in Nat
          BY <2>3, LenProperties DEF Good
    <3>2. SubSeq(log, 1, 0) = <<>>
          BY SubSeqEmpty
    <3>3. Heading = Heading \o <<>>
          BY NothingIsGood
    <3>4. 0 \in 0 .. Len(log)
          BY <3>1
    <3>5. QED BY <3>2, <3>3, <3>4
  <2>6. Progress(pc'[t], exit'[t], run, files', b, t)
        BY <1>3, <2>1, <2>2, <2>5 DEF Progress, Begun, Ended
  <2>7. QED BY <2>2, <2>4, <2>6
<1>14. CASE ParseRow(t)
  <2>1. /\ pc[t] = "parse" /\ pc' = pc /\ exit' = exit
        /\ Len(summary) - 2 < Len(log)
        /\ Write(SortFile(b, t),
                 Append(summary, log[Len(summary) - 2 + 1]))
        BY <1>4, <1>14, HeadingIs DEF ParseRow, Summary, Log
  <2>2. PICK k \in 0 .. Len(log) : summary = Heading \o SubSeq(log, 1, k)
        BY <1>3, <2>1 DEF Progress
  <2>3. Good(log, b, t)
        BY <1>8, <2>1 DEF Begun
  <2>4. Len(log) \in Nat
        BY <2>3, LenProperties DEF Good
  <2>5. Len(summary) - 2 = k
    <3>1. SubSeq(log, 1, k) \in Seq(Row) /\ Len(SubSeq(log, 1, k)) = k
          BY <2>3, PrefixGood DEF Good
    <3>2. Len(summary) = 2 + k
          BY <2>2, <3>1, UnderHeading
    <3>3. QED BY <2>4, <3>2
  <2>6. k + 1 \in 0 .. Len(log) /\ k < Len(log)
        BY <2>1, <2>4, <2>5
  <2>7. Append(summary, log[Len(summary) - 2 + 1])
            = Heading \o SubSeq(log, 1, k + 1)
    <3>1. Append(Heading \o SubSeq(log, 1, k), log[k + 1])
              = Heading \o SubSeq(log, 1, k + 1)
          BY <2>3, <2>6, PrefixGood
    <3>2. QED BY <2>2, <2>5, <3>1
  <2>8. /\ Log(files', b, t) = log
        /\ Summary(files', b, t) = Heading \o SubSeq(log, 1, k + 1)
        /\ Table(files', b, t) = table
        /\ Beside(b, t)
        BY <1>1, <2>1, <2>7, WriteSummary
  <2>9. FilesOf(files', b, t)
        BY <1>3, <2>3, <2>6, <2>8, GoodTables DEF FilesOf
  <2>10. Progress(pc'[t], exit'[t], run, files', b, t)
        BY <1>3, <2>1, <2>6, <2>8 DEF Progress, Begun, Ended
  <2>11. QED BY <2>8, <2>9, <2>10
<1>15. CASE EndParse(t)
  <2>1. /\ pc[t] = "parse" /\ pc'[t] = "sort" /\ exit' = exit
        /\ files' = files
        /\ Len(summary) - 2 = Len(log)
        BY <1>4, <1>5, <1>15, HeadingIs DEF EndParse, Summary, Log, Goto
  <2>2. PICK k \in 0 .. Len(log) : summary = Heading \o SubSeq(log, 1, k)
        BY <1>3, <2>1 DEF Progress
  <2>3. Good(log, b, t) /\ log \in Seq(Row) /\ Len(log) \in Nat
        BY <1>8, <2>1, LenProperties DEF Good, Begun
  <2>4. k = Len(log)
    <3>1. SubSeq(log, 1, k) \in Seq(Row) /\ Len(SubSeq(log, 1, k)) = k
          BY <2>3, PrefixGood DEF Good
    <3>2. Len(summary) = 2 + k
          BY <2>2, <3>1, UnderHeading
    <3>3. QED BY <2>1, <2>3, <3>2
  <2>5. summary = Heading \o log
        BY <2>2, <2>3, <2>4, SubSeqFull
  <2>6. Progress(pc'[t], exit'[t], run, files', b, t)
        BY <1>3, <2>1, <2>5 DEF Progress, Begun, Ended
  <2>7. QED BY <1>7, <2>1, <2>6
<1>16. CASE SortHeading(t)
  <2>1. /\ pc[t] = "sort" /\ pc'[t] = "tail" /\ exit' = exit
        /\ Write(SortedPlace(b, t), SubSeq(summary, 1, 2))
        BY <1>4, <1>5, <1>16 DEF SortHeading, Summary, Goto
  <2>2. Good(log, b, t)
        BY <1>8, <2>1 DEF Begun
  <2>3. SubSeq(summary, 1, 2) = Heading
    <3>1. summary = Heading \o log
          BY <1>3, <2>1 DEF Progress
    <3>2. QED BY <2>2, <3>1, UnderHeading DEF Good
  <2>4. /\ Log(files', b, t) = log
        /\ Summary(files', b, t) = summary
        /\ Table(files', b, t) = Heading
        /\ Beside(b, t)
        BY <1>1, <2>1, <2>3, WriteTable
  <2>5. FilesOf(files', b, t)
        BY <1>3, <2>2, <2>4, GoodTables DEF FilesOf
  <2>6. Progress(pc'[t], exit'[t], run, files', b, t)
        BY <1>3, <2>1, <2>4 DEF Progress, Begun, Ended
  <2>7. QED BY <2>4, <2>5, <2>6
<1>17. CASE SortRows(t)
  <2>1. PICK rows \in Reorderings(SubSeq(summary, 3, Len(summary))) :
            Write(SortedPlace(b, t), table \o rows)
        BY <1>4, <1>17 DEF SortRows, Summary, Table
  <2>2. pc[t] = "tail" /\ pc'[t] = "rm" /\ exit' = exit
        BY <1>5, <1>17 DEF SortRows, Goto
  <2>3. Good(log, b, t)
        BY <1>8, <2>2 DEF Begun
  <2>4. summary = Heading \o log /\ table = Heading
        BY <1>3, <2>2 DEF Progress
  <2>5. rows \in Reorderings(log)
    <3>1. SubSeq(Heading \o log, 3, Len(Heading \o log)) = log
          BY <2>3, UnderHeading DEF Good
    <3>2. QED BY <2>1, <2>4, <3>1
  <2>6. /\ Log(files', b, t) = log
        /\ Summary(files', b, t) = summary
        /\ Table(files', b, t) = Heading \o rows
        /\ Beside(b, t)
        BY <1>1, <2>1, <2>4, WriteTable
  <2>7. FilesOf(files', b, t)
        BY <1>3, <2>3, <2>5, <2>6, GoodTables DEF FilesOf
  <2>8. summary # Absent
    <3>1. summary \in Seq(Lines)
          BY <2>3, <2>4, UnderHeading DEF Good
    <3>2. QED BY <3>1, AbsentAssumption
  <2>9. Progress(pc'[t], exit'[t], run, files', b, t)
        BY <1>3, <2>2, <2>5, <2>6, <2>8 DEF Progress, Begun, Ended
  <2>10. QED BY <2>6, <2>7, <2>9
<1>18. CASE RemoveSummary(t)
  <2>1. /\ pc[t] = "rm" /\ pc'[t] = "done" /\ exit' = exit
        /\ Write(SortFile(b, t), Absent)
        BY <1>5, <1>18 DEF RemoveSummary, Goto
  <2>2. /\ Log(files', b, t) = log
        /\ Summary(files', b, t) = Absent
        /\ Table(files', b, t) = table
        /\ Beside(b, t)
        BY <1>1, <2>1, WriteSummary
  <2>3. FilesOf(files', b, t)
        BY <1>3, <2>2 DEF FilesOf
  <2>4. Progress(pc'[t], exit'[t], run, files', b, t)
        BY <1>3, <2>1, <2>2 DEF Progress, Begun, Ended
  <2>5. QED BY <2>2, <2>3, <2>4
<1>19. QED BY <1>9, <1>10, <1>11, <1>12, <1>13, <1>14, <1>15, <1>16, <1>17,
          <1>18 DEF Recipe

LEMMA InitInv == Init => Inv
<1> SUFFICES ASSUME Init PROVE Inv
    OBVIOUS
<1>1. ControlInv
      BY MaxRunsAssumption DEF Init, ControlInv, Labels
<1>2. \A n \in Names : files[n] = Absent
      BY DEF Init
<1>3. FileInv
      BY <1>2, NamesAre DEF FileInv, FilesOf, Log, Summary, Table
<1>4. RecipeInv
      BY DEF Init, RecipeInv, Progress, Begun, Ended
<1>5. QED BY <1>1, <1>3, <1>4 DEF Inv

\* make is started, killed or stopped, or everything is cleaned up: no recipe is
\* under way then, and what the files hold is not touched or gone.
LEMMA MakeStep ==
    ASSUME Inv, StartMake \/ Kill \/ StopMake \/ Clean
    PROVE  Inv'
<1> USE DEF Inv
<1>1. /\ backend' \in Backend /\ jobs' \in BOOLEAN
      /\ exit' \in [Target -> {"none", "ok", "failed"}]
      BY DEF StartMake, Kill, StopMake, Clean, ControlInv
<1>2. /\ run' \in 0 .. MaxRuns
      /\ run' > 0 \/ \A t \in Target : pc'[t] = "idle"
      BY MaxRunsAssumption DEF StartMake, Kill, StopMake, Clean, ControlInv
<1>3. pc' \in [Target -> {"idle", "ready"}]
  <2>1. CASE StartMake
    <3>1. PICK asked \in SUBSET Target :
              pc' = [t \in Target |-> IF t \in asked THEN "ready" ELSE "idle"]
          BY <2>1 DEF StartMake
    <3>2. QED BY <3>1
  <2>2. CASE Kill \/ StopMake \/ Clean
        BY <2>2 DEF Kill, StopMake, Clean
  <2>3. QED BY <2>1, <2>2
<1>4. ControlInv'
      BY <1>1, <1>2, <1>3 DEF ControlInv, Labels
<1>5. FileInv'
  <2>1. CASE files' = files
        BY <2>1 DEF FileInv
  <2>2. CASE Clean
    <3>1. \A n \in Names : files'[n] = Absent
          BY <2>2 DEF Clean
    <3>2. QED BY <3>1, NamesAre DEF FileInv, FilesOf, Log, Summary, Table
  <2>3. QED BY <2>1, <2>2 DEF StartMake, Kill, StopMake
<1>6. RecipeInv'
      BY <1>2, <1>3 DEF RecipeInv, Progress, Begun, Ended
<1>7. QED BY <1>4, <1>5, <1>6

LEMMA NextInv ==
    ASSUME FilesInv, Inv, [Next]_vars
    PROVE  Inv'
<1>1. CASE StartMake \/ Kill \/ StopMake \/ Clean
      BY <1>1, MakeStep
<1>2. ASSUME NEW t \in Target, Recipe(t) PROVE Inv'
      BY <1>2, OwnStep, ControlStep DEF Inv
<1>3. CASE UNCHANGED vars
      BY <1>3 DEF vars, Inv, ControlInv, FileInv, RecipeInv
<1>4. QED BY <1>1, <1>2, <1>3 DEF Next

LEMMA InvInvariance == Spec => []Inv
<1>1. FilesInv /\ Inv /\ [Next]_vars => Inv'
      BY NextInv
<1>2. QED BY <1>1, InitInv, FilesInvariance, PTL DEF Spec

-----------------------------------------------------------------------------
(* What follows *)

\* Each file is a list of lines or absent; and what a script is about to read is
\* there.
THEOREM PipelineTypes == Spec => []TypeOK
<1>1. FilesInv /\ Inv => TypeOK
  <2> SUFFICES ASSUME FilesInv, Inv PROVE TypeOK
      OBVIOUS
  <2>1. ASSUME NEW n \in Names PROVE files[n] \in Seq(Lines) \cup {Absent}
    <3>1. PICK b \in Backend, t \in Target :
              n \in {TeeFile(b, t), SortFile(b, t), SortedPlace(b, t)}
          BY NamesAre
    <3>2. FilesOf(files, b, t)
          BY DEF Inv, FileInv
    <3>3. ASSUME NEW lines, Good(lines, b, t) \/ GoodTable(lines, b, t)
          PROVE  lines \in Seq(Lines)
      <4>1. CASE Good(lines, b, t)
            BY <4>1, HeadingIs DEF Good
      <4>2. CASE GoodTable(lines, b, t)
            BY <4>2, UnderHeading DEF GoodTable, Good
      <4>3. QED BY <3>3, <4>1, <4>2
    <3>4. QED BY <3>1, <3>2, <3>3 DEF FilesOf, Log, Summary, Table
  <2>2. files \in [Names -> Seq(Lines) \cup {Absent}]
    <3>1. files = [n \in Names |-> files[n]]
          BY DEF FilesInv
    <3>2. QED BY <2>1, <3>1
  <2>3. ASSUME NEW t \in Target, pc[t] \in {"sort", "tail", "rm"}
        PROVE  files[SortFile(backend, t)] # Absent
    <3>1. Progress(pc[t], exit[t], run, files, backend, t)
          BY DEF Inv, RecipeInv
    <3>2. FilesOf(files, backend, t)
          BY DEF Inv, FileInv, ControlInv
    <3>3. CASE pc[t] \in {"sort", "tail"}
      <4>1. Good(Log(files, backend, t), backend, t)
            BY <3>1, <3>2, <3>3 DEF Progress, FilesOf, Begun
      <4>2. Summary(files, backend, t) \in Seq(Lines)
        <5>1. Summary(files, backend, t) = Heading \o Log(files, backend, t)
              BY <3>1, <3>3 DEF Progress
        <5>2. QED BY <4>1, <5>1, UnderHeading DEF Good
      <4>3. QED BY <4>2, AbsentAssumption DEF Summary
    <3>4. CASE pc[t] = "rm"
          BY <3>1, <3>4 DEF Progress, Summary
    <3>5. QED BY <2>3, <3>3, <3>4
  <2>4. QED BY <2>2, <2>3 DEF TypeOK, Inv, ControlInv, Labels
<1>2. QED BY <1>1, FilesInvariance, InvInvariance, PTL

\* A log, a summary and a sorted summary tell of their own backend, mode and
\* target only, and of one run of it, whichever recipes ran before or beside and
\* wherever they were killed.
THEOREM TablesOfOneRun == Spec => []TablesAreOfOneRun
<1>1. Inv => TablesAreOfOneRun
  <2> SUFFICES ASSUME Inv, NEW b \in Backend, NEW t \in Target,
                      NEW name \in {LogOf(b, t), SummaryOf(b, t), SortedOf(b, t)},
                      files[name] # Absent
               PROVE  OneRun(files[name], b, t)
      BY DEF TablesAreOfOneRun
  <2>1. name \in {TeeFile(b, t), SortFile(b, t), SortedPlace(b, t)}
        BY NamesWrittenOut, SortedWrittenOut
  <2>2. FilesOf(files, b, t)
        BY DEF Inv, FileInv
  <2>3. Good(files[name], b, t) \/ GoodTable(files[name], b, t)
        BY <2>1, <2>2 DEF FilesOf, Log, Summary, Table
  <2>4. QED BY <2>3, GoodIsOneRun
<1>2. QED BY <1>1, InvInvariance, PTL

\* At the end of a recipe its sorted table is the heading over the rows of its
\* own process, all of them, and a case is missing only if that process failed.
THEOREM FinishedTables == Spec => []FinishedTableIsComplete
<1>1. Inv => FinishedTableIsComplete
  <2> SUFFICES ASSUME Inv, NEW t \in Target, pc[t] = "done"
               PROVE  /\ \E rows \in Reorderings(files[TeeFile(backend, t)]) :
                             files[SortedOf(backend, t)] = Heading \o rows
                      /\ \A i \in DOMAIN files[TeeFile(backend, t)] :
                             files[TeeFile(backend, t)][i].run = run
                      /\ Logged(t) # Case[t] => exit[t] = "failed"
                      /\ files[SummaryOf(backend, t)] = Absent
      BY DEF FinishedTableIsComplete
  <2>1. Progress(pc[t], exit[t], run, files, backend, t)
        BY DEF Inv, RecipeInv
  <2>2. /\ SummaryOf(backend, t) = SortFile(backend, t)
        /\ SortedOf(backend, t) = SortedPlace(backend, t)
        BY NamesWrittenOut, SortedWrittenOut DEF Inv, ControlInv
  <2>3. \A i \in DOMAIN Log(files, backend, t) :
            Log(files, backend, t)[i].run = run
        BY <2>1 DEF Progress, Begun
  <2>4. Logged(t) # Case[t] => exit[t] = "failed"
        BY <2>1, <2>3, LoggedIs DEF Progress, Begun, Ended
  <2>5. QED BY <2>1, <2>2, <2>3, <2>4 DEF Progress, Log, Summary, Table
<1>2. QED BY <1>1, InvInvariance, PTL
================================================================================
