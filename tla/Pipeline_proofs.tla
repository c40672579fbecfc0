---------------------------- MODULE Pipeline_proofs ----------------------------
(***************************************************************************)
(* Proofs about Pipeline, for any targets, backends and number of runs.    *)
(***************************************************************************)
EXTENDS Pipeline, SequenceTheorems, TLAPS

-----------------------------------------------------------------------------
(* Names *)

\* A concatenation, given its elements.
LEMMA Concatenation ==
    ASSUME NEW S, NEW s \in Seq(S), NEW t \in Seq(S), NEW u \in Seq(S),
           Len(u) = Len(s) + Len(t),
           \A i \in 1 .. Len(s) : u[i] = s[i],
           \A i \in 1 .. Len(t) : u[Len(s) + i] = t[i]
    PROVE  s \o t = u
<1>1. s \o t \in Seq(S) /\ Len(s \o t) = Len(s) + Len(t)
      BY ConcatProperties
<1>2. ASSUME NEW i \in 1 .. Len(s) + Len(t) PROVE (s \o t)[i] = u[i]
  <2>1. CASE i <= Len(s)
        BY <2>1, ConcatProperties
  <2>2. CASE ~(i <= Len(s))
    <3>1. i - Len(s) \in 1 .. Len(t) /\ Len(s) + (i - Len(s)) = i
          BY <2>2
    <3>2. (s \o t)[i] = t[i - Len(s)]
          BY <2>2, ConcatProperties
    <3>3. QED BY <3>1, <3>2
  <2>3. QED BY <2>1, <2>2
<1>3. QED BY <1>1, <1>2, SeqEqual

\* The concatenations that names are made by.
LEMMA Words22 ==
    ASSUME NEW v, NEW w, NEW x, NEW y
    PROVE  <<v, w>> \o <<x, y>> = <<v, w, x, y>>
<1> DEFINE S == {v, w, x, y}
           s == <<v, w>>
           t == <<x, y>>
           u == <<v, w, x, y>>
<1>1. s \in Seq(S) /\ t \in Seq(S) /\ u \in Seq(S)
      OBVIOUS
<1>2. Len(s) = 2 /\ Len(t) = 2 /\ Len(u) = 4
      OBVIOUS
<1>3. \A i \in 1 .. 2 : u[i] = s[i]
      OBVIOUS
<1>4. \A i \in 1 .. 2 : u[2 + i] = t[i]
      OBVIOUS
<1> HIDE DEF S, s, t, u
<1>5. /\ Len(u) = Len(s) + Len(t)
      /\ \A i \in 1 .. Len(s) : u[i] = s[i]
      /\ \A i \in 1 .. Len(t) : u[Len(s) + i] = t[i]
      BY <1>2, <1>3, <1>4
<1>6. s \o t = u
      BY <1>1, <1>5, Concatenation, Zenon
<1>7. QED BY <1>6 DEF s, t, u

LEMMA Words32 ==
    ASSUME NEW v, NEW w, NEW x, NEW y, NEW z
    PROVE  <<v, w, x>> \o <<y, z>> = <<v, w, x, y, z>>
<1> DEFINE S == {v, w, x, y, z}
           s == <<v, w, x>>
           t == <<y, z>>
           u == <<v, w, x, y, z>>
<1>1. s \in Seq(S) /\ t \in Seq(S) /\ u \in Seq(S)
      OBVIOUS
<1>2. Len(s) = 3 /\ Len(t) = 2 /\ Len(u) = 5
      OBVIOUS
<1>3. \A i \in 1 .. 3 : u[i] = s[i]
      OBVIOUS
<1>4. \A i \in 1 .. 2 : u[3 + i] = t[i]
      OBVIOUS
<1> HIDE DEF S, s, t, u
<1>5. /\ Len(u) = Len(s) + Len(t)
      /\ \A i \in 1 .. Len(s) : u[i] = s[i]
      /\ \A i \in 1 .. Len(t) : u[Len(s) + i] = t[i]
      BY <1>2, <1>3, <1>4
<1>6. s \o t = u
      BY <1>1, <1>5, Concatenation, Zenon
<1>7. QED BY <1>6 DEF s, t, u

LEMMA Words23 ==
    ASSUME NEW v, NEW w, NEW x, NEW y, NEW z
    PROVE  <<v, w>> \o <<x, y, z>> = <<v, w, x, y, z>>
<1> DEFINE S == {v, w, x, y, z}
           s == <<v, w>>
           t == <<x, y, z>>
           u == <<v, w, x, y, z>>
<1>1. s \in Seq(S) /\ t \in Seq(S) /\ u \in Seq(S)
      OBVIOUS
<1>2. Len(s) = 2 /\ Len(t) = 3 /\ Len(u) = 5
      OBVIOUS
<1>3. \A i \in 1 .. 2 : u[i] = s[i]
      OBVIOUS
<1>4. \A i \in 1 .. 3 : u[2 + i] = t[i]
      OBVIOUS
<1> HIDE DEF S, s, t, u
<1>5. /\ Len(u) = Len(s) + Len(t)
      /\ \A i \in 1 .. Len(s) : u[i] = s[i]
      /\ \A i \in 1 .. Len(t) : u[Len(s) + i] = t[i]
      BY <1>2, <1>3, <1>4
<1>6. s \o t = u
      BY <1>1, <1>5, Concatenation, Zenon
<1>7. QED BY <1>6 DEF s, t, u

LEMMA Words24 ==
    ASSUME NEW u, NEW v, NEW w, NEW x, NEW y, NEW z
    PROVE  <<u, v>> \o <<w, x, y, z>> = <<u, v, w, x, y, z>>
<1> DEFINE S == {u, v, w, x, y, z}
           s == <<u, v>>
           t == <<w, x, y, z>>
           r == <<u, v, w, x, y, z>>
<1>1. s \in Seq(S) /\ t \in Seq(S) /\ r \in Seq(S)
      OBVIOUS
<1>2. Len(s) = 2 /\ Len(t) = 4 /\ Len(r) = 6
      OBVIOUS
<1>3. \A i \in 1 .. 2 : r[i] = s[i]
      OBVIOUS
<1>4. \A i \in 1 .. 4 : r[2 + i] = t[i]
      OBVIOUS
<1> HIDE DEF S, s, t, r
<1>5. /\ Len(r) = Len(s) + Len(t)
      /\ \A i \in 1 .. Len(s) : r[i] = s[i]
      /\ \A i \in 1 .. Len(t) : r[Len(s) + i] = t[i]
      BY <1>2, <1>3, <1>4
<1>6. s \o t = r
      BY <1>1, <1>5, Concatenation, Zenon
<1>7. QED BY <1>6 DEF s, t, r

\* The names, written out: the four programs mean the same files.
LEMMA NamesWrittenOut ==
    ASSUME NEW b \in Backend, NEW t \in Target
    PROVE  /\ LogOf(b, t) = TeeFile(b, t)
           /\ SummaryOf(b, t) = SortFile(b, t)
<1>1. LogOf(b, t) = TeeFile(b, t)
      BY Words22 DEF LogOf, TeeFile, LOG_FILE, Operation
<1>2. SummaryOf(b, t) = SortFile(b, t)
  <2>1. <<"summaries", "prove", "summary">> \o <<b[1], t>>
            = <<"summaries", "prove", "summary", b[1], t>>
        BY Words32
  <2>2. <<"summaries", "summary">> \o <<b[1], t>>
            = <<"summaries", "summary", b[1], t>>
        BY Words22
  <2>3. QED BY <2>1, <2>2, Zenon DEF SummaryOf, SortFile, OUTPUT_FILE, Operation
<1>3. QED BY <1>1, <1>2

\* Where sort_table.sh puts a table.
SortedPlace(b, t) ==
    IF b[2] = "prove"
    THEN <<"summaries", "sorted", "prove", "summary", b[1], t>>
    ELSE <<"summaries", "sorted", "summary", b[1], t>>

LEMMA SortedWrittenOut ==
    ASSUME NEW b \in Backend, NEW t \in Target
    PROVE  /\ Sorted(SortFile(b, t)) = SortedPlace(b, t)
           /\ SortedOf(b, t) = SortedPlace(b, t)
<1>1. CASE b[2] = "prove"
  <2> DEFINE name == <<"summaries", "prove", "summary", b[1], t>>
  <2>1. SortFile(b, t) = name
        BY <1>1 DEF SortFile
  <2>2. /\ Head(name) = "summaries"
        /\ Tail(name) = <<"prove", "summary", b[1], t>>
        OBVIOUS
  <2>3. <<"summaries", "sorted">> \o <<"prove", "summary", b[1], t>>
            = <<"summaries", "sorted", "prove", "summary", b[1], t>>
        BY Words24
  <2>4. Sorted(name) = <<"summaries", "sorted", "prove", "summary", b[1], t>>
        BY <2>2, <2>3 DEF Sorted
  <2>5. QED BY <1>1, <2>1, <2>4, NamesWrittenOut DEF SortedOf, SortedPlace
<1>2. CASE b[2] # "prove"
  <2> DEFINE name == <<"summaries", "summary", b[1], t>>
  <2>1. SortFile(b, t) = name
        BY <1>2 DEF SortFile
  <2>2. /\ Head(name) = "summaries"
        /\ Tail(name) = <<"summary", b[1], t>>
        OBVIOUS
  <2>3. <<"summaries", "sorted">> \o <<"summary", b[1], t>>
            = <<"summaries", "sorted", "summary", b[1], t>>
        BY Words23
  <2>4. Sorted(name) = <<"summaries", "sorted", "summary", b[1], t>>
        BY <2>2, <2>3 DEF Sorted
  <2>5. QED BY <1>2, <2>1, <2>4, NamesWrittenOut DEF SortedOf, SortedPlace
<1>3. QED BY <1>1, <1>2

\* The sorted tables of two targets, backends or modes are two files.
LEMMA SortedApart ==
    ASSUME NEW b \in Backend, NEW c \in Backend, NEW t \in Target,
           NEW u \in Target, SortedPlace(b, t) = SortedPlace(c, u)
    PROVE  b = c /\ t = u
<1>1. /\ b = <<b[1], b[2]>> /\ b[2] \in {"execute", "prove"}
      /\ c = <<c[1], c[2]>> /\ c[2] \in {"execute", "prove"}
      BY BackendAssumption
<1>2. b[2] = c[2] /\ b[1] = c[1] /\ t = u
  <2> DEFINE long(x, y) ==
                 <<"summaries", "sorted", "prove", "summary", x, y>>
             short(x, y) == <<"summaries", "sorted", "summary", x, y>>
  <2>1. \A x, y, z, w : long(x, y) # short(z, w)
        OBVIOUS
  <2>2. \A x, y, z, w : long(x, y) = long(z, w) => x = z /\ y = w
        OBVIOUS
  <2>3. \A x, y, z, w : short(x, y) = short(z, w) => x = z /\ y = w
        OBVIOUS
  <2>4. /\ SortedPlace(b, t) = IF b[2] = "prove" THEN long(b[1], t)
                                                 ELSE short(b[1], t)
        /\ SortedPlace(c, u) = IF c[2] = "prove" THEN long(c[1], u)
                                                 ELSE short(c[1], u)
        BY DEF SortedPlace
  <2> HIDE DEF long, short
  <2>5. CASE b[2] = "prove" /\ c[2] = "prove"
    <3>1. long(b[1], t) = long(c[1], u)
          BY <2>4, <2>5
    <3>2. b[1] = c[1] /\ t = u
          BY <2>2, <3>1
    <3>3. QED BY <2>5, <3>2
  <2>6. CASE b[2] # "prove" /\ c[2] # "prove"
    <3>1. short(b[1], t) = short(c[1], u)
          BY <2>4, <2>6
    <3>2. b[1] = c[1] /\ t = u
          BY <2>3, <3>1
    <3>3. QED BY <1>1, <2>6, <3>2
  <2>7. ~(b[2] = "prove" /\ c[2] # "prove")
        BY <2>1, <2>4
  <2>8. ~(b[2] # "prove" /\ c[2] = "prove")
        BY <2>1, <2>4
  <2>9. QED BY <2>5, <2>6, <2>7, <2>8
<1>3. QED BY <1>1, <1>2

\* A sorted table is neither a log nor an unsorted table.
LEMMA SortedIsNoOther ==
    ASSUME NEW b \in Backend, NEW c \in Backend, NEW t \in Target,
           NEW u \in Target
    PROVE  SortedPlace(b, t) \notin {TeeFile(c, u), SortFile(c, u)}
<1>1. SortedPlace(b, t)[1] = "summaries" /\ SortedPlace(b, t)[2] = "sorted"
      BY DEF SortedPlace
<1>2. TeeFile(c, u)[1] = "logs"
      BY DEF TeeFile
<1>3. SortFile(c, u)[2] \in {"prove", "summary"}
      BY DEF SortFile
<1>4. QED BY <1>1, <1>2, <1>3

-----------------------------------------------------------------------------
(* Recipes and their tables *)

FilesInv ==
    /\ backend \in Backend
    /\ DOMAIN files = Names /\ files = [n \in Names |-> files[n]]

LEMMA FilesInvariance == Spec => []FilesInv
<1>1. Init => FilesInv
      BY DEF Init, FilesInv
<1>2. ASSUME FilesInv, Next
      PROVE  FilesInv'
  <2> DEFINE Kept == DOMAIN files' = Names /\ files' = [n \in Names |-> files'[n]]
  <2>1. ASSUME NEW name, NEW lines, Write(name, lines)
        PROVE  Kept
        BY <1>2, <2>1 DEF Write, FilesInv
  <2>2. files' = files => Kept
        BY <1>2 DEF FilesInv
  <2>3. CASE StartMake
        BY <1>2, <2>3 DEF StartMake, FilesInv, Names
  <2>4. CASE Kill \/ StopMake
        BY <1>2, <2>4 DEF Kill, StopMake, FilesInv, Names
  <2>5. CASE Clean
        BY <1>2, <2>5 DEF Clean, FilesInv, Names
  <2>6. ASSUME NEW t \in Target, Recipe(t) PROVE FilesInv'
    <3>1. backend' = backend
          BY <2>6 DEF Recipe, StartRecipe, RefuseRecipe, LogCase, EndHarness,
             ParseHeading, ParseRow, EndParse, SortHeading, SortRows,
             RemoveSummary
    <3>2. Kept
          BY <2>1, <2>2, <2>6 DEF Recipe, StartRecipe, RefuseRecipe, LogCase,
             EndHarness, ParseHeading, ParseRow, EndParse, SortHeading,
             SortRows, RemoveSummary
    <3>3. QED BY <1>2, <3>1, <3>2 DEF FilesInv, Names
  <2>7. QED BY <1>2, <2>3, <2>4, <2>5, <2>6 DEF Next
<1>3. FilesInv /\ UNCHANGED vars => FilesInv'
      BY DEF FilesInv, vars, Names
<1>4. QED BY <1>1, <1>2, <1>3, PTL DEF Spec

\* A recipe writes its own log, summary and sorted table, nothing else.
LEMMA StepKeepsTables ==
    ASSUME FilesInv, Next, NEW b \in Backend, NEW t \in Target,
           files'[SortedOf(b, t)] # files[SortedOf(b, t)]
    PROVE  Clean \/ (b = backend /\ pc[t] \in {"sort", "tail"})
<1> DEFINE place == SortedOf(b, t)
<1>1. place \in DOMAIN files
  <2>1. SortedOf(b, t) \in Names
    <3>1. SortedOf(b, t) \in NamesOf(b, t)
          BY DEF NamesOf
    <3>2. NamesOf(b, t) \in {NamesOf(x, y) : x \in Backend, y \in Target}
          OBVIOUS
    <3>3. QED BY <3>1, <3>2 DEF Names
  <2>2. QED BY <2>1 DEF FilesInv
<1>2. place = SortedPlace(b, t) /\ backend \in Backend
      BY SortedWrittenOut DEF FilesInv
<1>3. ASSUME NEW name, NEW lines, Write(name, lines)
      PROVE  name = place
      BY <1>1, <1>3 DEF Write
<1>4. files' # files
      OBVIOUS
<1> HIDE DEF place
<1>5. CASE StartMake \/ Kill \/ StopMake
      BY <1>4, <1>5 DEF StartMake, Kill, StopMake
<1>6. ASSUME NEW u \in Target, Recipe(u)
      PROVE  b = backend /\ t = u /\ pc[u] \in {"sort", "tail"}
  <2>1. place \notin {TeeFile(backend, u), SummaryOf(backend, u),
                      SortFile(backend, u)}
        BY <1>2, SortedIsNoOther, NamesWrittenOut
  <2>2. CASE StartRecipe(u) \/ LogCase(u)
        BY <1>3, <2>1, <2>2 DEF StartRecipe, LogCase
  <2>3. CASE ParseHeading(u) \/ ParseRow(u) \/ RemoveSummary(u)
        BY <1>3, <2>1, <2>3 DEF ParseHeading, ParseRow, RemoveSummary
  <2>4. CASE RefuseRecipe(u) \/ EndHarness(u) \/ EndParse(u)
        BY <1>4, <2>4 DEF RefuseRecipe, EndHarness, EndParse
  <2>5. CASE SortHeading(u) \/ SortRows(u)
    <3>1. place = Sorted(SortFile(backend, u))
          BY <1>3, <2>5 DEF SortHeading, SortRows
    <3>2. SortedPlace(b, t) = SortedPlace(backend, u)
          BY <1>2, <3>1, SortedWrittenOut
    <3>3. b = backend /\ t = u
          BY <1>2, <3>2, SortedApart
    <3>4. QED BY <2>5, <3>3 DEF SortHeading, SortRows
  <2>6. QED BY <1>6, <2>2, <2>3, <2>4, <2>5 DEF Recipe
<1>7. QED BY <1>5, <1>6 DEF Next

\* Whatever runs beside it or ran before, a recipe changes no table but that of
\* its own target, backend and mode: the names the four programs build
\* independently agree, and never meet.
THEOREM TablesAreKept == Spec => RecipesKeepToTheirTables
<1> DEFINE Kept ==
        \A b \in Backend, t \in Target :
            files'[SortedOf(b, t)] # files[SortedOf(b, t)] =>
                \/ Clean
                \/ b = backend /\ pc[t] \in {"sort", "tail"}
<1>1. FilesInv /\ [Next]_vars => [Kept]_vars
      BY StepKeepsTables
<1>2. QED BY <1>1, FilesInvariance, PTL DEF Spec, RecipesKeepToTheirTables
================================================================================
