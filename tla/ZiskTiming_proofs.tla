--------------------------- MODULE ZiskTiming_proofs ----------------------------
(***************************************************************************)
(* What is proved of ZiskTiming's figures, and of the sums and the flat    *)
(* sequences they are built from.                                          *)
(***************************************************************************)
EXTENDS ZiskTiming, FiniteSetTheorems, SequenceTheorems, WellFoundedInduction,
        TLAPS

-----------------------------------------------------------------------------
(* Induction over the natural numbers, from the order being well-founded:
   the set S is what holds of a number. *)

LEMMA Induction ==
    ASSUME NEW S, 0 \in S, \A n \in Nat \cap S : n + 1 \in S
    PROVE  Nat \subseteq S
<1> DEFINE R == OpToRel(<, Nat)
           M == Nat \ S
<1>1. IsWellFoundedOn(R, Nat)
  BY NatLessThanWellFounded
<1>2. ASSUME M # {} PROVE FALSE
  <2>1. PICK m \in M : \A n \in M : <<n, m>> \notin R
    <3>1. M \subseteq Nat /\ M # {}
      BY <1>2
    <3> QED
      BY <1>1, <3>1, WFMin
  <2>2. m \in Nat /\ m # 0
    OBVIOUS
  <2>3. m - 1 \in Nat
    BY <2>2
  <2>4. <<m - 1, m>> \in R
    BY <2>2, <2>3 DEF OpToRel
  <2>5. m - 1 \in S
    BY <2>1, <2>3, <2>4
  <2>6. (m - 1) + 1 \in S
    BY <2>3, <2>5
  <2>7. (m - 1) + 1 = m
    BY <2>2
  <2> QED
    BY <2>1, <2>6, <2>7
<1> QED
  BY <1>2

-----------------------------------------------------------------------------
(* Sums.  FoldFunction adds the values of f in the order CHOOSE takes them out
   of its domain. *)

Pick(s) == CHOOSE x \in s : TRUE

Summed(f, s, iter) == IF s = {} THEN 0 ELSE f[Pick(s)] + iter[s \ {Pick(s)}]

IsSum(iter, f, S) == iter = [s \in SUBSET S |-> Summed(f, s, iter)]

Only(f, s) == [x \in s |-> f[x]]

LEMMA SumIsChosen ==
    ASSUME NEW f
    PROVE  Sum(f) = (CHOOSE iter : IsSum(iter, f, DOMAIN f))[DOMAIN f]
BY DEF Sum, FoldFunction, FoldFunctionOnSet, MapThenFoldSet, IsSum, Summed, Pick

\* There is such a function: it is built one cardinality after the other.
LEMMA SumExists ==
    ASSUME NEW f, NEW S, IsFiniteSet(S)
    PROVE  \E iter : IsSum(iter, f, S)
<1> DEFINE Upto(n) == {s \in SUBSET S : Cardinality(s) <= n}
           Good == {n \in Nat : \E iter :
                        iter = [s \in Upto(n) |-> Summed(f, s, iter)]}
<1>1. \A s \in SUBSET S : IsFiniteSet(s) /\ Cardinality(s) \in Nat
  BY FS_Subset, FS_CardinalityType
<1>2. \A s \in SUBSET S : s # {} =>
          /\ Pick(s) \in s
          /\ s \ {Pick(s)} \in SUBSET S
          /\ Cardinality(s \ {Pick(s)}) = Cardinality(s) - 1
  BY <1>1, FS_RemoveElement DEF Pick
<1>3. 0 \in Good
  <2> DEFINE zero == [s \in Upto(0) |-> 0]
  <2>1. \A s \in Upto(0) : s = {}
    BY <1>1, FS_EmptySet
  <2>2. zero = [s \in Upto(0) |-> Summed(f, s, zero)]
    BY <2>1 DEF Summed
  <2> QED
    BY <2>2
<1>4. ASSUME NEW n \in Nat \cap Good PROVE n + 1 \in Good
  <2>1. PICK iter : iter = [s \in Upto(n) |-> Summed(f, s, iter)]
    OBVIOUS
  <2> DEFINE next == [s \in Upto(n + 1) |-> Summed(f, s, iter)]
  <2>2. ASSUME NEW s \in Upto(n) PROVE s \in Upto(n + 1) /\ next[s] = iter[s]
    BY <1>1, <2>1
  <2>3. ASSUME NEW s \in Upto(n + 1) PROVE Summed(f, s, iter) = Summed(f, s, next)
    <3>1. CASE s = {}
      BY <3>1 DEF Summed
    <3>2. CASE s # {}
      <4>1. s \ {Pick(s)} \in Upto(n)
        BY <1>1, <1>2, <3>2
      <4> QED
        BY <2>2, <4>1, <3>2 DEF Summed
    <3> QED
      BY <3>1, <3>2
  <2>4. next = [s \in Upto(n + 1) |-> Summed(f, s, next)]
    BY <2>3
  <2>5. \E it : it = [s \in Upto(n + 1) |-> Summed(f, s, it)]
    <3> HIDE DEF next
    <3> QED
      BY <2>4
  <2>6. n + 1 \in Nat
    OBVIOUS
  <2> HIDE DEF Upto
  <2> QED
    BY <2>5, <2>6
<1>5. Cardinality(S) \in Good
  <2>1. Nat \subseteq Good
    <3> HIDE DEF Good
    <3> QED
      BY <1>3, <1>4, Induction
  <2> QED
    BY <1>1, <2>1
<1>6. Upto(Cardinality(S)) = SUBSET S
  BY <1>1, FS_Subset
<1> QED
  BY <1>5, <1>6 DEF IsSum

LEMMA SumDef ==
    ASSUME NEW f, IsFiniteSet(DOMAIN f)
    PROVE  \E iter : IsSum(iter, f, DOMAIN f) /\ Sum(f) = iter[DOMAIN f]
<1> DEFINE iter == CHOOSE it : IsSum(it, f, DOMAIN f)
<1>1. \E it : IsSum(it, f, DOMAIN f)
  BY SumExists
<1>2. IsSum(iter, f, DOMAIN f)
  BY <1>1
<1>3. Sum(f) = iter[DOMAIN f]
  BY SumIsChosen
<1> QED
  BY <1>2, <1>3

\* Only the values on s count for the sum over s.
LEMMA SumIsLocal ==
    ASSUME NEW f, NEW S, NEW it, IsSum(it, f, S),
           NEW g, NEW T, NEW jt, IsSum(jt, g, T),
           NEW U, IsFiniteSet(U), U \subseteq S, U \subseteq T,
           \A x \in U : f[x] = g[x]
    PROVE  it[U] = jt[U]
<1> DEFINE Good == {n \in Nat : \A s \in SUBSET U :
                                    Cardinality(s) = n => it[s] = jt[s]}
<1>1. \A s \in SUBSET U : /\ it[s] = Summed(f, s, it)
                          /\ jt[s] = Summed(g, s, jt)
  BY DEF IsSum
<1>2. \A s \in SUBSET U : IsFiniteSet(s) /\ Cardinality(s) \in Nat
  BY FS_Subset, FS_CardinalityType
<1>3. \A s \in SUBSET U : s # {} =>
          /\ Pick(s) \in U
          /\ s \ {Pick(s)} \in SUBSET U
          /\ Cardinality(s \ {Pick(s)}) = Cardinality(s) - 1
  BY <1>2, FS_RemoveElement DEF Pick
<1>4. 0 \in Good
  <2>1. \A s \in SUBSET U : Cardinality(s) = 0 => s = {}
    BY <1>2, FS_EmptySet
  <2> QED
    BY <2>1, <1>1 DEF Summed
<1>5. ASSUME NEW n \in Nat \cap Good PROVE n + 1 \in Good
  <2>1. ASSUME NEW s \in SUBSET U, Cardinality(s) = n + 1 PROVE it[s] = jt[s]
    <3>1. s # {}
      BY <1>2, <2>1, FS_EmptySet
    <3>2. it[s \ {Pick(s)}] = jt[s \ {Pick(s)}]
      BY <1>3, <2>1, <3>1
    <3> QED
      BY <1>1, <1>3, <3>1, <3>2 DEF Summed
  <2> QED
    BY <2>1
<1>6. Cardinality(U) \in Good
  <2>1. Nat \subseteq Good
    <3> HIDE DEF Good
    <3> QED
      BY <1>4, <1>5, Induction
  <2> QED
    BY <1>2, <2>1
<1> QED
  BY <1>6

LEMMA SumEmpty == ASSUME NEW f, DOMAIN f = {} PROVE Sum(f) = 0
<1>1. IsFiniteSet(DOMAIN f)
  BY FS_EmptySet
<1>2. PICK iter : IsSum(iter, f, DOMAIN f) /\ Sum(f) = iter[DOMAIN f]
  BY <1>1, SumDef
<1> QED
  BY <1>2 DEF IsSum, Summed

LEMMA SumOfOnly ==
    ASSUME NEW f, NEW S, IsFiniteSet(S), NEW it, IsSum(it, f, S),
           NEW s \in SUBSET S
    PROVE  Sum(Only(f, s)) = it[s]
<1>1. IsFiniteSet(s) /\ DOMAIN Only(f, s) = s
  BY FS_Subset DEF Only
<1>2. PICK jt : IsSum(jt, Only(f, s), s) /\ Sum(Only(f, s)) = jt[s]
  BY <1>1, SumDef
<1>3. \A x \in s : Only(f, s)[x] = f[x]
  BY DEF Only
<1> HIDE DEF IsSum
<1>4. jt[s] = it[s]
  BY <1>1, <1>2, <1>3, SumIsLocal
<1> QED
  BY <1>2, <1>4

\* Sums of integers, taking out the element CHOOSE gives first.
LEMMA SumPick ==
    ASSUME NEW S, IsFiniteSet(S), NEW f \in [S -> Int], NEW s \in SUBSET S, s # {}
    PROVE  /\ Pick(s) \in s
           /\ Sum(Only(f, s)) = f[Pick(s)] + Sum(Only(f, s \ {Pick(s)}))
<1>1. PICK it : IsSum(it, f, S)
  BY SumExists
<1>2. Pick(s) \in s /\ s \ {Pick(s)} \in SUBSET S
  BY DEF Pick
<1>3. it[s] = f[Pick(s)] + it[s \ {Pick(s)}]
  BY <1>1, <1>2 DEF IsSum, Summed
<1>4. /\ Sum(Only(f, s)) = it[s]
      /\ Sum(Only(f, s \ {Pick(s)})) = it[s \ {Pick(s)}]
  BY <1>1, <1>2, SumOfOnly
<1> QED
  BY <1>2, <1>3, <1>4

LEMMA SumInt ==
    ASSUME NEW S, IsFiniteSet(S), NEW f \in [S -> Int]
    PROVE  \A s \in SUBSET S : Sum(Only(f, s)) \in Int
<1> DEFINE Good == {n \in Nat : \A s \in SUBSET S :
                        Cardinality(s) = n => Sum(Only(f, s)) \in Int}
<1>1. \A s \in SUBSET S : IsFiniteSet(s) /\ Cardinality(s) \in Nat
  BY FS_Subset, FS_CardinalityType
<1>2. 0 \in Good
  <2>1. \A s \in SUBSET S : Cardinality(s) = 0 => s = {}
    BY <1>1, FS_EmptySet
  <2>2. Sum(Only(f, {})) = 0
    BY SumEmpty DEF Only
  <2> QED
    BY <2>1, <2>2
<1>3. ASSUME NEW n \in Nat \cap Good PROVE n + 1 \in Good
  <2>1. ASSUME NEW s \in SUBSET S, Cardinality(s) = n + 1
        PROVE  Sum(Only(f, s)) \in Int
    <3>1. s # {}
      BY <2>1, FS_EmptySet
    <3>2. /\ Pick(s) \in s
          /\ Sum(Only(f, s)) = f[Pick(s)] + Sum(Only(f, s \ {Pick(s)}))
      BY <3>1, SumPick
    <3>3. Cardinality(s \ {Pick(s)}) = n
      BY <1>1, <2>1, <3>2, FS_RemoveElement
    <3>4. Sum(Only(f, s \ {Pick(s)})) \in Int
      BY <3>3
    <3> QED
      BY <3>2, <3>4
  <2> QED
    BY <2>1
<1>4. Nat \subseteq Good
  <2> HIDE DEF Good
  <2> QED
    BY <1>2, <1>3, Induction
<1> QED
  BY <1>1, <1>4

\* Any element can be taken out first.
LEMMA SumTake ==
    ASSUME NEW S, IsFiniteSet(S), NEW f \in [S -> Int]
    PROVE  \A s \in SUBSET S : \A x \in s :
               Sum(Only(f, s)) = f[x] + Sum(Only(f, s \ {x}))
<1> DEFINE Takes(s, x) == Sum(Only(f, s)) = f[x] + Sum(Only(f, s \ {x}))
           Good == {n \in Nat : \A s \in SUBSET S :
                        Cardinality(s) = n => \A x \in s : Takes(s, x)}
<1>1. \A s \in SUBSET S : IsFiniteSet(s) /\ Cardinality(s) \in Nat
  BY FS_Subset, FS_CardinalityType
<1>2. 0 \in Good
  <2>1. \A s \in SUBSET S : Cardinality(s) = 0 => s = {}
    BY <1>1, FS_EmptySet
  <2> QED
    BY <2>1
<1>3. ASSUME NEW n \in Nat \cap Good PROVE n + 1 \in Good
  <2>1. ASSUME NEW s \in SUBSET S, Cardinality(s) = n + 1, NEW x \in s
        PROVE  Takes(s, x)
    <3> DEFINE c == Pick(s)
    <3>1. c \in s /\ Takes(s, c)
      BY SumPick
    <3>2. CASE x = c
      BY <3>1, <3>2
    <3>3. CASE x # c
      <4>1. /\ Cardinality(s \ {c}) = n
            /\ Cardinality(s \ {x}) = n
        BY <1>1, <2>1, <3>1, FS_RemoveElement
      <4>2. Takes(s \ {c}, x) /\ Takes(s \ {x}, c)
        BY <4>1, <3>1, <3>3
      <4>3. (s \ {c}) \ {x} = (s \ {x}) \ {c}
        OBVIOUS
      <4>4. /\ Sum(Only(f, s \ {c})) \in Int
            /\ Sum(Only(f, s \ {x})) \in Int
            /\ Sum(Only(f, (s \ {c}) \ {x})) \in Int
        BY SumInt
      <4>5. f[x] \in Int /\ f[c] \in Int
        BY <3>1
      <4> HIDE DEF c
      <4> QED
        BY <3>1, <4>2, <4>3, <4>4, <4>5
    <3> QED
      BY <3>2, <3>3
  <2> HIDE DEF Takes
  <2> QED
    BY <2>1
<1>4. Nat \subseteq Good
  <2> HIDE DEF Good
  <2> QED
    BY <1>2, <1>3, Induction
<1> QED
  BY <1>1, <1>4

\* A linear bound on every value is one on the sum.
LEMMA SumLinear ==
    ASSUME NEW S, IsFiniteSet(S), NEW f \in [S -> Int], NEW g \in [S -> Int],
           NEW a \in Int, NEW b \in Int, NEW c \in Int,
           \A x \in S : a * f[x] <= b * g[x] + c
    PROVE  /\ Sum(f) \in Int /\ Sum(g) \in Int
           /\ a * Sum(f) <= b * Sum(g) + c * Cardinality(S)
<1> DEFINE Bound(s) == a * Sum(Only(f, s)) <= b * Sum(Only(g, s))
                                              + c * Cardinality(s)
           Good == {n \in Nat : \A s \in SUBSET S : Cardinality(s) = n => Bound(s)}
<1>1. \A s \in SUBSET S : IsFiniteSet(s) /\ Cardinality(s) \in Nat
  BY FS_Subset, FS_CardinalityType
<1>2. 0 \in Good
  <2>1. \A s \in SUBSET S : Cardinality(s) = 0 => s = {}
    BY <1>1, FS_EmptySet
  <2>2. Sum(Only(f, {})) = 0 /\ Sum(Only(g, {})) = 0
    BY SumEmpty DEF Only
  <2>3. Bound({})
    BY <2>2, FS_EmptySet
  <2> HIDE DEF Bound
  <2> QED
    BY <2>1, <2>3
<1>3. ASSUME NEW n \in Nat \cap Good PROVE n + 1 \in Good
  <2>1. ASSUME NEW s \in SUBSET S, Cardinality(s) = n + 1 PROVE Bound(s)
    <3>1. s # {}
      BY <1>1, <2>1, FS_EmptySet
    <3>2. PICK x : x \in s
      BY <3>1
    <3> DEFINE t == s \ {x}
    <3>3. Cardinality(t) = n
      <4>1. IsFiniteSet(s)
        BY <1>1
      <4>2. Cardinality(s \ {x}) = Cardinality(s) - 1
        BY <3>2, <4>1, FS_RemoveElement
      <4> QED
        BY <2>1, <4>2
    <3>4. Bound(t)
      BY <3>3
    <3>5. /\ Sum(Only(f, s)) = f[x] + Sum(Only(f, t))
          /\ Sum(Only(g, s)) = g[x] + Sum(Only(g, t))
      BY <3>2, SumTake
    <3>6. Sum(Only(f, t)) \in Int /\ Sum(Only(g, t)) \in Int
      BY SumInt
    <3>7. /\ f[x] \in Int /\ g[x] \in Int
          /\ a * f[x] <= b * g[x] + c
      BY <3>2
    <3> DEFINE F == Sum(Only(f, t))  G == Sum(Only(g, t))
    <3>8. a * (f[x] + F) <= b * (g[x] + G) + c * (n + 1)
      <4>1. ASSUME NEW i \in Int, NEW j \in Int, NEW k \in Int, NEW l \in Int,
                   a * i <= b * j + c, a * k <= b * l + c * n
            PROVE  a * (i + k) <= b * (j + l) + c * (n + 1)
        <5>1. /\ a * (i + k) = a * i + a * k
              /\ b * (j + l) = b * j + b * l
              /\ c * (n + 1) = c * n + c
          OBVIOUS
        <5>2. /\ a * i \in Int /\ a * k \in Int /\ b * j \in Int
              /\ b * l \in Int /\ c * n \in Int
          OBVIOUS
        <5> QED
          BY <4>1, <5>1, <5>2
      <4>2. a * F <= b * G + c * n
        BY <3>3, <3>4
      <4> HIDE DEF F, G
      <4>3. F \in Int /\ G \in Int
        BY <3>6 DEF F, G
      <4> QED
        BY <3>7, <4>1, <4>2, <4>3
    <3> QED
      BY <2>1, <3>5, <3>8
  <2> HIDE DEF Bound
  <2> QED
    BY <2>1
<1>4. Nat \subseteq Good
  <2> HIDE DEF Good
  <2> QED
    BY <1>2, <1>3, Induction
<1>5. Bound(S)
  BY <1>1, <1>4
<1>6. Only(f, S) = f /\ Only(g, S) = g
  BY DEF Only
<1>7. Sum(Only(f, S)) \in Int /\ Sum(Only(g, S)) \in Int
  BY SumInt
<1> QED
  BY <1>5, <1>6, <1>7

LEMMA SumNat ==
    ASSUME NEW S, IsFiniteSet(S), NEW f \in [S -> Nat]
    PROVE  Sum(f) \in Nat /\ \A x \in S : f[x] <= Sum(f)
<1> DEFINE zero == [x \in S |-> 0]
<1>1. ASSUME NEW T \in SUBSET S
      PROVE  Sum(Only(f, T)) \in Int /\ 0 <= Sum(Only(f, T))
  <2>1. IsFiniteSet(T)
    BY FS_Subset
  <2> DEFINE h == Only(f, T)
             z == [x \in T |-> 0]
  <2>2. h \in [T -> Int] /\ z \in [T -> Int]
    BY DEF Only
  <2>3. \A x \in T : 0 * z[x] <= 1 * h[x] + 0
    BY DEF Only
  <2> HIDE DEF h, z
  <2>4. Cardinality(T) \in Nat
    BY <2>1, FS_CardinalityType
  <2>5. 0 \in Int /\ 1 \in Int
    OBVIOUS
  <2>6. /\ Sum(z) \in Int /\ Sum(h) \in Int
        /\ 0 * Sum(z) <= 1 * Sum(h) + 0 * Cardinality(T)
    BY <2>1, <2>2, <2>3, <2>5, SumLinear, ZenonT(60)
  <2> QED
    BY <2>4, <2>6 DEF h
<1>2. Only(f, S) = f
  BY DEF Only
<1>3. ASSUME NEW x \in S PROVE f[x] <= Sum(f)
  <2>1. f \in [S -> Int]
    OBVIOUS
  <2>2. Sum(Only(f, S)) = f[x] + Sum(Only(f, S \ {x}))
    BY <2>1, SumTake
  <2> QED
    BY <1>1, <1>2, <2>2
<1> QED
  BY <1>1, <1>2, <1>3

-----------------------------------------------------------------------------
(* Shares *)

\* A share falls short of its exact value by less than one.
LEMMA ShareBounds ==
    ASSUME NEW total \in Nat, NEW part \in Nat, NEW whole \in Nat, whole > 0
    PROVE  /\ Share(total, part, whole) \in Nat
           /\ whole * Share(total, part, whole) <= total * part
           /\ total * part <= whole * Share(total, part, whole) + (whole - 1)
<1>1. ASSUME NEW n \in Nat
      PROVE  /\ n \div whole \in Nat
             /\ whole * (n \div whole) <= n
             /\ n <= whole * (n \div whole) + (whole - 1)
  OBVIOUS
<1>2. total * part \in Nat
  OBVIOUS
<1> QED
  BY <1>1, <1>2 DEF Share

\* A common factor of the part and the whole does not change a share.
LEMMA ShareOfCopies ==
    ASSUME NEW total \in Nat, NEW part \in Nat, NEW whole \in Nat, whole > 0,
           NEW m \in Nat, m > 0
    PROVE  Share(total, m * part, m * whole) = Share(total, part, whole)
<1> DEFINE q == (total * part) \div whole
           n == total * part
<1>1. n \in Nat /\ q \in Nat /\ whole * q <= n /\ n < whole * q + whole
  BY ShareBounds DEF Share
<1>2. total * (m * part) = m * n
  OBVIOUS
<1>3. (m * n) \div (m * whole) = q
  <2> HIDE DEF n, q
  <2>1. m * whole \in Nat /\ m * whole > 0 /\ m * n \in Nat
    BY <1>1
  <2>2. m * (whole * q) <= m * n /\ m * n < m * (whole * q + whole)
    BY <1>1
  <2>3. (m * whole) * q <= m * n /\ m * n < (m * whole) * q + m * whole
    BY <1>1, <2>2
  <2> QED
    BY <1>1, <2>1, <2>3
<1> QED
  BY <1>2, <1>3 DEF Share

-----------------------------------------------------------------------------
(* The weight of a stage: what its steps count for in a log. *)

Points(l, stage) == IF l.tag = "OPERATION_PROGRESS" /\ l.key = stage
                    THEN 1 + Intensity(l.val) ELSE 0

Weight(log, stage) ==
    Sum([i \in LinesOf(log, "OPERATION_PROGRESS", stage) |->
            1 + Intensity(log[i].val)])

LEMMA IntensityType == \A step : Intensity(step) \in Nat
BY DEF Intensity

LEMMA LinesOfFinite ==
    ASSUME NEW X, NEW log \in Seq(X), NEW tag, NEW stage
    PROVE  IsFiniteSet(LinesOf(log, tag, stage))
<1>1. DOMAIN log = 1 .. Len(log) /\ Len(log) \in Nat
  OBVIOUS
<1>2. IsFiniteSet(1 .. Len(log))
  BY <1>1, FS_Interval
<1> QED
  BY <1>1, <1>2, FS_Subset DEF LinesOf

\* A stage with a step in the log weighs something.
LEMMA WeightType ==
    ASSUME NEW X, NEW log \in Seq(X), NEW stage
    PROVE  /\ Weight(log, stage) \in Nat
           /\ LinesOf(log, "OPERATION_PROGRESS", stage) # {}
                => Weight(log, stage) >= 1
<1> DEFINE at == LinesOf(log, "OPERATION_PROGRESS", stage)
           f == [i \in at |-> 1 + Intensity(log[i].val)]
<1>1. IsFiniteSet(at)
  BY LinesOfFinite
<1>2. f \in [at -> Nat] /\ \A i \in at : f[i] >= 1
  <2>1. \A i \in at : /\ 1 + Intensity(log[i].val) \in Nat
                      /\ 1 + Intensity(log[i].val) >= 1
    BY IntensityType
  <2> QED
    BY <2>1
<1> HIDE DEF at, f
<1>3. Sum(f) \in Nat /\ \A i \in at : f[i] <= Sum(f)
  BY <1>1, <1>2, SumNat
<1>4. at # {} => Sum(f) >= 1
  BY <1>2, <1>3
<1> QED
  BY <1>3, <1>4 DEF Weight, at, f

LEMMA WeightAppend ==
    ASSUME NEW X, NEW log \in Seq(X), NEW l \in X, NEW stage
    PROVE  Weight(Append(log, l), stage) = Weight(log, stage) + Points(l, stage)
<1> DEFINE n == Len(log) + 1
           next == Append(log, l)
           at == LinesOf(log, "OPERATION_PROGRESS", stage)
           nat == LinesOf(next, "OPERATION_PROGRESS", stage)
           f == [i \in nat |-> 1 + Intensity(next[i].val)]
           progress == l.tag = "OPERATION_PROGRESS" /\ l.key = stage
<1>1. /\ next \in Seq(X) /\ Len(next) = n /\ n \in Nat /\ n >= 1
      /\ DOMAIN log = 1 .. n - 1 /\ DOMAIN next = 1 .. n
      /\ next[n] = l /\ \A i \in 1 .. n - 1 : next[i] = log[i]
  OBVIOUS
<1>2. at \subseteq 1 .. n - 1 /\ nat \subseteq 1 .. n
  BY <1>1 DEF LinesOf
<1>3. nat = IF progress THEN at \cup {n} ELSE at
  <2> HIDE DEF n, next
  <2>1. \A i \in 1 .. n - 1 : i \in nat <=> i \in at
    BY <1>1 DEF LinesOf
  <2>2. n \in nat <=> progress
    BY <1>1 DEF LinesOf
  <2>3. n \notin 1 .. n - 1 /\ 1 .. n = (1 .. n - 1) \cup {n}
    BY <1>1
  <2> HIDE DEF at, nat, progress
  <2>4. \A i \in nat : i = n \/ i \in 1 .. n - 1
    BY <1>2, <2>3
  <2>5. \A i \in at : i \in 1 .. n - 1
    BY <1>2
  <2>6. CASE progress
    <3>1. nat = at \cup {n}
      BY <2>1, <2>2, <2>4, <2>5, <2>6
    <3> QED
      BY <3>1, <2>6
  <2>7. CASE ~progress
    <3>1. nat = at
      BY <2>1, <2>2, <2>4, <2>5, <2>7
    <3> QED
      BY <3>1, <2>7
  <2> QED
    BY <2>6, <2>7
<1>4. IsFiniteSet(nat)
  BY <1>1, LinesOfFinite
<1>5. f \in [nat -> Int]
  <2>1. \A i \in nat : 1 + Intensity(next[i].val) \in Int
    BY IntensityType
  <2> QED
    BY <2>1
<1>6. n \notin at
  BY <1>1, <1>2
<1>7. Only(f, at) = [i \in at |-> 1 + Intensity(log[i].val)]
  <2>1. \A i \in at : i \in nat /\ next[i] = log[i]
    BY <1>1, <1>2, <1>3
  <2>2. \A i \in at : f[i] = 1 + Intensity(log[i].val)
    BY <2>1
  <2> HIDE DEF f
  <2> QED
    BY <2>2 DEF Only
<1>8. Sum(Only(f, at)) = Weight(log, stage)
  BY <1>7 DEF Weight
<1>9. Weight(log, stage) \in Nat
  BY WeightType
<1>10. Only(f, nat) = f
  BY DEF Only
<1>11. Weight(next, stage) = Sum(f)
  BY DEF Weight
<1>12. CASE progress
  <2>1. n \in nat /\ nat \ {n} = at
    BY <1>3, <1>6, <1>12
  <2>2. f[n] = Points(l, stage)
    BY <1>1, <2>1, <1>12 DEF Points
  <2> HIDE DEF f, nat, at, n
  <2>3. Sum(Only(f, nat)) = f[n] + Sum(Only(f, at))
    BY <1>4, <1>5, <2>1, SumTake
  <2>4. f[n] \in Int
    BY <1>5, <2>1
  <2> QED
    BY <1>8, <1>9, <1>10, <1>11, <2>2, <2>3, <2>4
<1>13. CASE ~progress
  <2>1. nat = at
    BY <1>3, <1>13
  <2>2. Points(l, stage) = 0
    BY <1>13 DEF Points
  <2> HIDE DEF f, nat, at
  <2> QED
    BY <1>8, <1>9, <1>10, <1>11, <2>1, <2>2
<1> QED
  BY <1>12, <1>13

\* The weights of two logs, one after the other, add up.
LEMMA WeightConcat ==
    ASSUME NEW X, NEW a \in Seq(X), NEW b \in Seq(X), NEW stage
    PROVE  Weight(a \o b, stage) = Weight(a, stage) + Weight(b, stage)
<1> DEFINE upto(n) == SubSeq(b, 1, n)
           Good == {n \in Nat : n <= Len(b) =>
                        Weight(a \o upto(n), stage)
                            = Weight(a, stage) + Weight(upto(n), stage)}
<1>1. 0 \in Good
  <2>1. upto(0) = <<>> /\ a \o upto(0) = a
    OBVIOUS
  <2>2. Weight(<<>>, stage) = 0
    <3> DEFINE f == [i \in LinesOf(<<>>, "OPERATION_PROGRESS", stage) |->
                        1 + Intensity((<<>>)[i].val)]
    <3>1. DOMAIN f = {}
      BY DEF LinesOf
    <3> QED
      BY <3>1, SumEmpty DEF Weight
  <2>3. Weight(a, stage) \in Nat
    BY WeightType
  <2> HIDE DEF upto
  <2>4. /\ Weight(upto(0), stage) = 0
        /\ Weight(a \o upto(0), stage) = Weight(a, stage)
    BY <2>1, <2>2, Zenon
  <2> QED
    BY <2>3, <2>4
<1>2. ASSUME NEW n \in Nat \cap Good PROVE n + 1 \in Good
  <2> SUFFICES ASSUME n + 1 <= Len(b)
               PROVE  Weight(a \o upto(n + 1), stage)
                          = Weight(a, stage) + Weight(upto(n + 1), stage)
    OBVIOUS
  <2> DEFINE l == b[n + 1]
  <2>1. /\ l \in X /\ upto(n) \in Seq(X) /\ a \o upto(n) \in Seq(X)
        /\ upto(n + 1) = Append(upto(n), l)
    OBVIOUS
  <2>2. a \o Append(upto(n), l) = Append(a \o upto(n), l)
    BY <2>1
  <2>3. /\ Weight(Append(upto(n), l), stage)
               = Weight(upto(n), stage) + Points(l, stage)
        /\ Weight(Append(a \o upto(n), l), stage)
               = Weight(a \o upto(n), stage) + Points(l, stage)
    BY <2>1, WeightAppend
  <2>4. Weight(a \o upto(n), stage) = Weight(a, stage) + Weight(upto(n), stage)
    OBVIOUS
  <2> HIDE DEF upto, l, Good
  <2>5. Weight(a, stage) \in Nat /\ Weight(upto(n), stage) \in Nat
    BY <2>1, WeightType
  <2>6. Points(l, stage) \in Nat
    BY IntensityType DEF Points
  <2>7. Weight(a \o upto(n + 1), stage)
            = Weight(a \o upto(n), stage) + Points(l, stage)
    BY <2>1, <2>2, <2>3
  <2>8. Weight(upto(n + 1), stage) = Weight(upto(n), stage) + Points(l, stage)
    BY <2>1, <2>3
  <2> QED
    BY <2>4, <2>5, <2>6, <2>7, <2>8
<1>3. Len(b) \in Good
  <2>1. Nat \subseteq Good
    <3> HIDE DEF Good
    <3> QED
      BY <1>1, <1>2, Induction
  <2>2. Len(b) \in Nat
    OBVIOUS
  <2> QED
    BY <2>1, <2>2
<1>4. upto(Len(b)) = b
  OBVIOUS
<1>5. Len(b) \in Nat /\ Len(b) <= Len(b)
  OBVIOUS
<1> HIDE DEF upto
<1> QED
  BY <1>3, <1>4, <1>5

-----------------------------------------------------------------------------
(* What --shell-vars prints *)

LEMMA StagesFinite == IsFiniteSet(Stages) /\ Cardinality(Stages) = 5
<1> DEFINE A == {"deserialize-pre-state-ssz"}
           B == A \cup {"deserialize-operation-input"}
           C == B \cup {"process-operation"}
           D == C \cup {"merkleize-operation"}
<1>1. IsFiniteSet(A) /\ Cardinality(A) = 1
  BY FS_Singleton
<1>2. IsFiniteSet(B) /\ Cardinality(B) = 2
  BY <1>1, FS_AddElement
<1>3. IsFiniteSet(C) /\ Cardinality(C) = 3
  BY <1>2, FS_AddElement
<1>4. IsFiniteSet(D) /\ Cardinality(D) = 4
  BY <1>3, FS_AddElement
<1>5. Stages = D \cup {"output-state-root"} /\ "output-state-root" \notin D
  BY DEF Stages
<1> HIDE DEF D
<1> QED
  BY <1>4, <1>5, FS_AddElement

LEMMA ComplexityIs ==
    ASSUME NEW X, NEW log \in Seq(X), NEW stage
    PROVE  LET complexity == calculate_intelligent_complexity(log, stage)
           IN  /\ complexity \in Nat /\ complexity >= 1
               /\ Weight(log, stage) >= 1 => complexity = Weight(log, stage)
<1>1. calculate_intelligent_complexity(log, stage) = Max({1, Weight(log, stage)})
  BY DEF calculate_intelligent_complexity, Weight
<1>2. Weight(log, stage) \in Nat
  BY WeightType
<1>3. ASSUME NEW n \in Nat
      PROVE  /\ Max({1, n}) \in {1, n}
             /\ Max({1, n}) >= 1 /\ Max({1, n}) >= n
  <2>1. \E x \in {1, n} : \A y \in {1, n} : x >= y
    <3>1. CASE n >= 1
      BY <3>1
    <3>2. CASE n = 0
      BY <3>2
    <3> QED
      BY <3>1, <3>2
  <2> QED
    BY <2>1 DEF Max
<1> QED
  BY <1>1, <1>2, <1>3

\* ShellVars with its definitions unfolded once.
LEMMA ShellVarsIs ==
    ASSUME NEW X, NEW log \in Seq(X)
    PROVE  \E complexity \in [Operations(log) -> Nat] :
               /\ \A op \in Operations(log) :
                      /\ complexity[op]
                             = calculate_intelligent_complexity(log, op)
                      /\ complexity[op] >= 1
                      /\ complexity[op] <= Sum(complexity)
               /\ Sum(complexity) \in Nat
               /\ ShellVars(log) =
                    [stage \in Stages |->
                      IF stage \in Operations(log)
                      THEN [cycles |-> Share(ExecutionStats(log).steps,
                                             complexity[stage], Sum(complexity)),
                            time   |-> Share(ExecutionStats(log).duration,
                                             complexity[stage], Sum(complexity))]
                      ELSE [cycles |-> 0, time |-> 0]]
<1> DEFINE complexity == [op \in Operations(log) |->
                              calculate_intelligent_complexity(log, op)]
<1>1. \A op \in Operations(log) :
          /\ calculate_intelligent_complexity(log, op) \in Nat
          /\ calculate_intelligent_complexity(log, op) >= 1
  BY ComplexityIs
<1>2. complexity \in [Operations(log) -> Nat]
  BY <1>1
<1>3. IsFiniteSet(Operations(log))
  BY StagesFinite, FS_Subset DEF Operations
<1>4. Sum(complexity) \in Nat
      /\ \A op \in Operations(log) : complexity[op] <= Sum(complexity)
  <2> HIDE DEF complexity
  <2> QED
    BY <1>2, <1>3, SumNat
<1>5. \A op \in Operations(log) :
          complexity[op] = calculate_intelligent_complexity(log, op)
  OBVIOUS
<1>6. ShellVars(log) =
        [stage \in Stages |->
          IF stage \in Operations(log)
          THEN [cycles |-> Share(ExecutionStats(log).steps,
                                 complexity[stage], Sum(complexity)),
                time   |-> Share(ExecutionStats(log).duration,
                                 complexity[stage], Sum(complexity))]
          ELSE [cycles |-> 0, time |-> 0]]
  BY DEF ShellVars
<1> HIDE DEF complexity
<1> QED
  BY <1>1, <1>2, <1>4, <1>5, <1>6

Stats == [steps : Nat, duration : Nat]

LEMMA ShellVarsType ==
    ASSUME NEW X, NEW log \in Seq(X), ExecutionStats(log) \in Stats
    PROVE  ShellVars(log) \in [Stages -> [cycles : Nat, time : Nat]]
<1>1. PICK complexity \in [Operations(log) -> Nat] :
          /\ \A op \in Operations(log) :
                 complexity[op] >= 1 /\ complexity[op] <= Sum(complexity)
          /\ Sum(complexity) \in Nat
          /\ ShellVars(log) =
               [stage \in Stages |->
                 IF stage \in Operations(log)
                 THEN [cycles |-> Share(ExecutionStats(log).steps,
                                        complexity[stage], Sum(complexity)),
                       time   |-> Share(ExecutionStats(log).duration,
                                        complexity[stage], Sum(complexity))]
                 ELSE [cycles |-> 0, time |-> 0]]
  BY ShellVarsIs
<1>2. \A op \in Operations(log) :
          /\ Share(ExecutionStats(log).steps, complexity[op], Sum(complexity)) \in Nat
          /\ Share(ExecutionStats(log).duration, complexity[op], Sum(complexity)) \in Nat
  <2>1. ExecutionStats(log).steps \in Nat /\ ExecutionStats(log).duration \in Nat
    BY DEF Stats
  <2>2. ASSUME NEW op \in Operations(log)
        PROVE  complexity[op] \in Nat /\ Sum(complexity) > 0
    BY <1>1
  <2> QED
    BY <1>1, <2>1, <2>2, ShareBounds
<1> QED
  BY <1>1, <1>2

\* Truncating each share of a log that has every stage loses less than a cycle
\* each.
THEOREM ShellVarsAddUp ==
    ASSUME NEW X, NEW log \in Seq(X), ExecutionStats(log) \in Stats,
           Operations(log) = Stages
    PROVE  LET estimated == Sum([s \in Stages |-> ShellVars(log)[s].cycles])
           IN  /\ estimated <= ExecutionStats(log).steps
               /\ ExecutionStats(log).steps < estimated + Cardinality(Stages)
<1>1. PICK complexity \in [Stages -> Nat] :
          /\ \A op \in Stages :
                 complexity[op] >= 1 /\ complexity[op] <= Sum(complexity)
          /\ Sum(complexity) \in Nat
          /\ ShellVars(log) =
               [stage \in Stages |->
                 IF stage \in Stages
                 THEN [cycles |-> Share(ExecutionStats(log).steps,
                                        complexity[stage], Sum(complexity)),
                       time   |-> Share(ExecutionStats(log).duration,
                                        complexity[stage], Sum(complexity))]
                 ELSE [cycles |-> 0, time |-> 0]]
  BY ShellVarsIs
<1> DEFINE S == ExecutionStats(log).steps
           W == Sum(complexity)
           cycles == [s \in Stages |-> ShellVars(log)[s].cycles]
<1>2. S \in Nat /\ W \in Nat /\ W >= 1
  <2>1. "process-operation" \in Stages
    BY DEF Stages
  <2> QED
    BY <1>1, <2>1 DEF Stats
<1>3. \A s \in Stages : cycles[s] = Share(S, complexity[s], W)
  BY <1>1
<1>4. \A s \in Stages : /\ cycles[s] \in Nat
                        /\ W * cycles[s] <= S * complexity[s]
                        /\ S * complexity[s] <= W * cycles[s] + (W - 1)
  <2>1. \A s \in Stages : complexity[s] \in Nat
    OBVIOUS
  <2> HIDE DEF cycles, S, W
  <2>2. W > 0
    BY <1>2
  <2>3. ASSUME NEW s \in Stages
        PROVE  /\ cycles[s] \in Nat
               /\ W * cycles[s] <= S * complexity[s]
               /\ S * complexity[s] <= W * cycles[s] + (W - 1)
    <3>1. /\ Share(S, complexity[s], W) \in Nat
          /\ W * Share(S, complexity[s], W) <= S * complexity[s]
          /\ S * complexity[s] <= W * Share(S, complexity[s], W) + (W - 1)
      BY <1>2, <2>1, <2>2, ShareBounds
    <3> QED
      BY <1>3, <3>1, Zenon
  <2> QED
    BY <2>3
<1>5. cycles \in [Stages -> Int] /\ complexity \in [Stages -> Int]
  BY <1>1, <1>4
<1> HIDE DEF cycles, S
<1>6. /\ Sum(cycles) \in Int
      /\ W * Sum(cycles) <= S * W + 0 * Cardinality(Stages)
  <2>1. \A s \in Stages : W * cycles[s] <= S * complexity[s] + 0
    BY <1>1, <1>2, <1>4
  <2>2. W \in Int /\ S \in Int /\ 0 \in Int
    BY <1>2
  <2> QED
    BY <1>5, <2>1, <2>2, StagesFinite, SumLinear, ZenonT(60)
<1>7. S * W <= W * Sum(cycles) + (W - 1) * Cardinality(Stages)
  <2>1. W \in Int /\ S \in Int /\ W - 1 \in Int
    BY <1>2
  <2> QED
    BY <1>4, <1>5, <2>1, StagesFinite, SumLinear, ZenonT(60)
<1>8. ASSUME NEW e \in Int, NEW s \in Nat, NEW w \in Nat, w >= 1,
             w * e <= s * w, s * w <= w * e + (w - 1) * 5
      PROVE  e <= s /\ s < e + 5
  <2>1. CASE e >= s + 1
    <3>1. w * e >= w * (s + 1)
      BY <1>8, <2>1
    <3> QED
      BY <1>8, <3>1
  <2>2. CASE s >= e + 5
    <3>1. w * s >= w * (e + 5)
      BY <1>8, <2>2
    <3> QED
      BY <1>8, <3>1
  <2> QED
    BY <1>8, <2>1, <2>2
<1>9. W * Sum(cycles) <= S * W /\ S * W <= W * Sum(cycles) + (W - 1) * 5
  <2>1. 0 * Cardinality(Stages) = 0 /\ Cardinality(Stages) = 5
    BY StagesFinite
  <2>2. S * W + 0 = S * W
    BY <1>2
  <2> QED
    BY <1>6, <1>7, <2>1, <2>2
<1>10. Sum(cycles) <= S /\ S < Sum(cycles) + 5
  <2> HIDE DEF W
  <2> QED
    BY <1>2, <1>6, <1>8, <1>9
<1> QED
  BY <1>10, StagesFinite DEF cycles, S

\* The estimate is a function of the proportions only: a log with m times the
\* weights of another and the same statistics gives the same.
THEOREM ShellVarsOfCopies ==
    ASSUME NEW X, NEW log \in Seq(X), NEW Y, NEW one \in Seq(Y),
           NEW m \in Nat, m >= 1,
           Operations(log) = Stages, Operations(one) = Stages,
           ExecutionStats(log) = ExecutionStats(one),
           ExecutionStats(one) \in Stats,
           \A s \in Stages : /\ Weight(one, s) >= 1
                             /\ Weight(log, s) = m * Weight(one, s)
    PROVE  ShellVars(log) = ShellVars(one)
<1> DEFINE ca == [op \in Stages |-> calculate_intelligent_complexity(log, op)]
           cb == [op \in Stages |-> calculate_intelligent_complexity(one, op)]
<1>1. \A s \in Stages : Weight(one, s) \in Nat /\ Weight(log, s) \in Nat
  BY WeightType
<1>2. \A s \in Stages : Weight(log, s) >= 1
  <2>1. ASSUME NEW w \in Nat, w >= 1 PROVE m * w >= 1
    BY <2>1
  <2> QED
    BY <1>1, <2>1
<1>3. \A s \in Stages : ca[s] = Weight(log, s) /\ cb[s] = Weight(one, s)
  BY <1>2, ComplexityIs
<1>4. \A s \in Stages : ca[s] = m * cb[s] /\ cb[s] \in Nat /\ cb[s] >= 1
  BY <1>1, <1>3
<1>5. ca \in [Stages -> Nat] /\ cb \in [Stages -> Nat]
  <2>1. \A s \in Stages : m * cb[s] \in Nat
    BY <1>4
  <2>2. \A s \in Stages : ca[s] \in Nat
    BY <1>4, <2>1
  <2> QED
    BY <1>4, <2>2
<1>6. ShellVars(log) =
        [s \in Stages |->
           [cycles |-> Share(ExecutionStats(one).steps, ca[s], Sum(ca)),
            time   |-> Share(ExecutionStats(one).duration, ca[s], Sum(ca))]]
  BY DEF ShellVars
<1>7. ShellVars(one) =
        [s \in Stages |->
           [cycles |-> Share(ExecutionStats(one).steps, cb[s], Sum(cb)),
            time   |-> Share(ExecutionStats(one).duration, cb[s], Sum(cb))]]
  BY DEF ShellVars
<1> HIDE DEF ca, cb
<1>8. Sum(cb) \in Nat /\ Sum(cb) >= 1 /\ Sum(ca) \in Nat
  <2>1. "process-operation" \in Stages
    BY DEF Stages
  <2>2. /\ Sum(cb) \in Nat /\ \A s \in Stages : cb[s] <= Sum(cb)
        /\ Sum(ca) \in Nat
    BY <1>5, StagesFinite, SumNat
  <2> QED
    BY <1>4, <2>1, <2>2
<1>9. Sum(ca) = m * Sum(cb)
  <2>1. ca \in [Stages -> Int] /\ cb \in [Stages -> Int]
    BY <1>5
  <2>2. \A s \in Stages : /\ 1 * ca[s] <= m * cb[s] + 0
                          /\ m * cb[s] <= 1 * ca[s] + 0
    BY <1>4
  <2>3. 0 \in Int /\ 1 \in Int /\ m \in Int
    OBVIOUS
  <2>4. /\ 1 * Sum(ca) <= m * Sum(cb) + 0 * Cardinality(Stages)
        /\ m * Sum(cb) <= 1 * Sum(ca) + 0 * Cardinality(Stages)
    BY <2>1, <2>2, <2>3, StagesFinite, SumLinear, ZenonT(60)
  <2>5. m * Sum(cb) \in Nat
    BY <1>8
  <2> QED
    BY <1>8, <2>4, <2>5, StagesFinite
<1>10. \A s \in Stages : \A total \in Nat :
           Share(total, ca[s], Sum(ca)) = Share(total, cb[s], Sum(cb))
  BY <1>4, <1>8, <1>9, ShareOfCopies
<1>11. ExecutionStats(one).steps \in Nat /\ ExecutionStats(one).duration \in Nat
  BY DEF Stats
<1> QED
  BY <1>6, <1>7, <1>10, <1>11

-----------------------------------------------------------------------------
(* Flat sequences *)

In(x, s) == \E i \in DOMAIN s : s[i] = x

LEMMA ConcatElements ==
    ASSUME NEW X, NEW a \in Seq(X), NEW b \in Seq(X), NEW x
    PROVE  In(x, a \o b) <=> In(x, a) \/ In(x, b)
<1>1. /\ DOMAIN a = 1 .. Len(a) /\ DOMAIN b = 1 .. Len(b)
      /\ DOMAIN (a \o b) = 1 .. Len(a) + Len(b)
      /\ Len(a) \in Nat /\ Len(b) \in Nat
      /\ \A j \in 1 .. Len(a) : (a \o b)[j] = a[j]
      /\ \A j \in 1 .. Len(b) : (a \o b)[Len(a) + j] = b[j]
  OBVIOUS
<1>2. ASSUME In(x, a) PROVE In(x, a \o b)
  BY <1>1, <1>2 DEF In
<1>3. ASSUME In(x, b) PROVE In(x, a \o b)
  <2>1. PICK j \in 1 .. Len(b) : b[j] = x
    BY <1>1, <1>3 DEF In
  <2>2. Len(a) + j \in 1 .. Len(a) + Len(b) /\ (a \o b)[Len(a) + j] = x
    BY <1>1, <2>1
  <2> QED
    BY <1>1, <2>2 DEF In
<1>4. ASSUME In(x, a \o b), ~In(x, a) PROVE In(x, b)
  <2>1. PICK j \in 1 .. Len(a) + Len(b) : (a \o b)[j] = x
    BY <1>1, <1>4 DEF In
  <2>2. j \notin 1 .. Len(a)
    BY <1>1, <1>4, <2>1 DEF In
  <2>3. j - Len(a) \in 1 .. Len(b) /\ Len(a) + (j - Len(a)) = j
    BY <1>1, <2>1, <2>2
  <2>4. b[j - Len(a)] = x
    BY <1>1, <2>1, <2>3
  <2> QED
    BY <1>1, <2>3, <2>4 DEF In
<1> QED
  BY <1>2, <1>3, <1>4

IsFlat(f, s, n) == f = [i \in 1 .. n |-> IF i = 1 THEN s[i] ELSE f[i - 1] \o s[i]]

LEMMA FlatExists ==
    ASSUME NEW s
    PROVE  \A n \in Nat : \E f : IsFlat(f, s, n)
<1> DEFINE Good == {n \in Nat : \E f : IsFlat(f, s, n)}
<1>1. 0 \in Good
  <2> DEFINE f == [i \in 1 .. 0 |-> <<>>]
  <2>1. IsFlat(f, s, 0)
    BY DEF IsFlat
  <2> QED
    BY <2>1
<1>2. ASSUME NEW n \in Nat \cap Good PROVE n + 1 \in Good
  <2>1. PICK f : IsFlat(f, s, n)
    OBVIOUS
  <2> DEFINE g == [i \in 1 .. n + 1 |-> IF i = 1 THEN s[i] ELSE f[i - 1] \o s[i]]
  <2>2. \A i \in 1 .. n : i \in 1 .. n + 1 /\ g[i] = f[i]
    <3>1. \A i \in 1 .. n : i \in 1 .. n + 1
      OBVIOUS
    <3>2. \A i \in 1 .. n : f[i] = IF i = 1 THEN s[i] ELSE f[i - 1] \o s[i]
      BY <2>1 DEF IsFlat
    <3> QED
      BY <3>1, <3>2
  <2>3. \A i \in 1 .. n + 1 : i # 1 => i - 1 \in 1 .. n
    OBVIOUS
  <2>4. \A i \in 1 .. n + 1 : i # 1 => g[i - 1] = f[i - 1]
    BY <2>2, <2>3
  <2>5. g = [i \in 1 .. n + 1 |-> IF i = 1 THEN s[i] ELSE g[i - 1] \o s[i]]
    BY <2>4
  <2>6. IsFlat(g, s, n + 1)
    BY <2>5 DEF IsFlat
  <2>7. n + 1 \in Nat
    OBVIOUS
  <2> HIDE DEF g
  <2> QED
    BY <2>6, <2>7
<1>3. Nat \subseteq Good
  <2> HIDE DEF Good
  <2> QED
    BY <1>1, <1>2, Induction
<1> QED
  BY <1>3

\* FlattenSeq loses no element and adds none.
LEMMA FlattenElements ==
    ASSUME NEW X, NEW s \in Seq(Seq(X)), s # <<>>
    PROVE  /\ FlattenSeq(s) \in Seq(X)
           /\ \A x : In(x, FlattenSeq(s)) <=> \E k \in DOMAIN s : In(x, s[k])
<1> DEFINE n == Len(s)
           f == CHOOSE h : IsFlat(h, s, n)
<1>1. n \in Nat /\ n >= 1 /\ DOMAIN s = 1 .. n /\ \A k \in 1 .. n : s[k] \in Seq(X)
  OBVIOUS
<1>2. IsFlat(f, s, n)
  BY <1>1, FlatExists
<1>3. FlattenSeq(s) = f[n]
  BY <1>1 DEF FlattenSeq, IsFlat
<1> HIDE DEF f, n
<1>4. \A i \in 1 .. n : f[i] = IF i = 1 THEN s[i] ELSE f[i - 1] \o s[i]
  BY <1>2 DEF IsFlat
<1> DEFINE Holds(i) == /\ f[i] \in Seq(X)
                       /\ \A x : In(x, f[i]) <=> \E k \in 1 .. i : In(x, s[k])
           Good == {m \in Nat : m + 1 <= n => Holds(m + 1)}
<1>5. 0 \in Good
  <2>1. f[1] = s[1]
    BY <1>1, <1>4
  <2>2. 1 .. 1 = {1} /\ 1 \in 1 .. n
    BY <1>1
  <2>3. Holds(1)
    BY <1>1, <2>1, <2>2
  <2>4. 0 + 1 = 1 /\ 0 \in Nat
    OBVIOUS
  <2> HIDE DEF Holds
  <2> QED
    BY <2>3, <2>4
<1>6. ASSUME NEW m \in Nat \cap Good PROVE m + 1 \in Good
  <2> DEFINE i == m + 1
  <2> SUFFICES ASSUME i + 1 <= n PROVE Holds(i + 1)
    OBVIOUS
  <2>1. i \in 1 .. n /\ i + 1 \in 1 .. n /\ i + 1 # 1 /\ (i + 1) - 1 = i
    BY <1>1
  <2>2. Holds(i)
    BY <2>1
  <2>3. f[i + 1] = f[i] \o s[i + 1]
    BY <1>4, <2>1
  <2>4. f[i] \in Seq(X) /\ s[i + 1] \in Seq(X)
    BY <1>1, <2>1, <2>2
  <2>5. f[i + 1] \in Seq(X)
    BY <2>3, <2>4
  <2>6. 1 .. i + 1 = (1 .. i) \cup {i + 1}
    BY <2>1
  <2>7. ASSUME NEW x
        PROVE  In(x, f[i + 1]) <=> \E k \in 1 .. i + 1 : In(x, s[k])
    <3>1. In(x, f[i + 1]) <=> In(x, f[i]) \/ In(x, s[i + 1])
      BY <2>3, <2>4, ConcatElements
    <3>2. In(x, f[i]) <=> \E k \in 1 .. i : In(x, s[k])
      BY <2>2
    <3> HIDE DEF i
    <3> QED
      BY <2>6, <3>1, <3>2
  <2> QED
    BY <2>5, <2>7
<1>7. Nat \subseteq Good
  <2> HIDE DEF Good
  <2> QED
    BY <1>5, <1>6, Induction
<1>8. Holds(n)
  <2>1. n - 1 \in Nat /\ (n - 1) + 1 = n /\ n <= n
    BY <1>1
  <2>2. n - 1 \in Good
    BY <1>7, <2>1
  <2> HIDE DEF Holds
  <2> QED
    BY <2>1, <2>2
<1> QED
  BY <1>1, <1>3, <1>8

-----------------------------------------------------------------------------
(* What the guest prints *)

Steps == {"parsing_ssz_bytes", "creating_beacon_state", "state_created",
          "extracting_input_bytes", "deserializing_operation", "operation_parsed",
          "initializing_state_transition", "processing_operation",
          "state_transition_complete", "initializing_tree_hash",
          "computing_merkle_root", "merkle_root_computed",
          "preparing_hex_output", "hex_output_complete"}

GuestLine == [tag : {"read-inputs:start", "TIMING_START", "OPERATION_PROGRESS",
                     "TIMING_END"},
              key : Stages \cup {""}, val : Steps \cup {""}]

HasStage(s, stage) ==
    /\ In(Line("TIMING_START", stage, ""), s)
    /\ In(Line("TIMING_END", stage, ""), s)
    /\ \E step : In(Line("OPERATION_PROGRESS", stage, step), s)

LEMMA StageLinesAre ==
    ASSUME NEW stage \in Stages
    PROVE  StageLines(stage) \in Seq(GuestLine) /\ HasStage(StageLines(stage), stage)
<1>0. ASSUME NEW X, NEW x \in X PROVE <<x>> \in Seq(X)
  OBVIOUS
<1> DEFINE steps == ProgressSteps(stage)
           a == <<Line("TIMING_START", stage, "")>>
           b == [i \in DOMAIN steps |-> Line("OPERATION_PROGRESS", stage, steps[i])]
           c == <<Line("TIMING_END", stage, "")>>
<1>1. steps \in Seq(Steps) /\ Len(steps) >= 1
  <2>1. CASE stage = "deserialize-pre-state-ssz"
    BY <2>1 DEF ProgressSteps, Steps
  <2>2. CASE stage = "deserialize-operation-input"
    BY <2>2 DEF ProgressSteps, Steps
  <2>3. CASE stage = "process-operation"
    BY <2>3 DEF ProgressSteps, Steps
  <2>4. CASE stage = "merkleize-operation"
    BY <2>4 DEF ProgressSteps, Steps
  <2>5. CASE stage = "output-state-root"
    BY <2>5 DEF ProgressSteps, Steps
  <2> QED
    BY <2>1, <2>2, <2>3, <2>4, <2>5 DEF Stages
<1> HIDE DEF steps
<1>2. DOMAIN steps = 1 .. Len(steps) /\ Len(steps) \in Nat /\ 1 \in DOMAIN steps
  BY <1>1
<1>3. \A i \in DOMAIN steps :
          Line("OPERATION_PROGRESS", stage, steps[i]) \in GuestLine
  <2>1. ASSUME NEW i \in DOMAIN steps PROVE steps[i] \in Steps
    BY <1>1
  <2> QED
    BY <2>1 DEF Line, GuestLine
<1>4. b \in Seq(GuestLine)
  BY <1>2, <1>3
<1>5. a \in Seq(GuestLine) /\ c \in Seq(GuestLine)
  <2>1. /\ Line("TIMING_START", stage, "") \in GuestLine
        /\ Line("TIMING_END", stage, "") \in GuestLine
    BY DEF Line, GuestLine
  <2> QED
    BY <1>0, <2>1, Zenon
<1>6. /\ In(Line("TIMING_START", stage, ""), a)
      /\ In(Line("TIMING_END", stage, ""), c)
      /\ In(Line("OPERATION_PROGRESS", stage, steps[1]), b)
  <2>1. b[1] = Line("OPERATION_PROGRESS", stage, steps[1]) /\ 1 \in DOMAIN b
    BY <1>2
  <2>2. /\ 1 \in DOMAIN a /\ a[1] = Line("TIMING_START", stage, "")
        /\ 1 \in DOMAIN c /\ c[1] = Line("TIMING_END", stage, "")
    OBVIOUS
  <2> HIDE DEF a, b, c
  <2> QED
    BY <2>1, <2>2 DEF In
<1>7. StageLines(stage) = a \o b \o c
  BY DEF StageLines, steps
<1> HIDE DEF a, b, c
<1>8. a \o b \in Seq(GuestLine) /\ (a \o b) \o c \in Seq(GuestLine)
  BY <1>4, <1>5
<1>9. \A x : In(x, a) \/ In(x, b) \/ In(x, c) => In(x, (a \o b) \o c)
  BY <1>4, <1>5, <1>8, ConcatElements
<1> QED
  BY <1>6, <1>7, <1>8, <1>9 DEF HasStage

LEMMA GuestLinesAre ==
    /\ GuestLines \in Seq(GuestLine)
    /\ In(Line("read-inputs:start", "", ""), GuestLines)
    /\ \A stage \in Stages : HasStage(GuestLines, stage)
<1> DEFINE head == <<Line("read-inputs:start", "", "")>>
           parts == [i \in DOMAIN StageOrder |-> StageLines(StageOrder[i])]
<1>1. /\ DOMAIN StageOrder = 1 .. 5
      /\ \A i \in 1 .. 5 : StageOrder[i] \in Stages
      /\ \A stage \in Stages : \E i \in 1 .. 5 : StageOrder[i] = stage
  BY DEF StageOrder, Stages
<1>2. parts \in Seq(Seq(GuestLine)) /\ parts # <<>>
  <2>1. \A i \in 1 .. 5 : StageLines(StageOrder[i]) \in Seq(GuestLine)
    BY <1>1, StageLinesAre
  <2>2. parts = [i \in 1 .. 5 |-> StageLines(StageOrder[i])]
    BY <1>1
  <2>3. parts \in Seq(Seq(GuestLine))
    BY <2>1, <2>2
  <2>4. 1 \in DOMAIN parts
    BY <2>2
  <2> QED
    BY <2>3, <2>4
<1>3. /\ FlattenSeq(parts) \in Seq(GuestLine)
      /\ \A x : In(x, FlattenSeq(parts)) <=> \E k \in DOMAIN parts : In(x, parts[k])
  <2> HIDE DEF parts
  <2> QED
    BY <1>2, FlattenElements
<1>4. head \in Seq(GuestLine) /\ In(Line("read-inputs:start", "", ""), head)
  <2>1. Line("read-inputs:start", "", "") \in GuestLine
    BY DEF Line, GuestLine
  <2>2. 1 \in DOMAIN head /\ head[1] = Line("read-inputs:start", "", "")
    OBVIOUS
  <2>3. head \in Seq(GuestLine)
    <3>1. ASSUME NEW X, NEW x \in X PROVE <<x>> \in Seq(X)
      OBVIOUS
    <3> QED
      BY <2>1, <3>1, Zenon
  <2> HIDE DEF head
  <2> QED
    BY <2>2, <2>3 DEF In
<1>5. GuestLines = head \o FlattenSeq(parts)
  BY DEF GuestLines
<1>6. ASSUME NEW stage \in Stages PROVE HasStage(FlattenSeq(parts), stage)
  <2>1. PICK i \in 1 .. 5 : StageOrder[i] = stage
    BY <1>1
  <2>2. i \in DOMAIN parts /\ parts[i] = StageLines(stage)
    BY <1>1, <2>1
  <2>3. HasStage(parts[i], stage)
    BY <2>2, StageLinesAre
  <2> HIDE DEF parts
  <2> QED
    BY <1>3, <2>2, <2>3 DEF HasStage
<1> HIDE DEF head, parts
<1>7. \A x : In(x, GuestLines) <=> In(x, head) \/ In(x, FlattenSeq(parts))
  BY <1>3, <1>4, <1>5, ConcatElements
<1>8. GuestLines \in Seq(GuestLine)
  <2>1. \A a, b \in Seq(GuestLine) : a \o b \in Seq(GuestLine)
    OBVIOUS
  <2> QED
    BY <1>3, <1>4, <1>5, <2>1
<1> QED
  BY <1>4, <1>6, <1>7, <1>8 DEF HasStage
================================================================================
