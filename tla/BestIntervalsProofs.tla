------------------------- MODULE BestIntervalsProofs -------------------------
(***************************************************************************)
(* Proofs about BestIntervals.  Errors are counted stretch by stretch; a   *)
(* cell of the table is the least over its options because every labelling *)
(* ends in a last run of ones; IInv carries the table through the fill and *)
(* the errors of the intervals found through the extraction.               *)
(***************************************************************************)
EXTENDS BestIntervals, NumberLemmas, FiniteSetTheorems, TLAPS

----------------------------------------------------------------------------
(***************************************************************************)
(* Counting the points of a stretch that are in a set.                     *)
(***************************************************************************)

\* How many of the points a + 1 .. b are in S.
Count(S, a, b) == Cardinality({p \in a + 1 .. b : p \in S})

\* A count is a number, at most the length of the stretch.
LEMMA CountType ==
  ASSUME NEW S, NEW a \in Nat, NEW b \in Nat, a <= b
  PROVE  Count(S, a, b) \in Nat /\ Count(S, a, b) <= b - a
<1>. DEFINE I == a + 1 .. b
            T == {p \in I : p \in S}
<1>1. IsFiniteSet(I) /\ Cardinality(I) = b - a
  <2>1. a + 1 \in Int /\ b \in Int  OBVIOUS
  <2>2. IsFiniteSet(I) /\ Cardinality(I) = IF a + 1 > b THEN 0 ELSE b - (a + 1) + 1
    BY <2>1, FS_Interval
  <2>. QED  BY <2>2
<1>2. T \in SUBSET I  OBVIOUS
<1>3. IsFiniteSet(T) /\ Cardinality(T) <= Cardinality(I)
  BY <1>1, <1>2, FS_Subset
<1>4. Cardinality(T) \in Nat
  BY <1>3, FS_CardinalityType
<1>. QED  BY <1>1, <1>3, <1>4 DEF Count

\* The points of a stretch that are in a set are finitely many.
LEMMA CountFinite ==
  ASSUME NEW S, NEW a \in Nat, NEW b \in Nat
  PROVE  IsFiniteSet({p \in a + 1 .. b : p \in S})
<1>1. IsFiniteSet(a + 1 .. b)
  <2>1. a + 1 \in Int /\ b \in Int  OBVIOUS
  <2>. QED  BY <2>1, FS_Interval
<1>. QED  BY <1>1, FS_Subset

\* A stretch is counted in two parts.
LEMMA CountSplit ==
  ASSUME NEW S, NEW a \in Nat, NEW b \in Nat, NEW c \in Nat, a <= c, c <= b
  PROVE  Count(S, a, b) = Count(S, a, c) + Count(S, c, b)
<1>. DEFINE A == {p \in a + 1 .. c : p \in S}
            B == {p \in c + 1 .. b : p \in S}
<1>1. IsFiniteSet(A) /\ IsFiniteSet(B)
  BY CountFinite
<1>2. A \cap B = {}  OBVIOUS
<1>3. {p \in a + 1 .. b : p \in S} = A \cup B  OBVIOUS
<1>4. Cardinality(A \cup B) = Cardinality(A) + Cardinality(B) - Cardinality(A \cap B)
  <2>. HIDE DEF A, B
  <2>. QED  BY <1>1, FS_Union
<1>5. Cardinality(A) \in Nat /\ Cardinality(B) \in Nat /\ Cardinality(A \cap B) = 0
  <2>. HIDE DEF A, B
  <2>. QED  BY <1>1, <1>2, FS_CardinalityType, FS_EmptySet
<1>. QED
  <2>1. Count(S, a, b) = Cardinality(A \cup B) /\ Count(S, a, c) = Cardinality(A) /\ Count(S, c, b) = Cardinality(B)
    BY <1>3 DEF Count
  <2>. HIDE DEF A, B
  <2>. QED  BY <2>1, <1>4, <1>5

\* Two sets that agree on a stretch have the same count there.
LEMMA CountSame ==
  ASSUME NEW S, NEW T, NEW a \in Nat, NEW b \in Nat, \A p \in a + 1 .. b : p \in S <=> p \in T
  PROVE  Count(S, a, b) = Count(T, a, b)
<1>1. {p \in a + 1 .. b : p \in S} = {p \in a + 1 .. b : p \in T}  OBVIOUS
<1>. QED  BY <1>1 DEF Count

\* A set and its complement count every point once.
LEMMA CountComplement ==
  ASSUME NEW S, NEW T, NEW a \in Nat, NEW b \in Nat, a <= b, \A p \in a + 1 .. b : p \in S <=> p \notin T
  PROVE  Count(S, a, b) + Count(T, a, b) = b - a
<1>. DEFINE A == {p \in a + 1 .. b : p \in S}
            B == {p \in a + 1 .. b : p \in T}
<1>1. IsFiniteSet(A) /\ IsFiniteSet(B)
  BY CountFinite
<1>2. A \cap B = {}  OBVIOUS
<1>3. A \cup B = a + 1 .. b  OBVIOUS
<1>4. Cardinality(a + 1 .. b) = b - a
  <2>1. a + 1 \in Int /\ b \in Int  OBVIOUS
  <2>2. Cardinality(a + 1 .. b) = IF a + 1 > b THEN 0 ELSE b - (a + 1) + 1
    BY <2>1, FS_Interval
  <2>. QED  BY <2>2
<1>5. Cardinality(A \cup B) = Cardinality(A) + Cardinality(B) - Cardinality(A \cap B)
  <2>. HIDE DEF A, B
  <2>. QED  BY <1>1, FS_Union
<1>6. Cardinality(A) \in Nat /\ Cardinality(B) \in Nat /\ Cardinality(A \cap B) = 0
  <2>. HIDE DEF A, B
  <2>. QED  BY <1>1, <1>2, FS_CardinalityType, FS_EmptySet
<1>7. Count(S, a, b) = Cardinality(A) /\ Count(T, a, b) = Cardinality(B)
  BY DEF Count
<1>8. Cardinality(A \cup B) = b - a
  BY <1>3, <1>4
<1>. QED
  <2>. HIDE DEF A, B
  <2>. QED  BY <1>5, <1>6, <1>7, <1>8

\* Nothing is counted where the set has nothing.
LEMMA CountNone ==
  ASSUME NEW S, NEW a \in Nat, NEW b \in Nat, \A p \in a + 1 .. b : p \notin S
  PROVE  Count(S, a, b) = 0
<1>1. {p \in a + 1 .. b : p \in S} = {}  OBVIOUS
<1>. QED  BY <1>1, FS_EmptySet DEF Count

----------------------------------------------------------------------------
(***************************************************************************)
(* The ones among the labels.                                              *)
(***************************************************************************)

OneSet == {p \in Nat : ys[p] = 1}

\* Ones counts the points of a stretch labelled 1.
LEMMA OnesCount ==
  ASSUME NEW l \in Nat, NEW u \in Nat
  PROVE  Ones(l, u) = Count(OneSet, l, u)
<1>1. {p \in l + 1 .. u : ys[p] = 1} = {p \in l + 1 .. u : p \in OneSet}
  BY DEF OneSet
<1>. QED  BY <1>1 DEF Ones, Count

ZeroSet == {p \in Nat : ys[p] # 1}

\* What an interval covers wrongly is the zeros in it.
LEMMA ZerosCount ==
  ASSUME NEW l \in Nat, NEW u \in Nat, l <= u
  PROVE  /\ (u - l) - Ones(l, u) = Count(ZeroSet, l, u)
         /\ Ones(l, u) \in Nat /\ Count(ZeroSet, l, u) \in Nat
<1>1. Count(OneSet, l, u) + Count(ZeroSet, l, u) = u - l
  <2>1. \A p \in l + 1 .. u : p \in OneSet <=> p \notin ZeroSet
    BY DEF OneSet, ZeroSet
  <2>. QED  BY <2>1, CountComplement
<1>2. Ones(l, u) = Count(OneSet, l, u)
  BY OnesCount
<1>3. Count(OneSet, l, u) \in Nat /\ Count(ZeroSet, l, u) \in Nat
  BY CountType
<1>. QED  BY <1>1, <1>2, <1>3

\* The errors of an option, counted: what the table has, the zeros of the interval,
\* and the ones after it.
LEMMA ErrorsCount ==
  ASSUME NEW l \in Nat, NEW u \in Nat, NEW i \in Nat, NEW j \in Nat, l <= u, u <= i,
         E[<<l, j - 1>>] \in Nat
  PROVE  /\ Errors(l, u, i, j) = E[<<l, j - 1>>] + Count(ZeroSet, l, u) + Count(OneSet, u, i)
         /\ Errors(l, u, i, j) \in Nat
<1>1. Errors(l, u, i, j) = E[<<l, j - 1>>] + Ones(u, i) + (u - l) - Ones(l, u)
  BY DEF Errors
<1>2. Ones(u, i) = Count(OneSet, u, i) /\ Ones(u, i) \in Nat
  BY OnesCount, ZerosCount
<1>3. /\ (u - l) - Ones(l, u) = Count(ZeroSet, l, u)
      /\ Ones(l, u) \in Nat /\ Count(ZeroSet, l, u) \in Nat
  BY ZerosCount
<1>. QED  BY <1>1, <1>2, <1>3

----------------------------------------------------------------------------
(***************************************************************************)
(* The choice of an option.                                                *)
(***************************************************************************)

\* Python's order on triples of numbers has a first element in every set.
LEMMA FirstOption ==
  ASSUME NEW S \in SUBSET (Nat \X Nat \X Nat), S # {}
  PROVE  \E o \in S : \A p \in S \ {o} : Before(o, p)
<1>. DEFINE T1 == {o[1] : o \in S}
<1>1. PICK x1 \in T1 : \A y \in T1 : x1 <= y
  <2>1. T1 \in SUBSET Nat /\ T1 # {}  OBVIOUS
  <2>. HIDE DEF T1
  <2>. QED  BY <2>1, LeastElement
<1>. DEFINE S2 == {o \in S : o[1] = x1}
            T2 == {o[2] : o \in S2}
<1>2. PICK x2 \in T2 : \A y \in T2 : x2 <= y
  <2>1. T2 \in SUBSET Nat /\ T2 # {}  BY <1>1
  <2>. HIDE DEF T2
  <2>. QED  BY <2>1, LeastElement
<1>. DEFINE S3 == {o \in S2 : o[2] = x2}
            T3 == {o[3] : o \in S3}
<1>3. PICK x3 \in T3 : \A y \in T3 : x3 <= y
  <2>1. T3 \in SUBSET Nat /\ T3 # {}  BY <1>2
  <2>. HIDE DEF T3
  <2>. QED  BY <2>1, LeastElement
<1>4. PICK o \in S : o[1] = x1 /\ o[2] = x2 /\ o[3] = x3
  BY <1>3
<1>5. ASSUME NEW p \in S \ {o}
      PROVE  Before(o, p)
  <2>1. /\ o \in Nat \X Nat \X Nat /\ p \in Nat \X Nat \X Nat
        /\ DOMAIN o = 1 .. 3 /\ o # p
    OBVIOUS
  <2>2. x1 <= p[1]  BY <1>1
  <2>3. CASE x1 < p[1]
    <3>1. 1 \in DOMAIN o /\ o[1] < p[1] /\ \A x \in 1 .. 1 - 1 : o[x] = p[x]
      BY <2>1, <2>3, <1>4
    <3>. QED  BY <3>1 DEF Before
  <2>4. CASE x1 = p[1] /\ x2 < p[2]
    <3>1. 2 \in DOMAIN o /\ o[2] < p[2] /\ \A x \in 1 .. 2 - 1 : o[x] = p[x]
      BY <2>1, <2>4, <1>4
    <3>. QED  BY <3>1 DEF Before
  <2>5. x1 = p[1] => x2 <= p[2]
    BY <1>2
  <2>6. CASE x1 = p[1] /\ x2 = p[2]
    <3>1. x3 <= p[3]  BY <1>3, <2>6
    <3>2. x3 # p[3]  BY <2>1, <2>6, <1>4
    <3>3. 3 \in DOMAIN o /\ o[3] < p[3] /\ \A x \in 1 .. 3 - 1 : o[x] = p[x]
      BY <2>1, <2>6, <1>4, <3>1, <3>2
    <3>. QED  BY <3>3 DEF Before
  <2>. QED  BY <2>1, <2>2, <2>3, <2>4, <2>5, <2>6, <1>4
<1>. QED  BY <1>5

\* What Option gives is an interval with the errors it makes, and no interval makes fewer.
LEMMA OptionLeast ==
  ASSUME NEW i \in Nat, NEW j \in Nat, \A l \in 0 .. i : E[<<l, j - 1>>] \in Nat
  PROVE  \E l, u \in 0 .. i :
           /\ l <= u /\ Option(i, j) = <<Errors(l, u, i, j), l, u>>
           /\ \A a, b \in 0 .. i : a <= b => Errors(l, u, i, j) <= Errors(a, b, i, j)
<1>. DEFINE bounds  == {b \in (0 .. i) \X (0 .. i) : b[1] <= b[2]}
            options == {<<Errors(b[1], b[2], i, j), b[1], b[2]>> : b \in bounds}
<1>1. \A b \in bounds : b[1] \in 0 .. i /\ b[2] \in 0 .. i /\ b[1] <= b[2] /\ Errors(b[1], b[2], i, j) \in Nat
  <2>1. ASSUME NEW l \in 0 .. i, NEW u \in 0 .. i, l <= u
        PROVE  Errors(l, u, i, j) \in Nat
    <3>1. E[<<l, j - 1>>] \in Nat /\ l \in Nat /\ u \in Nat /\ u <= i
      OBVIOUS
    <3>. QED  BY <2>1, <3>1, ErrorsCount
  <2>. QED  BY <2>1
<1>2. options \in SUBSET (Nat \X Nat \X Nat)
  BY <1>1
<1>3. options # {}
  <2>1. <<0, 0>> \in bounds  OBVIOUS
  <2>. QED  BY <2>1
<1>4. \E o \in options : \A p \in options \ {o} : Before(o, p)
  <2>. HIDE DEF options
  <2>. QED  BY <1>2, <1>3, FirstOption
<1>5. PICK o : o = Option(i, j)
  OBVIOUS
<1>6. o \in options /\ \A p \in options \ {o} : Before(o, p)
  <2>1. o = CHOOSE x \in options : \A p \in options \ {x} : Before(x, p)
    BY <1>5 DEF Option
  <2>. HIDE DEF options
  <2>. QED  BY <2>1, <1>4
<1>7. PICK c \in bounds : o = <<Errors(c[1], c[2], i, j), c[1], c[2]>>
  BY <1>6
<1>8. ASSUME NEW a \in 0 .. i, NEW b \in 0 .. i, a <= b
      PROVE  Errors(c[1], c[2], i, j) <= Errors(a, b, i, j)
  <2>. DEFINE p == <<Errors(a, b, i, j), a, b>>
  <2>1. p \in options
    <3>1. <<a, b>> \in bounds  BY <1>8
    <3>. QED  BY <3>1
  <2>2. /\ Errors(a, b, i, j) \in Nat /\ Errors(c[1], c[2], i, j) \in Nat
        /\ p[1] = Errors(a, b, i, j) /\ o[1] = Errors(c[1], c[2], i, j)
    <3>1. Errors(c[1], c[2], i, j) \in Nat  BY <1>1
    <3>2. <<a, b>> \in bounds  BY <1>8
    <3>3. Errors(<<a, b>>[1], <<a, b>>[2], i, j) \in Nat  BY <3>2, <1>1
    <3>4. o[1] = Errors(c[1], c[2], i, j)  BY <1>7
    <3>. QED  BY <3>1, <3>3, <3>4
  <2>3. o = p \/ Before(o, p)
    BY <2>1, <1>6
  <2>4. o[1] <= p[1]
    <3>1. CASE o = p  BY <3>1, <2>2
    <3>2. CASE Before(o, p)
      <4>1. PICK n \in DOMAIN o : o[n] < p[n] /\ \A x \in 1 .. n - 1 : o[x] = p[x]
        BY <3>2 DEF Before
      <4>2. n \in 1 .. 3  BY <1>7
      <4>3. CASE n = 1  BY <4>1, <4>3, <2>2
      <4>4. CASE n # 1
        <5>1. 1 \in 1 .. n - 1  BY <4>2, <4>4
        <5>2. o[1] = p[1]  BY <4>1, <5>1
        <5>. QED  BY <5>2, <2>2
      <4>. QED  BY <4>3, <4>4
    <3>. QED  BY <2>3, <3>1, <3>2
  <2>. QED  BY <2>2, <2>4
<1>9. c[1] \in 0 .. i /\ c[2] \in 0 .. i /\ c[1] <= c[2]
  BY <1>1
<1>. QED  BY <1>5, <1>7, <1>8, <1>9

----------------------------------------------------------------------------
(***************************************************************************)
(* Labellings: how many runs of ones they have, how many labels they get   *)
(* wrong.                                                                  *)
(***************************************************************************)

Labellings(i) == [1 .. i -> {0, 1}]
Starts(h) == {p \in DOMAIN h : h[p] = 1 /\ (p = 1 \/ h[p - 1] = 0)}
Wrong(h, i) == Cardinality({p \in 1 .. i : h[p] # ys[p]})
WrongSet(h) == {p \in Nat : h[p] # ys[p]}

\* v is the least number of errors of a labelling of the first i points with at most
\* j runs of ones.
Least(v, i, j) ==
  /\ \A h \in Labellings(i) : Runs(h) <= j => v <= Wrong(h, i)
  /\ \E h \in Labellings(i) : Runs(h) <= j /\ v = Wrong(h, i)

\* The points labelled wrong are counted as others are.
LEMMA WrongCount ==
  ASSUME NEW h, NEW i \in Nat
  PROVE  Wrong(h, i) = Count(WrongSet(h), 0, i) /\ Wrong(h, i) \in Nat
<1>1. {p \in 1 .. i : h[p] # ys[p]} = {p \in 0 + 1 .. i : p \in WrongSet(h)}
  BY DEF WrongSet
<1>2. Wrong(h, i) = Count(WrongSet(h), 0, i)
  BY <1>1 DEF Wrong, Count
<1>. QED  BY <1>2, CountType

\* Runs counts starts, of which there are finitely many.
LEMMA RunsCount ==
  ASSUME NEW i \in Nat, NEW h \in Labellings(i)
  PROVE  Runs(h) = Cardinality(Starts(h)) /\ IsFiniteSet(Starts(h)) /\ Runs(h) \in Nat
<1>1. Runs(h) = Cardinality(Starts(h))
  BY DEF Runs, Starts
<1>2. Starts(h) \in SUBSET (1 .. i)
  BY DEF Starts, Labellings
<1>3. IsFiniteSet(1 .. i)
  BY FS_Interval
<1>4. IsFiniteSet(Starts(h))
  BY <1>2, <1>3, FS_Subset
<1>. QED  BY <1>1, <1>4, FS_CardinalityType

\* The number that Least describes is the one LeastErrors chooses.
LEMMA LeastValue ==
  ASSUME NEW i \in Nat, NEW j \in Nat, NEW v \in Nat, Least(v, i, j)
  PROVE  v = LeastErrors(i, j)
<1>. DEFINE S == {Cardinality({p \in 1 .. i : h[p] # ys[p]}) : h \in {g \in [1 .. i -> {0, 1}] : Runs(g) <= j}}
<1>1. LeastErrors(i, j) = CHOOSE x \in S : \A y \in S : x <= y
  BY DEF LeastErrors, Min
<1>2. \A x \in S : \E h \in Labellings(i) : Runs(h) <= j /\ x = Wrong(h, i)
  BY DEF Labellings, Wrong
<1>3. \A h \in Labellings(i) : Runs(h) <= j => Wrong(h, i) \in S
  BY DEF Labellings, Wrong
<1>4. v \in S /\ \A y \in S : v <= y
  <2>. HIDE DEF S
  <2>. QED  BY <1>2, <1>3 DEF Least
<1>5. S \in SUBSET Nat
  <2>1. \A h : Wrong(h, i) \in Nat  BY WrongCount
  <2>. HIDE DEF S
  <2>. QED  BY <1>2, <2>1
<1>. QED
  <2>. HIDE DEF S
  <2>1. PICK x : x = CHOOSE z \in S : \A y \in S : z <= y  OBVIOUS
  <2>2. x \in S /\ \A y \in S : x <= y  BY <2>1, <1>4
  <2>3. x <= v /\ v <= x /\ x \in Nat  BY <2>2, <1>4, <1>5
  <2>. QED  BY <2>1, <2>3, <1>1

\* A labelling with a one has a run of ones.
LEMMA NoRunsNoOnes ==
  ASSUME NEW i \in Nat, NEW h \in Labellings(i), Starts(h) = {}
  PROVE  \A p \in 1 .. i : h[p] = 0
<1>. DEFINE T == {p \in 1 .. i : h[p] = 1}
<1>1. SUFFICES ASSUME T # {}  PROVE FALSE
  BY DEF Labellings
<1>2. PICK p \in T : \A q \in T : p <= q
  <2>1. T \in SUBSET Nat  OBVIOUS
  <2>. HIDE DEF T
  <2>. QED  BY <2>1, <1>1, LeastElement
<1>3. p \in Starts(h)
  <2>1. CASE p = 1  BY <2>1, <1>2 DEF Starts, Labellings
  <2>2. CASE p # 1
    <3>1. p - 1 \in 1 .. i /\ p - 1 \notin T  BY <2>2, <1>2
    <3>2. h[p - 1] = 0  BY <3>1 DEF Labellings
    <3>. QED  BY <3>2, <1>2 DEF Starts, Labellings
  <2>. QED  BY <2>1, <2>2
<1>. QED  BY <1>3

\* Labelling every point 0 gets the ones wrong.
LEMMA ZerosWrong ==
  ASSUME NEW i \in Nat, NEW h \in Labellings(i), ys \in Seq({0, 1}), i <= m,
         \A p \in 1 .. i : h[p] = 0
  PROVE  Wrong(h, i) = Ones(0, i) /\ Runs(h) = 0
<1>1. Ones(0, i) = Count(OneSet, 0, i)
  BY OnesCount
<1>2. \A p \in 0 + 1 .. i : p \in WrongSet(h) <=> p \in OneSet
  <2>1. \A p \in 1 .. i : ys[p] \in {0, 1}  BY DEF m
  <2>. QED  BY <2>1 DEF WrongSet, OneSet
<1>3. Count(WrongSet(h), 0, i) = Count(OneSet, 0, i)
  BY <1>2, CountSame
<1>4. Starts(h) = {}
  BY DEF Starts, Labellings
<1>5. Runs(h) = 0
  BY <1>4, RunsCount, FS_EmptySet
<1>. QED  BY <1>1, <1>3, <1>5, WrongCount

\* What the first column is filled with is the least that no interval makes.
LEMMA ColumnLeast ==
  ASSUME NEW i \in Nat, ys \in Seq({0, 1}), i <= m
  PROVE  Least(Ones(0, i), i, 0)
<1>1. ASSUME NEW h \in Labellings(i), Runs(h) <= 0
      PROVE  Ones(0, i) <= Wrong(h, i)
  <2>1. Runs(h) = 0  BY <1>1, RunsCount
  <2>2. Starts(h) = {}  BY <2>1, RunsCount, FS_EmptySet
  <2>3. Wrong(h, i) = Ones(0, i)
    BY <2>2, NoRunsNoOnes, ZerosWrong
  <2>. QED  BY <2>3, WrongCount
<1>2. PICK h : h = [p \in 1 .. i |-> 0]
  OBVIOUS
<1>3. h \in Labellings(i) /\ \A p \in 1 .. i : h[p] = 0
  BY <1>2 DEF Labellings
<1>4. Wrong(h, i) = Ones(0, i) /\ Runs(h) = 0
  BY <1>3, ZerosWrong
<1>. QED  BY <1>1, <1>3, <1>4 DEF Least

\* Of no points none is wrong.
LEMMA RowLeast ==
  ASSUME NEW j \in Nat, NEW v \in Nat, ys \in Seq({0, 1})
  PROVE  Least(v, 0, j) <=> v = 0
<1>1. \A h \in Labellings(0) : Wrong(h, 0) = 0 /\ Runs(h) = 0
  <2>1. SUFFICES ASSUME NEW h \in Labellings(0)  PROVE Wrong(h, 0) = 0 /\ Runs(h) = 0
    OBVIOUS
  <2>2. {p \in 1 .. 0 : h[p] # ys[p]} = {}  OBVIOUS
  <2>3. Starts(h) = {}  BY DEF Starts, Labellings
  <2>4. Wrong(h, 0) = 0  BY <2>2, FS_EmptySet DEF Wrong
  <2>5. Runs(h) = 0  BY <2>3, RunsCount, FS_EmptySet
  <2>. QED  BY <2>4, <2>5
<1>2. PICK h : h = [p \in 1 .. 0 |-> 0]
  OBVIOUS
<1>3. h \in Labellings(0)
  BY <1>2 DEF Labellings
<1>. QED  BY <1>1, <1>3 DEF Least

----------------------------------------------------------------------------
(***************************************************************************)
(* A cell of the table: the least number of errors is the least over the   *)
(* last interval.                                                          *)
(***************************************************************************)

\* A labelling gets wrong what its beginning gets wrong, and what it does after it.
LEMMA WrongPrefix ==
  ASSUME NEW i \in Nat, NEW l \in 0 .. i, NEW h \in Labellings(i), NEW g \in Labellings(l),
         \A p \in 1 .. l : g[p] = h[p]
  PROVE  Wrong(h, i) = Wrong(g, l) + Count(WrongSet(h), l, i)
<1>1. l \in Nat /\ 0 <= l /\ l <= i  OBVIOUS
<1>2. Wrong(h, i) = Count(WrongSet(h), 0, i) /\ Wrong(g, l) = Count(WrongSet(g), 0, l)
  BY <1>1, WrongCount
<1>3. Count(WrongSet(h), 0, i) = Count(WrongSet(h), 0, l) + Count(WrongSet(h), l, i)
  BY <1>1, CountSplit
<1>4. \A p \in 0 + 1 .. l : p \in WrongSet(h) <=> p \in WrongSet(g)
  BY <1>1 DEF WrongSet
<1>5. Count(WrongSet(h), 0, l) = Count(WrongSet(g), 0, l)
  BY <1>1, <1>4, CountSame
<1>. QED  BY <1>2, <1>3, <1>5

\* A labelling with ones on l + 1 .. u and zeros from there to i gets wrong there what
\* an interval there does.
LEMMA WrongInterval ==
  ASSUME NEW i \in Nat, NEW l \in 0 .. i, NEW u \in 0 .. i, l <= u, NEW h \in Labellings(i),
         ys \in Seq({0, 1}), i <= m,
         \A p \in l + 1 .. u : h[p] = 1, \A p \in u + 1 .. i : h[p] = 0
  PROVE  Count(WrongSet(h), l, i) = Count(ZeroSet, l, u) + Count(OneSet, u, i)
<1>1. l \in Nat /\ u \in Nat /\ 0 <= l /\ u <= i  OBVIOUS
<1>2. Count(WrongSet(h), l, i) = Count(WrongSet(h), l, u) + Count(WrongSet(h), u, i)
  BY <1>1, CountSplit
<1>3. \A p \in 1 .. i : ys[p] \in {0, 1}
  BY DEF m
<1>4. \A p \in l + 1 .. u : p \in WrongSet(h) <=> p \in ZeroSet
  BY <1>1, <1>3 DEF WrongSet, ZeroSet
<1>5. \A p \in u + 1 .. i : p \in WrongSet(h) <=> p \in OneSet
  BY <1>1, <1>3 DEF WrongSet, OneSet
<1>6. Count(WrongSet(h), l, u) = Count(ZeroSet, l, u)
  BY <1>1, <1>4, CountSame
<1>7. Count(WrongSet(h), u, i) = Count(OneSet, u, i)
  BY <1>1, <1>5, CountSame
<1>. QED  BY <1>2, <1>6, <1>7

\* No labelling is better than the best option: it has a last run of ones, and what it
\* has before that run was filled with one run less.
LEMMA CellLowerBound ==
  ASSUME NEW i \in Nat \ {0}, NEW j \in Nat \ {0}, ys \in Seq({0, 1}), i <= m,
         \A l \in 0 .. i : E[<<l, j - 1>>] \in Nat /\ Least(E[<<l, j - 1>>], l, j - 1),
         NEW v \in Nat, \A a, b \in 0 .. i : a <= b => v <= Errors(a, b, i, j),
         NEW h \in Labellings(i), Runs(h) <= j
  PROVE  v <= Wrong(h, i)
<1>. DEFINE LastOnes == {t \in Nat : t < i /\ h[i - t] = 1}
<1>1. CASE LastOnes = {}
  <2>1. \A p \in 1 .. i : h[p] = 0
    <3>1. SUFFICES ASSUME NEW p \in 1 .. i, h[p] # 0  PROVE FALSE
      OBVIOUS
    <3>2. h[p] = 1  BY <3>1 DEF Labellings
    <3>3. i - p \in Nat /\ i - p < i /\ i - (i - p) = p  OBVIOUS
    <3>4. i - p \in LastOnes  BY <3>2, <3>3
    <3>. QED  BY <3>4, <1>1
  <2>2. Wrong(h, i) = Ones(0, i)
    BY <2>1, ZerosWrong
  <2>3. E[<<0, j - 1>>] = 0
    <3>1. 0 \in 0 .. i /\ j - 1 \in Nat  OBVIOUS
    <3>2. E[<<0, j - 1>>] \in Nat /\ Least(E[<<0, j - 1>>], 0, j - 1)  BY <3>1
    <3>. QED  BY <3>1, <3>2, RowLeast
  <2>4. Errors(0, 0, i, j) = E[<<0, j - 1>>] + Count(ZeroSet, 0, 0) + Count(OneSet, 0, i)
    <3>1. 0 \in Nat /\ i \in Nat /\ j \in Nat /\ 0 <= 0 /\ 0 <= i /\ E[<<0, j - 1>>] \in Nat
      BY <2>3
    <3>. HIDE DEF LastOnes
    <3>. QED  BY <3>1, ErrorsCount
  <2>5. Count(ZeroSet, 0, 0) = 0
    BY CountNone
  <2>6. Ones(0, i) = Count(OneSet, 0, i) /\ Ones(0, i) \in Nat
    <3>1. 0 \in Nat /\ i \in Nat /\ 0 <= i  OBVIOUS
    <3>. HIDE DEF LastOnes
    <3>. QED  BY <3>1, OnesCount, ZerosCount
  <2>7. v <= Errors(0, 0, i, j)
    OBVIOUS
  <2>. QED  BY <2>2, <2>3, <2>4, <2>5, <2>6, <2>7
<1>2. CASE LastOnes # {}
  <2>1. PICK t \in LastOnes : \A x \in LastOnes : t <= x
    <3>1. LastOnes \in SUBSET Nat  OBVIOUS
    <3>. HIDE DEF LastOnes
    <3>. QED  BY <3>1, <1>2, LeastElement
  <2>2. PICK u \in 1 .. i : u = i - t
    OBVIOUS
  <2>3. h[u] = 1 /\ \A p \in u + 1 .. i : h[p] = 0
    <3>1. h[u] = 1  BY <2>1, <2>2
    <3>2. ASSUME NEW p \in u + 1 .. i  PROVE h[p] = 0
      <4>1. i - p \in Nat /\ i - p < t /\ i - p < i /\ i - (i - p) = p /\ p \in 1 .. i
        BY <2>1, <2>2
      <4>2. ASSUME i - p \in LastOnes  PROVE FALSE
        <5>1. t <= i - p /\ t \in Nat  BY <4>2, <2>1
        <5>. QED  BY <5>1, <4>1
      <4>3. h[p] # 1
        <5>1. SUFFICES ASSUME h[p] = 1  PROVE i - p \in LastOnes
          BY <4>2
        <5>2. h[i - (i - p)] = 1  BY <4>1, <5>1
        <5>. QED  BY <4>1, <5>2
      <4>. QED  BY <4>1, <4>3 DEF Labellings
    <3>. QED  BY <3>1, <3>2
  <2>. DEFINE RunBegins == {x \in 0 .. u - 1 : \A p \in x + 1 .. u : h[p] = 1}
  <2>4. PICK l \in RunBegins : \A x \in RunBegins : l <= x
    <3>1. RunBegins \in SUBSET Nat  OBVIOUS
    <3>2. u - 1 \in RunBegins  BY <2>2, <2>3
    <3>. HIDE DEF RunBegins
    <3>. QED  BY <3>1, <3>2, LeastElement
  <2>5. l \in 0 .. i /\ u \in 0 .. i /\ l < u /\ l + 1 \in 1 .. i /\ \A p \in l + 1 .. u : h[p] = 1
    BY <2>2, <2>4
  <2>6. l = 0 \/ h[l] = 0
    <3>1. SUFFICES ASSUME l # 0, h[l] # 0  PROVE FALSE
      OBVIOUS
    <3>2. h[l] = 1 /\ l \in 1 .. i  BY <3>1, <2>5 DEF Labellings
    <3>3. \A p \in (l - 1) + 1 .. u : h[p] = 1
      BY <3>2, <2>5
    <3>4. l - 1 \in RunBegins  BY <3>2, <3>3, <2>5
    <3>. QED  BY <3>4, <2>4, <3>2
  <2>7. l + 1 \in Starts(h)
    <3>1. h[l + 1] = 1  BY <2>5
    <3>2. l + 1 = 1 \/ h[(l + 1) - 1] = 0  BY <2>5, <2>6
    <3>. QED  BY <3>1, <3>2, <2>5 DEF Starts, Labellings
  <2>8. PICK g : g = [p \in 1 .. l |-> h[p]]
    OBVIOUS
  <2>9. g \in Labellings(l) /\ \A p \in 1 .. l : g[p] = h[p]
    BY <2>5, <2>8 DEF Labellings
  <2>10. Runs(g) <= j - 1
    <3>1. Starts(g) \in SUBSET (Starts(h) \ {l + 1})
      <4>1. ASSUME NEW p \in Starts(g)  PROVE p \in Starts(h) /\ p # l + 1
        <5>1. p \in 1 .. l /\ g[p] = 1 /\ (p = 1 \/ g[p - 1] = 0)
          BY <2>9 DEF Starts, Labellings
        <5>2. h[p] = 1 /\ p \in 1 .. i  BY <5>1, <2>9, <2>5
        <5>3. p # 1 => h[p - 1] = 0
          <6>1. p # 1 => p - 1 \in 1 .. l  BY <5>1, <2>5
          <6>. QED  BY <6>1, <5>1, <2>9
        <5>. QED  BY <5>1, <5>2, <5>3, <2>5 DEF Starts, Labellings
      <4>. QED  BY <4>1
    <3>2. /\ Runs(h) = Cardinality(Starts(h)) /\ IsFiniteSet(Starts(h)) /\ Runs(h) \in Nat
      BY RunsCount
    <3>3. /\ IsFiniteSet(Starts(h) \ {l + 1})
          /\ Cardinality(Starts(h) \ {l + 1}) = Cardinality(Starts(h)) - 1
      BY <3>2, <2>7, FS_RemoveElement
    <3>4. Cardinality(Starts(g)) <= Cardinality(Starts(h) \ {l + 1})
      BY <3>1, <3>3, FS_Subset
    <3>5. Runs(g) = Cardinality(Starts(g)) /\ Runs(g) \in Nat
      BY <2>5, <2>9, RunsCount
    <3>. QED  BY <3>2, <3>3, <3>4, <3>5
  <2>11. E[<<l, j - 1>>] \in Nat /\ E[<<l, j - 1>>] <= Wrong(g, l)
    <3>1. E[<<l, j - 1>>] \in Nat /\ Least(E[<<l, j - 1>>], l, j - 1)  BY <2>5
    <3>. QED  BY <3>1, <2>9, <2>10 DEF Least
  <2>12. Wrong(h, i) = Wrong(g, l) + Count(WrongSet(h), l, i)
    BY <2>5, <2>9, WrongPrefix
  <2>13. Count(WrongSet(h), l, i) = Count(ZeroSet, l, u) + Count(OneSet, u, i)
    BY <2>3, <2>5, WrongInterval
  <2>14. Errors(l, u, i, j) = E[<<l, j - 1>>] + Count(ZeroSet, l, u) + Count(OneSet, u, i)
    <3>1. /\ l \in Nat /\ u \in Nat /\ i \in Nat /\ j \in Nat /\ l <= u /\ u <= i
          /\ E[<<l, j - 1>>] \in Nat
      BY <2>5, <2>11
    <3>. HIDE DEF LastOnes, RunBegins
    <3>. QED  BY <3>1, ErrorsCount
  <2>15. v <= Errors(l, u, i, j)
    BY <2>5
  <2>16. Count(ZeroSet, l, u) \in Nat /\ Count(OneSet, u, i) \in Nat /\ Wrong(g, l) \in Nat
    <3>1. l \in Nat /\ u \in Nat /\ i \in Nat /\ l <= u /\ u <= i
      BY <2>5
    <3>. HIDE DEF LastOnes, RunBegins
    <3>. QED  BY <3>1, CountType, WrongCount
  <2>. QED  BY <2>11, <2>12, <2>13, <2>14, <2>15, <2>16
<1>. QED  BY <1>1, <1>2

\* Every option is the errors of a labelling: the one of the table, with ones in the
\* interval and zeros after it.
LEMMA CellAttained ==
  ASSUME NEW i \in Nat \ {0}, NEW j \in Nat \ {0}, ys \in Seq({0, 1}), i <= m,
         \A l \in 0 .. i : E[<<l, j - 1>>] \in Nat /\ Least(E[<<l, j - 1>>], l, j - 1),
         NEW l \in 0 .. i, NEW u \in 0 .. i, l <= u
  PROVE  \E h \in Labellings(i) : Runs(h) <= j /\ Errors(l, u, i, j) = Wrong(h, i)
<1>1. E[<<l, j - 1>>] \in Nat /\ Least(E[<<l, j - 1>>], l, j - 1)
  OBVIOUS
<1>2. PICK g \in Labellings(l) : Runs(g) <= j - 1 /\ E[<<l, j - 1>>] = Wrong(g, l)
  BY <1>1 DEF Least
<1>3. PICK h : h = [p \in 1 .. i |-> IF p <= l THEN g[p] ELSE IF p <= u THEN 1 ELSE 0]
  OBVIOUS
<1>4. h \in Labellings(i)
  <2>1. \A p \in 1 .. l : g[p] \in {0, 1}  BY DEF Labellings
  <2>. QED  BY <2>1, <1>3 DEF Labellings
<1>5. /\ \A p \in 1 .. l : g[p] = h[p]
      /\ \A p \in l + 1 .. u : h[p] = 1
      /\ \A p \in u + 1 .. i : h[p] = 0
  BY <1>3
<1>6. Runs(h) <= j
  <2>1. Starts(h) \in SUBSET (Starts(g) \cup {l + 1})
    <3>1. ASSUME NEW p \in Starts(h), p # l + 1  PROVE p \in Starts(g)
      <4>1. p \in 1 .. i /\ h[p] = 1 /\ (p = 1 \/ h[p - 1] = 0)
        BY <1>4 DEF Starts, Labellings
      <4>2. p \in 1 .. l
        <5>1. SUFFICES ASSUME p > l  PROVE FALSE
          BY <4>1
        <5>2. p - 1 \in l + 1 .. i  BY <5>1, <3>1, <4>1
        <5>3. p <= u  BY <4>1, <1>5
        <5>4. h[p - 1] = 1 /\ p # 1  BY <5>2, <5>3, <4>1, <1>5
        <5>. QED  BY <5>4, <4>1
      <4>3. p # 1 => p - 1 \in 1 .. l  BY <4>2
      <4>4. g[p] = 1 /\ (p = 1 \/ g[p - 1] = 0)
        BY <4>1, <4>2, <4>3, <1>5
      <4>. QED  BY <4>2, <4>4 DEF Starts, Labellings
    <3>. QED  BY <3>1
  <2>2. Runs(g) = Cardinality(Starts(g)) /\ IsFiniteSet(Starts(g)) /\ Runs(g) \in Nat
    BY RunsCount
  <2>3. /\ IsFiniteSet(Starts(g) \cup {l + 1})
        /\ Cardinality(Starts(g) \cup {l + 1}) <= Cardinality(Starts(g)) + 1
    <3>1. /\ IsFiniteSet(Starts(g) \cup {l + 1})
          /\ Cardinality(Starts(g) \cup {l + 1}) =
               IF l + 1 \in Starts(g) THEN Cardinality(Starts(g)) ELSE Cardinality(Starts(g)) + 1
      BY <2>2, FS_AddElement
    <3>. QED  BY <3>1, <2>2
  <2>4. Cardinality(Starts(h)) <= Cardinality(Starts(g) \cup {l + 1})
    BY <2>1, <2>3, FS_Subset
  <2>5. Runs(h) = Cardinality(Starts(h)) /\ Runs(h) \in Nat
    BY <1>4, RunsCount
  <2>6. Cardinality(Starts(g) \cup {l + 1}) \in Nat
    BY <2>3, FS_CardinalityType
  <2>. QED  BY <1>2, <2>2, <2>3, <2>4, <2>5, <2>6
<1>7. Wrong(h, i) = Wrong(g, l) + Count(WrongSet(h), l, i)
  BY <1>4, <1>5, WrongPrefix
<1>8. Count(WrongSet(h), l, i) = Count(ZeroSet, l, u) + Count(OneSet, u, i)
  BY <1>4, <1>5, WrongInterval
<1>9. Errors(l, u, i, j) = E[<<l, j - 1>>] + Count(ZeroSet, l, u) + Count(OneSet, u, i)
  <2>1. l \in Nat /\ u \in Nat /\ i \in Nat /\ j \in Nat /\ l <= u /\ u <= i
    OBVIOUS
  <2>. QED  BY <2>1, <1>1, ErrorsCount
<1>10. Errors(l, u, i, j) = Wrong(h, i)
  <2>1. Count(ZeroSet, l, u) \in Nat /\ Count(OneSet, u, i) \in Nat /\ Wrong(g, l) \in Nat
    <3>1. l \in Nat /\ u \in Nat /\ i \in Nat /\ l <= u /\ u <= i
      OBVIOUS
    <3>. QED  BY <3>1, CountType, WrongCount
  <2>. QED  BY <2>1, <1>2, <1>7, <1>8, <1>9
<1>. QED  BY <1>4, <1>6, <1>10

\* What FillCell writes is the least number of errors, if what it reads is.
LEMMA CellLeast ==
  ASSUME NEW i \in Nat \ {0}, NEW j \in Nat \ {0}, ys \in Seq({0, 1}), i <= m,
         \A l \in 0 .. i : E[<<l, j - 1>>] \in Nat /\ Least(E[<<l, j - 1>>], l, j - 1)
  PROVE  \E l, u \in 0 .. i :
           /\ l <= u /\ Option(i, j) = <<Errors(l, u, i, j), l, u>>
           /\ Errors(l, u, i, j) \in Nat /\ Least(Errors(l, u, i, j), i, j)
<1>1. PICK l \in 0 .. i, u \in 0 .. i :
        /\ l <= u /\ Option(i, j) = <<Errors(l, u, i, j), l, u>>
        /\ \A a, b \in 0 .. i : a <= b => Errors(l, u, i, j) <= Errors(a, b, i, j)
  BY OptionLeast
<1>2. PICK v : v = Errors(l, u, i, j)
  OBVIOUS
<1>3. v \in Nat
  <2>1. E[<<l, j - 1>>] \in Nat  OBVIOUS
  <2>2. l \in Nat /\ u \in Nat /\ i \in Nat /\ j \in Nat /\ l <= u /\ u <= i
    BY <1>1
  <2>. QED  BY <2>1, <2>2, <1>2, ErrorsCount
<1>4. \A a, b \in 0 .. i : a <= b => v <= Errors(a, b, i, j)
  BY <1>1, <1>2
<1>5. ASSUME NEW h \in Labellings(i), Runs(h) <= j
      PROVE  v <= Wrong(h, i)
  BY <1>3, <1>4, <1>5, CellLowerBound
<1>6. \E h \in Labellings(i) : Runs(h) <= j /\ v = Wrong(h, i)
  BY <1>1, <1>2, CellAttained
<1>7. Least(v, i, j)
  BY <1>5, <1>6 DEF Least
<1>. QED  BY <1>1, <1>2, <1>3, <1>7

----------------------------------------------------------------------------
(***************************************************************************)
(* The intervals found, and what sorting makes of them.                    *)
(***************************************************************************)

\* Intervals that are found from the last to the first, each one before the one found
\* before it.
Descending(s) ==
  /\ \A n \in DOMAIN s : s[n][1] <= s[n][2]
  /\ \A a, b \in DOMAIN s : a < b => s[b][2] <= s[a][1]

\* What Before means for two pairs.
LEMMA BeforePairs ==
  ASSUME NEW o \in Nat \X Nat, NEW p \in Nat \X Nat
  PROVE  Before(o, p) <=> (o[1] < p[1] \/ (o[1] = p[1] /\ o[2] < p[2]))
<1>1. DOMAIN o = 1 .. 2
  OBVIOUS
<1>2. ASSUME Before(o, p)  PROVE o[1] < p[1] \/ (o[1] = p[1] /\ o[2] < p[2])
  <2>1. PICK n \in 1 .. 2 : o[n] < p[n] /\ \A x \in 1 .. n - 1 : o[x] = p[x]
    BY <1>1, <1>2 DEF Before
  <2>2. n = 1 \/ (n = 2 /\ 1 \in 1 .. n - 1)  OBVIOUS
  <2>. QED  BY <2>1, <2>2
<1>3. ASSUME o[1] < p[1]  PROVE Before(o, p)
  <2>1. 1 \in 1 .. 2 /\ o[1] < p[1] /\ \A x \in 1 .. 1 - 1 : o[x] = p[x]
    BY <1>3
  <2>. QED  BY <2>1, <1>1 DEF Before
<1>4. ASSUME o[1] = p[1], o[2] < p[2]  PROVE Before(o, p)
  <2>1. 2 \in 1 .. 2 /\ o[2] < p[2] /\ \A x \in 1 .. 2 - 1 : o[x] = p[x]
    BY <1>4
  <2>. QED  BY <2>1, <1>1 DEF Before
<1>. QED  BY <1>2, <1>3, <1>4

\* An order in which nothing is before the one in front of it.
InOrder(s, p) == \A n \in 1 .. Len(s) - 1 : ~Before(s[p[n + 1]], s[p[n]])

\* Backwards, descending intervals are in order.
LEMMA BackwardsInOrder ==
  ASSUME NEW s \in Seq(Nat \X Nat), Descending(s)
  PROVE  \E p \in Bijection(DOMAIN s, DOMAIN s) : InOrder(s, p)
<1>0. PICK L \in Nat : L = Len(s)
  OBVIOUS
<1>. DEFINE p == [n \in 1 .. L |-> L + 1 - n]
<1>1. DOMAIN s = 1 .. L /\ \A n \in 1 .. L : s[n] \in Nat \X Nat
  BY <1>0
<1>2. p \in [1 .. L -> 1 .. L]
  BY <1>1
<1>3. \A a, b \in 1 .. L : p[a] = p[b] => a = b
  BY <1>1
<1>4. ASSUME NEW t \in 1 .. L  PROVE \E a \in 1 .. L : p[a] = t
  <2>1. L + 1 - t \in 1 .. L /\ L + 1 - (L + 1 - t) = t
    BY <1>1
  <2>. QED  BY <2>1
<1>5. p \in Bijection(DOMAIN s, DOMAIN s)
  <2>. HIDE DEF p
  <2>. QED  BY <1>1, <1>2, <1>3, <1>4 DEF Bijection, Injection, Surjection, IsInjective
<1>6. ASSUME NEW n \in 1 .. L - 1
      PROVE  ~Before(s[p[n + 1]], s[p[n]])
  <2>1. PICK a \in 1 .. L, b \in 1 .. L : a = p[n + 1] /\ b = p[n] /\ a < b
    <3>1. n \in 1 .. L /\ n + 1 \in 1 .. L  OBVIOUS
    <3>2. p[n] = L + 1 - n /\ p[n + 1] = L + 1 - (n + 1)  BY <3>1
    <3>3. p[n] \in 1 .. L /\ p[n + 1] \in 1 .. L /\ p[n + 1] < p[n]
      <4>1. \A x \in 1 .. L : L + 1 - x \in 1 .. L  OBVIOUS
      <4>2. L + 1 - (n + 1) < L + 1 - n  OBVIOUS
      <4>. QED  BY <3>1, <3>2, <4>1, <4>2
    <3>. HIDE DEF p
    <3>. QED  BY <3>3
  <2>2. s[b][2] <= s[a][1] /\ s[b][1] <= s[b][2] /\ s[a][1] <= s[a][2]
    BY <1>1, <2>1 DEF Descending
  <2>3. s[a] \in Nat \X Nat /\ s[b] \in Nat \X Nat
    BY <1>1
  <2>4. ~Before(s[a], s[b])
    <3>1. s[a][1] \in Nat /\ s[a][2] \in Nat /\ s[b][1] \in Nat /\ s[b][2] \in Nat
      BY <2>3
    <3>2. ~(s[a][1] < s[b][1] \/ (s[a][1] = s[b][1] /\ s[a][2] < s[b][2]))
      BY <3>1, <2>2
    <3>. QED  BY <3>2, <2>3, BeforePairs
  <2>. QED  BY <2>1, <2>4
<1>7. InOrder(s, p)
  BY <1>0, <1>6 DEF InOrder
<1>. QED
  <2>. HIDE DEF p
  <2>. QED  BY <1>5, <1>7

\* Of two intervals, the one that is not before the other in Python's order although
\* it ends before the other begins: both are empty and at one boundary.
LEMMA PairsApart ==
  ASSUME NEW a1 \in Nat, NEW a2 \in Nat, NEW b1 \in Nat, NEW b2 \in Nat,
         a1 <= a2, b1 <= b2, b2 <= a1, ~(b1 < a1 \/ (b1 = a1 /\ b2 < a2))
  PROVE  a2 <= b1
OBVIOUS

\* Sorted gives the same intervals, one after the other.
LEMMA SortedApart ==
  ASSUME NEW s \in Seq(Nat \X Nat), Descending(s)
  PROVE  /\ Sorted(s) \in Seq(Nat \X Nat) /\ Len(Sorted(s)) = Len(s)
         /\ \A n \in DOMAIN s : \E a \in DOMAIN s : Sorted(s)[n] = s[a]
         /\ \A a \in DOMAIN s : \E n \in DOMAIN s : Sorted(s)[n] = s[a]
         /\ \A n \in 1 .. Len(s) - 1 : Sorted(s)[n][2] <= Sorted(s)[n + 1][1]
<1>0. PICK L \in Nat : L = Len(s)
  OBVIOUS
<1>1. DOMAIN s = 1 .. L /\ \A n \in 1 .. L : s[n] \in Nat \X Nat
  BY <1>0
<1>2. PICK p : p = CHOOSE q \in Bijection(DOMAIN s, DOMAIN s) : InOrder(s, q)
  OBVIOUS
<1>3. p \in Bijection(DOMAIN s, DOMAIN s) /\ InOrder(s, p)
  BY <1>2, BackwardsInOrder
<1>4. /\ p \in [1 .. L -> 1 .. L]
      /\ \A a, b \in 1 .. L : p[a] = p[b] => a = b
      /\ \A t \in 1 .. L : \E a \in 1 .. L : p[a] = t
  BY <1>1, <1>3 DEF Bijection, Injection, Surjection, IsInjective
<1>5. PICK r : r = [n \in 1 .. L |-> s[p[n]]]
  OBVIOUS
<1>6. Sorted(s) = r
  BY <1>0, <1>1, <1>2, <1>5 DEF Sorted, InOrder
<1>7. r \in Seq(Nat \X Nat) /\ Len(r) = L
  <2>1. \A n \in 1 .. L : s[p[n]] \in Nat \X Nat
    <3>1. \A n \in 1 .. L : p[n] \in 1 .. L  BY <1>4
    <3>2. \A n \in 1 .. L : s[n] \in Nat \X Nat  BY <1>1
    <3>. QED  BY <3>1, <3>2
  <2>. QED  BY <1>0, <1>5, <2>1
<1>8. \A n \in 1 .. L : \E a \in 1 .. L : r[n] = s[a]
  BY <1>4, <1>5
<1>9. \A a \in 1 .. L : \E n \in 1 .. L : r[n] = s[a]
  BY <1>4, <1>5
<1>10. ASSUME NEW n \in 1 .. L - 1
       PROVE  r[n][2] <= r[n + 1][1]
  <2>1. n \in 1 .. L /\ n + 1 \in 1 .. L /\ n # n + 1
    OBVIOUS
  <2>2. PICK a \in 1 .. L, b \in 1 .. L : a = p[n] /\ b = p[n + 1] /\ a # b
    <3>1. p[n] \in 1 .. L /\ p[n + 1] \in 1 .. L  BY <2>1, <1>4
    <3>2. p[n] # p[n + 1]  BY <2>1, <1>4
    <3>. QED  BY <3>1, <3>2
  <2>3. s[a] \in Nat \X Nat /\ s[b] \in Nat \X Nat /\ r[n] = s[a] /\ r[n + 1] = s[b]
    <3>1. s[a] \in Nat \X Nat /\ s[b] \in Nat \X Nat  BY <1>1
    <3>2. r[n] = s[p[n]] /\ r[n + 1] = s[p[n + 1]]  BY <1>5, <2>1
    <3>. QED  BY <3>1, <3>2, <2>2
  <2>4. ~Before(s[b], s[a])
    <3>1. n \in 1 .. Len(s) - 1  BY <1>0
    <3>. QED  BY <1>3, <2>2, <3>1 DEF InOrder
  <2>5. ~(s[b][1] < s[a][1] \/ (s[b][1] = s[a][1] /\ s[b][2] < s[a][2]))
    BY <2>3, <2>4, BeforePairs
  <2>6. s[a][1] \in Nat /\ s[a][2] \in Nat /\ s[b][1] \in Nat /\ s[b][2] \in Nat
    BY <2>3
  <2>7. s[a][1] <= s[a][2] /\ s[b][1] <= s[b][2]
    BY <1>1 DEF Descending
  <2>8. CASE b < a
    <3>1. s[a][2] <= s[b][1]  BY <1>1, <2>8 DEF Descending
    <3>. QED  BY <3>1, <2>3
  <2>9. CASE a < b
    <3>1. s[b][2] <= s[a][1]  BY <1>1, <2>9 DEF Descending
    <3>2. s[a][2] <= s[b][1]  BY <3>1, <2>5, <2>6, <2>7, PairsApart
    <3>. QED  BY <3>2, <2>3
  <2>10. a < b \/ b < a  BY <2>2
  <2>. QED  BY <2>8, <2>9, <2>10
<1>. QED  BY <1>0, <1>1, <1>6, <1>7, <1>8, <1>9, <1>10

----------------------------------------------------------------------------
(***************************************************************************)
(* The points that a choice of intervals gets wrong.                       *)
(***************************************************************************)

CoveredBy(s) == UNION {s[n][1] + 1 .. s[n][2] : n \in DOMAIN s}
MissedSet(C) == {p \in Nat : (ys[p] = 1) # (p \in C)}

\* A point is covered when an interval covers it.
LEMMA CoveredPoint ==
  ASSUME NEW s, NEW p
  PROVE  p \in CoveredBy(s) <=> \E n \in DOMAIN s : p \in s[n][1] + 1 .. s[n][2]
BY DEF CoveredBy

\* Descending intervals cover nothing up to the boundary they have come down to.
LEMMA CoveredAbove ==
  ASSUME NEW s \in Seq(Nat \X Nat), Descending(s), s # << >>
  PROVE  \A p \in CoveredBy(s) : p \in Nat /\ p > s[Len(s)][1]
<1>1. SUFFICES ASSUME NEW p \in CoveredBy(s)  PROVE p \in Nat /\ p > s[Len(s)][1]
  OBVIOUS
<1>2. PICK n \in DOMAIN s : p \in s[n][1] + 1 .. s[n][2]
  BY CoveredPoint
<1>3. n \in 1 .. Len(s) /\ Len(s) \in 1 .. Len(s) /\ DOMAIN s = 1 .. Len(s)
  OBVIOUS
<1>4. s[n] \in Nat \X Nat /\ s[Len(s)] \in Nat \X Nat
  BY <1>3
<1>5. s[n][1] \in Nat /\ s[n][2] \in Nat /\ s[Len(s)][1] \in Nat /\ s[Len(s)][2] \in Nat
  BY <1>4
<1>6. p \in Nat /\ p > s[n][1]
  BY <1>2, <1>5
<1>7. s[Len(s)][1] <= s[n][1]
  <2>1. CASE n = Len(s)  BY <2>1, <1>5
  <2>2. CASE n < Len(s)
    <3>1. s[Len(s)][2] <= s[n][1] /\ s[Len(s)][1] <= s[Len(s)][2]
      BY <2>2, <1>3 DEF Descending
    <3>. QED  BY <3>1, <1>5
  <2>. QED  BY <1>3, <2>1, <2>2
<1>. QED  BY <1>5, <1>6, <1>7

\* An interval more: what it and the points after it add to the errors.
LEMMA MissedStep ==
  ASSUME ys \in Seq({0, 1}), NEW C, NEW l \in Nat, NEW u \in Nat, NEW i \in Nat,
         l <= u, u <= i, i <= m, \A p \in C : p \in Nat /\ p > i
  PROVE  Count(MissedSet(C \cup (l + 1 .. u)), l, m)
           = Count(ZeroSet, l, u) + Count(OneSet, u, i) + Count(MissedSet(C), i, m)
<1>. DEFINE D == C \cup (l + 1 .. u)
            T == MissedSet(D)
<1>1. m \in Nat /\ \A p \in 1 .. m : ys[p] \in {0, 1}
  BY DEF m
<1>2. Count(T, l, m) = Count(T, l, u) + Count(T, u, m)
  <2>1. u <= m  BY <1>1
  <2>. HIDE DEF T
  <2>. QED  BY <1>1, <2>1, CountSplit
<1>3. Count(T, u, m) = Count(T, u, i) + Count(T, i, m)
  <2>. HIDE DEF T
  <2>. QED  BY <1>1, CountSplit
<1>4. \A p \in l + 1 .. u : p \in T <=> p \in ZeroSet
  BY DEF MissedSet, ZeroSet
<1>5. \A p \in u + 1 .. i : p \in T <=> p \in OneSet
  BY DEF MissedSet, OneSet
<1>6. \A p \in i + 1 .. m : p \in T <=> p \in MissedSet(C)
  BY <1>1 DEF MissedSet
<1>7. Count(T, l, u) = Count(ZeroSet, l, u)
  <2>. HIDE DEF T
  <2>. QED  BY <1>4, CountSame
<1>8. Count(T, u, i) = Count(OneSet, u, i)
  <2>. HIDE DEF T
  <2>. QED  BY <1>5, CountSame
<1>9. Count(T, i, m) = Count(MissedSet(C), i, m)
  <2>. HIDE DEF T
  <2>. QED  BY <1>1, <1>6, CountSame
<1>10. /\ Count(ZeroSet, l, u) \in Nat /\ Count(OneSet, u, i) \in Nat
       /\ Count(MissedSet(C), i, m) \in Nat
  BY <1>1, CountType
<1>. QED
  <2>. HIDE DEF T
  <2>1. Count(T, l, m) = Count(ZeroSet, l, u) + Count(OneSet, u, i) + Count(MissedSet(C), i, m)
    BY <1>2, <1>3, <1>7, <1>8, <1>9, <1>10
  <2>. QED  BY <2>1 DEF T

\* Where nothing is covered, the ones are wrong.
LEMMA MissedBelow ==
  ASSUME ys \in Seq({0, 1}), NEW C, NEW i \in Nat, i <= m, \A p \in C : p \in Nat /\ p > i
  PROVE  Count(MissedSet(C), 0, m) = Ones(0, i) + Count(MissedSet(C), i, m)
<1>. DEFINE T == MissedSet(C)
<1>1. m \in Nat /\ \A p \in 1 .. m : ys[p] \in {0, 1}
  BY DEF m
<1>2. Count(T, 0, m) = Count(T, 0, i) + Count(T, i, m)
  <2>. HIDE DEF T
  <2>. QED  BY <1>1, CountSplit
<1>3. \A p \in 0 + 1 .. i : p \in T <=> p \in OneSet
  BY DEF MissedSet, OneSet
<1>4. Count(T, 0, i) = Count(OneSet, 0, i)
  <2>. HIDE DEF T
  <2>. QED  BY <1>3, CountSame
<1>5. Ones(0, i) = Count(OneSet, 0, i)
  BY OnesCount
<1>. QED
  <2>1. Count(T, 0, m) = Ones(0, i) + Count(T, i, m)
    <3>. HIDE DEF T
    <3>. QED  BY <1>2, <1>4, <1>5
  <2>. QED  BY <2>1

----------------------------------------------------------------------------
(***************************************************************************)
(* The inductive invariant.                                                *)
(***************************************************************************)

Intervals == (0 .. m) \X (0 .. m)

TypeInv ==
  /\ ys \in Seq({0, 1}) /\ k \in Nat
  /\ E \in [(0 .. m) \X (0 .. k) -> Nat]
  /\ P \in [(0 .. m) \X (0 .. k) -> Intervals \cup {None}]
  /\ cell \in (1 .. m + 1) \X (Nat \ {0}) /\ (cell[2] <= k \/ k = 0)
  /\ best \in Seq(Intervals) /\ cur \in Intervals \cup {None} /\ round \in 0 .. k
  /\ intervalsPc \in {"fill", "extract", "raised", "done"}

\* The cells before the one to fill next, in the order of the two loops, and the row
\* and the column that no step fills.
Filled(i, j) == i = 0 \/ j = 0 \/ i < cell[1] \/ (i = cell[1] /\ j < cell[2])

\* P holds the interval that E's number of errors was computed for.
Chosen(i, j) ==
  \E l, u \in 0 .. i : l <= u /\ P[<<i, j>>] = <<l, u>> /\ E[<<i, j>>] = Errors(l, u, i, j)

\* A filled cell has the least number of errors, and the interval to go on from.
CellInv(i, j) ==
  /\ Least(E[<<i, j>>], i, j)
  /\ i = 0 \/ j = 0 => E[<<i, j>>] = Ones(0, i) /\ P[<<i, j>>] = None
  /\ i # 0 /\ j # 0 => Chosen(i, j)

TableInv == \A i \in 0 .. m, j \in 0 .. k : Filled(i, j) => CellInv(i, j)

\* The points 1 .. Rest are those the extraction has still to find intervals for.
RestOf(s) == IF s = << >> THEN m ELSE s[Len(s)][1]

\* The intervals found make, after Rest, the errors that are not in what remains of
\* the table.
ExtractInv ==
  /\ cell[1] > m \/ k = 0
  /\ Len(best) + round <= k
  /\ round > 0 => cur = P[<<RestOf(best), round>>]
  /\ cur = None /\ round > 0 => m = 0
  /\ Descending(best)
  /\ Count(MissedSet(CoveredBy(best)), RestOf(best), m) + E[<<RestOf(best), round>>] = E[<<m, k>>]

IInv ==
  /\ TypeInv /\ TableInv
  /\ intervalsPc = "fill" => best = << >> /\ round = k
  /\ intervalsPc = "extract" => ExtractInv
  /\ IntervalsAttainBest

----------------------------------------------------------------------------
(***************************************************************************)
(* The tables.                                                             *)
(***************************************************************************)

\* Before the first step the cells of row 0 and column 0 are as the loops need them.
LEMMA StartsInv ==
  ASSUME NEW labels \in Seq({0, 1}), NEW count \in Nat, IntervalsStarts(labels, count)
  PROVE  IInv
<1>1. ys \in Seq({0, 1}) /\ k \in Nat /\ m \in Nat
  BY DEF IntervalsStarts, m
<1>2. \A i \in 0 .. m, j \in 0 .. k : E[<<i, j>>] = IF j = 0 THEN Ones(0, i) ELSE 0
  BY <1>1 DEF IntervalsStarts
<1>3. \A i \in 0 .. m, j \in 0 .. k : P[<<i, j>>] = None
  BY <1>1 DEF IntervalsStarts
<1>4. ASSUME NEW i \in 0 .. m  PROVE Ones(0, i) \in Nat
  <2>1. 0 \in Nat /\ i \in Nat /\ 0 <= i  BY <1>1
  <2>. QED  BY <2>1, ZerosCount
<1>5. TypeInv
  <2>1. \A c \in (0 .. m) \X (0 .. k) : (IF c[2] = 0 THEN Ones(0, c[1]) ELSE 0) \in Nat
    BY <1>4
  <2>2. E \in [(0 .. m) \X (0 .. k) -> Nat]
    BY <2>1 DEF IntervalsStarts
  <2>3. P \in [(0 .. m) \X (0 .. k) -> Intervals \cup {None}]
    BY DEF IntervalsStarts
  <2>4. cell \in (1 .. m + 1) \X (Nat \ {0}) /\ (cell[2] <= k \/ k = 0)
    BY <1>1 DEF IntervalsStarts
  <2>5. best \in Seq(Intervals) /\ cur \in Intervals \cup {None} /\ round \in 0 .. k
    BY <1>1 DEF IntervalsStarts
  <2>6. intervalsPc \in {"fill", "extract", "raised", "done"}
    BY DEF IntervalsStarts
  <2>. QED  BY <1>1, <2>2, <2>3, <2>4, <2>5, <2>6 DEF TypeInv
<1>6. Ones(0, 0) = 0
  BY CountNone, OnesCount
<1>7. ASSUME NEW i \in 0 .. m, NEW j \in 0 .. k, Filled(i, j)
      PROVE  CellInv(i, j)
  <2>1. i = 0 \/ j = 0
    BY <1>7 DEF Filled, IntervalsStarts
  <2>2. E[<<i, j>>] = Ones(0, i) /\ P[<<i, j>>] = None
    BY <1>2, <1>3, <1>6, <2>1
  <2>3. Least(E[<<i, j>>], i, j)
    <3>1. CASE j = 0
      <4>1. i \in Nat /\ i <= m  BY <1>1
      <4>. QED  BY <3>1, <4>1, <1>1, <2>2, ColumnLeast
    <3>2. CASE i = 0
      <4>1. j \in Nat /\ E[<<0, j>>] = 0  BY <1>1, <1>6, <2>2, <3>2
      <4>2. Least(0, 0, j)  BY <4>1, <1>1, RowLeast
      <4>. QED  BY <3>2, <4>1, <4>2
    <3>. QED  BY <2>1, <3>1, <3>2
  <2>. QED  BY <2>1, <2>2, <2>3 DEF CellInv
<1>8. TableInv
  BY <1>7 DEF TableInv
<1>9. intervalsPc = "fill" /\ best = << >> /\ round = k
  BY DEF IntervalsStarts
<1>. QED  BY <1>5, <1>8, <1>9 DEF IInv, IntervalsAttainBest

\* What an invariant of the next state says of a cell, when the labels stay.
LEMMA CellNext ==
  ASSUME ys' = ys, NEW i, NEW j
  PROVE  CellInv(i, j)' <=>
           /\ Least(E'[<<i, j>>], i, j)
           /\ i = 0 \/ j = 0 => E'[<<i, j>>] = Ones(0, i) /\ P'[<<i, j>>] = None
           /\ i # 0 /\ j # 0 =>
                \E l, u \in 0 .. i : /\ l <= u /\ P'[<<i, j>>] = <<l, u>>
                                    /\ E'[<<i, j>>] = E'[<<l, j - 1>>] + Ones(u, i) + (u - l) - Ones(l, u)
BY DEF CellInv, Chosen, Errors, Least, Wrong, Labellings, Ones

\* FillCell fills the cell its loops are at and leaves the filled ones as they are.
LEMMA FillCellTable ==
  ASSUME TypeInv, TableInv, FillCell
  PROVE  TypeInv' /\ TableInv'
<1>1. m \in Nat /\ k \in Nat /\ ys \in Seq({0, 1})
  BY DEF TypeInv, m
<1>2. PICK i \in 1 .. m, j \in 1 .. k : cell = <<i, j>>
  <2>1. cell[1] \in 1 .. m /\ cell[2] \in 1 .. k /\ cell = <<cell[1], cell[2]>>
    BY <1>1 DEF TypeInv, FillCell
  <2>. QED  BY <2>1
<1>3. ASSUME NEW l \in 0 .. i
      PROVE  E[<<l, j - 1>>] \in Nat /\ Least(E[<<l, j - 1>>], l, j - 1)
  <2>2. l \in 0 .. m /\ j - 1 \in 0 .. k
    BY <1>1
  <2>3. Filled(l, j - 1)
    BY <1>1, <1>2 DEF Filled
  <2>4. CellInv(l, j - 1)
    BY <2>2, <2>3 DEF TableInv
  <2>5. E[<<l, j - 1>>] \in Nat
    BY <2>2 DEF TypeInv
  <2>. QED  BY <2>4, <2>5 DEF CellInv
<1>4. PICK l \in 0 .. i, u \in 0 .. i :
        /\ l <= u /\ Option(i, j) = <<Errors(l, u, i, j), l, u>>
        /\ Errors(l, u, i, j) \in Nat /\ Least(Errors(l, u, i, j), i, j)
  <2>1. i \in Nat \ {0} /\ j \in Nat \ {0} /\ i <= m  BY <1>1
  <2>. QED  BY <1>1, <1>3, <2>1, CellLeast
<1>5. PICK v \in Nat : v = Errors(l, u, i, j)
  BY <1>4
<1>6. /\ E' = [E EXCEPT ![<<i, j>>] = v]
      /\ P' = [P EXCEPT ![<<i, j>>] = <<l, u>>]
      /\ cell' = NextCell(i, j)
      /\ UNCHANGED <<ys, k, best, cur, round, intervalsPc>>
  <2>1. cell[1] = i /\ cell[2] = j  BY <1>2
  <2>2. Option(i, j) = <<v, l, u>>  BY <1>4, <1>5
  <2>. QED  BY <2>1, <2>2 DEF FillCell
<1>7. m' = m /\ Intervals' = Intervals
  BY <1>6 DEF m, Intervals
<1>8. /\ cell' \in (1 .. m + 1) \X (Nat \ {0})
      /\ cell'[2] <= k
      /\ \A a \in 0 .. m, b \in 0 .. k : Filled(a, b)' => Filled(a, b) \/ (a = i /\ b = j)
  <2>1. CASE j < k
    <3>1. cell' = <<i, j + 1>>  BY <1>6, <2>1 DEF NextCell
    <3>. QED  BY <3>1, <1>1, <1>2, <2>1 DEF Filled
  <2>2. CASE j = k
    <3>1. cell' = <<i + 1, 1>>  BY <1>6, <2>2, <1>1 DEF NextCell
    <3>. QED  BY <3>1, <1>1, <1>2, <2>2 DEF Filled
  <2>. QED  BY <1>1, <2>1, <2>2
<1>9. TypeInv'
  <2>1. <<i, j>> \in (0 .. m) \X (0 .. k) /\ <<l, u>> \in Intervals
    BY <1>1 DEF Intervals
  <2>2. E' \in [(0 .. m) \X (0 .. k) -> Nat]
    BY <2>1, <1>5, <1>6 DEF TypeInv
  <2>3. P' \in [(0 .. m) \X (0 .. k) -> Intervals \cup {None}]
    BY <2>1, <1>6 DEF TypeInv
  <2>. QED  BY <1>6, <1>7, <1>8, <2>2, <2>3 DEF TypeInv
<1>10. ASSUME NEW a \in 0 .. m, NEW b \in 0 .. k, ~(a = i /\ b = j)
       PROVE  E'[<<a, b>>] = E[<<a, b>>] /\ P'[<<a, b>>] = P[<<a, b>>]
  <2>1. <<a, b>> \in (0 .. m) \X (0 .. k) /\ <<a, b>> # <<i, j>>
    BY <1>10
  <2>. QED  BY <2>1, <1>6 DEF TypeInv
<1>11. E'[<<i, j>>] = v /\ P'[<<i, j>>] = <<l, u>>
  <2>1. <<i, j>> \in (0 .. m) \X (0 .. k)
    BY <1>1
  <2>. QED  BY <2>1, <1>6 DEF TypeInv
<1>12. CellInv(i, j)'
  <2>1. Least(E'[<<i, j>>], i, j)
    BY <1>4, <1>5, <1>11
  <2>2. E'[<<l, j - 1>>] = E[<<l, j - 1>>]
    <3>1. l \in 0 .. m /\ j - 1 \in 0 .. k /\ ~(l = i /\ j - 1 = j)  BY <1>1
    <3>. QED  BY <3>1, <1>10
  <2>3. E'[<<i, j>>] = E'[<<l, j - 1>>] + Ones(u, i) + (u - l) - Ones(l, u)
    BY <2>2, <1>5, <1>11 DEF Errors
  <2>4. i # 0 /\ j # 0  BY <1>1
  <2>. QED  BY <2>1, <2>3, <2>4, <1>4, <1>6, <1>11, CellNext
<1>13. ASSUME NEW a \in 0 .. m, NEW b \in 0 .. k, Filled(a, b), ~(a = i /\ b = j)
       PROVE  CellInv(a, b)'
  <2>1. CellInv(a, b)
    BY <1>13 DEF TableInv
  <2>2. E'[<<a, b>>] = E[<<a, b>>] /\ P'[<<a, b>>] = P[<<a, b>>]
    BY <1>10, <1>13
  <2>3. Least(E'[<<a, b>>], a, b) /\ (a = 0 \/ b = 0 => E'[<<a, b>>] = Ones(0, a) /\ P'[<<a, b>>] = None)
    BY <2>1, <2>2 DEF CellInv
  <2>4. ASSUME a # 0 /\ b # 0
        PROVE  \E x, y \in 0 .. a : /\ x <= y /\ P'[<<a, b>>] = <<x, y>>
                                    /\ E'[<<a, b>>] = E'[<<x, b - 1>>] + Ones(y, a) + (y - x) - Ones(x, y)
    <3>1. PICK x \in 0 .. a, y \in 0 .. a :
            x <= y /\ P[<<a, b>>] = <<x, y>> /\ E[<<a, b>>] = Errors(x, y, a, b)
      BY <2>1, <2>4 DEF CellInv, Chosen
    <3>2. x \in 0 .. m /\ b - 1 \in 0 .. k /\ ~(x = i /\ b - 1 = j)
      BY <1>1, <1>2, <1>13, <2>4 DEF Filled
    <3>3. E'[<<x, b - 1>>] = E[<<x, b - 1>>]
      BY <3>2, <1>10
    <3>. QED  BY <3>1, <3>3, <2>2 DEF Errors
  <2>. QED  BY <2>3, <2>4, <1>6, CellNext
<1>14. ASSUME NEW a \in 0 .. m, NEW b \in 0 .. k, Filled(a, b)'
       PROVE  CellInv(a, b)'
  <2>1. CASE a = i /\ b = j  BY <2>1, <1>12
  <2>2. CASE ~(a = i /\ b = j)
    <3>1. Filled(a, b)  BY <1>8, <1>14, <2>2
    <3>. QED  BY <3>1, <2>2, <1>13
  <2>. QED  BY <2>1, <2>2
<1>15. TableInv'
  <2>1. (0 .. m)' = 0 .. m /\ (0 .. k)' = 0 .. k  BY <1>6, <1>7
  <2>. QED  BY <1>14, <2>1 DEF TableInv
<1>. QED  BY <1>9, <1>15

----------------------------------------------------------------------------
(***************************************************************************)
(* The extraction.                                                         *)
(***************************************************************************)

\* The intervals are pairs of numbers, and what remains is a prefix of the points.
LEMMA BestType ==
  ASSUME TypeInv
  PROVE  /\ m \in Nat /\ k \in Nat /\ best \in Seq(Nat \X Nat) /\ RestOf(best) \in 0 .. m
         /\ round \in 0 .. k
<1>1. m \in Nat /\ k \in Nat /\ round \in 0 .. k
  BY DEF TypeInv, m
<1>2. best \in Seq(Intervals)
  BY DEF TypeInv
<1>3. best \in Seq(Nat \X Nat)
  <2>1. Intervals \in SUBSET (Nat \X Nat)  BY <1>1 DEF Intervals
  <2>2. \A n \in 1 .. Len(best) : best[n] \in Nat \X Nat  BY <1>2, <2>1
  <2>3. Len(best) \in Nat /\ best = [n \in 1 .. Len(best) |-> best[n]]  BY <1>2
  <2>. QED  BY <2>2, <2>3
<1>4. RestOf(best) \in 0 .. m
  <2>1. CASE best = << >>  BY <2>1, <1>1 DEF RestOf
  <2>2. CASE best # << >>
    <3>1. best[Len(best)] \in Intervals  BY <1>2, <2>2
    <3>. QED  BY <3>1, <2>2 DEF RestOf, Intervals
  <2>. QED  BY <2>1, <2>2
<1>. QED  BY <1>1, <1>3, <1>4

\* An interval up to what remains keeps the intervals found descending.
LEMMA DescendingAppend ==
  ASSUME NEW s \in Seq(Nat \X Nat), Descending(s), NEW l \in Nat, NEW u \in Nat, l <= u,
         s # << >> => u <= s[Len(s)][1]
  PROVE  /\ Descending(Append(s, <<l, u>>))
         /\ CoveredBy(Append(s, <<l, u>>)) = CoveredBy(s) \cup (l + 1 .. u)
         /\ RestOf(Append(s, <<l, u>>)) = l
         /\ Len(Append(s, <<l, u>>)) = Len(s) + 1
<1>0. PICK L \in Nat : L = Len(s)
  OBVIOUS
<1>1. PICK t : t = Append(s, <<l, u>>)
  OBVIOUS
<1>2. /\ L \in Nat /\ DOMAIN s = 1 .. L /\ DOMAIN t = 1 .. L + 1 /\ Len(t) = L + 1 /\ t # << >>
      /\ t[L + 1] = <<l, u>> /\ \A n \in 1 .. L : t[n] = s[n]
  BY <1>0, <1>1
<1>3. \A n \in 1 .. L : s[n][1] \in Nat /\ s[n][2] \in Nat /\ s[n][1] <= s[n][2]
  <2>1. \A n \in 1 .. L : s[n] \in Nat \X Nat  BY <1>0
  <2>. QED  BY <2>1, <1>2 DEF Descending
<1>4. \A a, b \in 1 .. L : a < b => s[b][2] <= s[a][1]
  BY <1>2 DEF Descending
<1>5. ASSUME NEW a \in 1 .. L  PROVE u <= s[a][1]
  <2>1. L \in 1 .. L /\ s # << >>  BY <1>0
  <2>2. u <= s[L][1]  BY <2>1, <1>0
  <2>3. CASE a = L  BY <2>2, <2>3
  <2>4. CASE a < L
    <3>1. s[L][2] <= s[a][1]  BY <1>4, <2>1, <2>4
    <3>2. s[L][2] \in Nat /\ s[L][1] \in Nat /\ s[L][1] <= s[L][2] /\ s[a][1] \in Nat
      BY <2>1, <1>3
    <3>. QED  BY <3>1, <3>2, <2>2
  <2>5. a = L \/ a < L  OBVIOUS
  <2>. QED  BY <2>3, <2>4, <2>5
<1>6. \A n \in 1 .. L + 1 : t[n][1] <= t[n][2]
  <2>1. SUFFICES ASSUME NEW n \in 1 .. L + 1  PROVE t[n][1] <= t[n][2]
    OBVIOUS
  <2>2. CASE n = L + 1  BY <2>2, <1>2
  <2>3. CASE n \in 1 .. L  BY <2>3, <1>2, <1>3
  <2>. QED  BY <1>2, <2>2, <2>3
<1>7. ASSUME NEW a \in 1 .. L + 1, NEW b \in 1 .. L + 1, a < b  PROVE t[b][2] <= t[a][1]
  <2>1. a \in 1 .. L /\ t[a] = s[a]  BY <1>2, <1>7
  <2>2. CASE b = L + 1
    <3>1. t[b][2] = u  BY <2>2, <1>2
    <3>. QED  BY <3>1, <2>1, <1>5
  <2>3. CASE b \in 1 .. L
    <3>1. t[b] = s[b]  BY <2>3, <1>2
    <3>. QED  BY <3>1, <2>1, <2>3, <1>4, <1>7
  <2>. QED  BY <1>2, <2>2, <2>3
<1>8. Descending(t)
  BY <1>2, <1>6, <1>7 DEF Descending
<1>9. ASSUME NEW p  PROVE p \in CoveredBy(t) <=> p \in CoveredBy(s) \cup (l + 1 .. u)
  <2>1. p \in CoveredBy(t) <=> \E n \in 1 .. L + 1 : p \in t[n][1] + 1 .. t[n][2]
    BY <1>2, CoveredPoint
  <2>2. p \in CoveredBy(s) <=> \E n \in 1 .. L : p \in s[n][1] + 1 .. s[n][2]
    BY <1>2, CoveredPoint
  <2>3. p \in t[L + 1][1] + 1 .. t[L + 1][2] <=> p \in l + 1 .. u
    BY <1>2
  <2>4. \A n \in 1 .. L + 1 : n \in 1 .. L \/ n = L + 1
    BY <1>2
  <2>5. L + 1 \in 1 .. L + 1 /\ \A n \in 1 .. L : n \in 1 .. L + 1
    BY <1>2
  <2>. QED  BY <2>1, <2>2, <2>3, <2>4, <2>5, <1>2
<1>10. RestOf(t) = l
  BY <1>2 DEF RestOf
<1>. QED  BY <1>0, <1>1, <1>2, <1>8, <1>9, <1>10

\* A round of the extraction moves the errors of one interval from the table to the
\* intervals found.
LEMMA ExtractStep ==
  ASSUME TypeInv, TableInv, ExtractInv, Extract
  PROVE  TypeInv' /\ ExtractInv'
<1>1. /\ m \in Nat /\ k \in Nat /\ best \in Seq(Nat \X Nat) /\ RestOf(best) \in 0 .. m
      /\ round \in 1 .. k /\ ys \in Seq({0, 1})
  <2>1. /\ m \in Nat /\ k \in Nat /\ best \in Seq(Nat \X Nat) /\ RestOf(best) \in 0 .. m
        /\ round \in 0 .. k
    BY BestType
  <2>2. round > 0 /\ ys \in Seq({0, 1})  BY DEF Extract, TypeInv
  <2>3. round \in 1 .. k  BY <2>1, <2>2
  <2>. QED  BY <2>1, <2>2, <2>3
<1>2. PICK i \in 0 .. m : i = RestOf(best)
  BY <1>1
<1>3. cur # None /\ cur = P[<<i, round>>]
  BY <1>1, <1>2 DEF Extract, ExtractInv
<1>4. Filled(i, round) /\ \A a \in 0 .. m, b \in 0 .. k : Filled(a, b)
  BY <1>1 DEF ExtractInv, Filled, TypeInv
<1>5. CellInv(i, round)
  BY <1>1, <1>4 DEF TableInv
<1>6. PICK l \in 0 .. i, u \in 0 .. i :
        l <= u /\ P[<<i, round>>] = <<l, u>> /\ E[<<i, round>>] = Errors(l, u, i, round)
  BY <1>3, <1>5 DEF CellInv, Chosen
<1>7. /\ cur = <<l, u>> /\ best' = Append(best, <<l, u>>) /\ cur' = P[<<l, round - 1>>]
      /\ round' = IF cur' = None THEN 0 ELSE round - 1
      /\ UNCHANGED <<ys, k, E, P, cell, intervalsPc>>
  BY <1>3, <1>6 DEF Extract
<1>8. l \in Nat /\ u \in Nat /\ l \in 0 .. m /\ u \in 0 .. m /\ i \in Nat /\ i <= m /\ round - 1 \in 0 .. k
  BY <1>1
<1>9. m' = m /\ Intervals' = Intervals
  BY <1>7 DEF m, Intervals
<1>10. cur' \in Intervals \cup {None}
  BY <1>7, <1>8 DEF TypeInv
<1>11. round' \in 0 .. k
  BY <1>1, <1>7
<1>12. best' \in Seq(Intervals)
  <2>1. <<l, u>> \in Intervals  BY <1>8 DEF Intervals
  <2>. QED  BY <2>1, <1>7 DEF TypeInv
<1>13. TypeInv'
  BY <1>7, <1>9, <1>10, <1>11, <1>12 DEF TypeInv
<1>14. /\ Descending(best') /\ RestOf(best') = l /\ Len(best') = Len(best) + 1
       /\ CoveredBy(best') = CoveredBy(best) \cup (l + 1 .. u)
  <2>1. best # << >> => u <= best[Len(best)][1]
    BY <1>2 DEF RestOf
  <2>2. /\ Descending(best) /\ best \in Seq(Nat \X Nat)
        /\ l \in Nat /\ u \in Nat /\ l <= u
    BY <1>1, <1>6, <1>8 DEF ExtractInv
  <2>3. best' = Append(best, <<l, u>>)  BY <1>7
  <2>4. /\ Descending(Append(best, <<l, u>>)) /\ RestOf(Append(best, <<l, u>>)) = l
        /\ CoveredBy(Append(best, <<l, u>>)) = CoveredBy(best) \cup (l + 1 .. u)
        /\ Len(Append(best, <<l, u>>)) = Len(best) + 1
    BY <2>1, <2>2, DescendingAppend
  <2>. QED  BY <2>3, <2>4
<1>15. \A p \in CoveredBy(best) : p \in Nat /\ p > i
  <2>1. CASE best = << >>
    <3>1. \A p : p \notin CoveredBy(best)  BY <2>1, CoveredPoint
    <3>. QED  BY <3>1
  <2>2. CASE best # << >>
    <3>1. i = best[Len(best)][1]  BY <1>2, <2>2 DEF RestOf
    <3>2. Descending(best)  BY DEF ExtractInv
    <3>. QED  BY <3>1, <3>2, <2>2, <1>1, CoveredAbove
  <2>. QED  BY <2>1, <2>2
<1>16. Count(MissedSet(CoveredBy(best')), l, m)
         = Count(ZeroSet, l, u) + Count(OneSet, u, i) + Count(MissedSet(CoveredBy(best)), i, m)
  <2>1. PICK C : C = CoveredBy(best)  OBVIOUS
  <2>2. \A p \in C : p \in Nat /\ p > i  BY <2>1, <1>15
  <2>3. Count(MissedSet(C \cup (l + 1 .. u)), l, m)
          = Count(ZeroSet, l, u) + Count(OneSet, u, i) + Count(MissedSet(C), i, m)
    <3>1. ys \in Seq({0, 1}) /\ l \in Nat /\ u \in Nat /\ i \in Nat /\ l <= u /\ u <= i /\ i <= m
      BY <1>1, <1>6, <1>8
    <3>. QED  BY <3>1, <2>2, MissedStep
  <2>. QED  BY <2>1, <2>3, <1>14
<1>17. E[<<l, round - 1>>] \in Nat
  BY <1>8 DEF TypeInv
<1>18. E[<<i, round>>] = E[<<l, round - 1>>] + Count(ZeroSet, l, u) + Count(OneSet, u, i)
  <2>1. round \in Nat /\ l \in Nat /\ u \in Nat /\ i \in Nat /\ l <= u /\ u <= i
    BY <1>1, <1>6, <1>8
  <2>2. Errors(l, u, i, round) = E[<<l, round - 1>>] + Count(ZeroSet, l, u) + Count(OneSet, u, i)
    BY <2>1, <1>17, ErrorsCount
  <2>. QED  BY <2>2, <1>6
<1>19. E[<<l, round'>>] = E[<<l, round - 1>>]
  <2>1. CASE cur' # None  BY <2>1, <1>7
  <2>2. CASE cur' = None
    <3>1. CellInv(l, round - 1) /\ CellInv(l, 0)
      BY <1>1, <1>4, <1>8 DEF TableInv
    <3>2. l = 0 \/ round - 1 = 0
      <4>1. ASSUME l # 0 /\ round - 1 # 0  PROVE FALSE
        <5>1. PICK a \in 0 .. l, b \in 0 .. l : P[<<l, round - 1>>] = <<a, b>>
          BY <3>1, <4>1 DEF CellInv, Chosen
        <5>. QED  BY <5>1, <2>2, <1>7 DEF None
      <4>. QED  BY <4>1
    <3>3. E[<<l, round - 1>>] = Ones(0, l) /\ E[<<l, 0>>] = Ones(0, l)
      BY <3>1, <3>2 DEF CellInv
    <3>. QED  BY <3>3, <2>2, <1>7
  <2>. QED  BY <2>1, <2>2
<1>20. Count(MissedSet(CoveredBy(best)), i, m) + E[<<i, round>>] = E[<<m, k>>]
  BY <1>2 DEF ExtractInv
<1>21. /\ Count(ZeroSet, l, u) \in Nat /\ Count(OneSet, u, i) \in Nat
       /\ Count(MissedSet(CoveredBy(best)), i, m) \in Nat
  <2>1. u <= i  OBVIOUS
  <2>. QED  BY <2>1, <1>1, <1>6, <1>8, CountType
<1>22. Count(MissedSet(CoveredBy(best')), l, m) + E[<<l, round'>>] = E[<<m, k>>]
  BY <1>16, <1>17, <1>18, <1>19, <1>20, <1>21
<1>24. Len(best') + round' <= k
  <2>1. Len(best) + round <= k /\ Len(best) \in Nat  BY <1>1 DEF ExtractInv
  <2>. QED  BY <2>1, <1>1, <1>7, <1>14
<1>25. round' > 0 => cur' = P[<<RestOf(best'), round'>>] /\ cur' # None
  <2>1. SUFFICES ASSUME round' > 0  PROVE cur' = P[<<RestOf(best'), round'>>] /\ cur' # None
    OBVIOUS
  <2>2. cur' # None /\ round' = round - 1
    BY <2>1, <1>7
  <2>3. RestOf(best') = l  BY <1>14
  <2>. QED  BY <2>2, <2>3, <1>7
<1>26. RestOf(best)' = RestOf(best') /\ Descending(best)' /\ CoveredBy(best)' = CoveredBy(best')
  BY <1>9, <1>14 DEF RestOf, Descending, CoveredBy
<1>27. Count(MissedSet(CoveredBy(best)), RestOf(best), m)'
         = Count(MissedSet(CoveredBy(best')), l, m)
  BY <1>7, <1>9, <1>14, <1>26 DEF MissedSet, Count
<1>28. ExtractInv'
  <2>1. (cell[1] > m \/ k = 0)'  BY <1>7, <1>9 DEF ExtractInv
  <2>2. (Len(best) + round <= k)'  BY <1>7, <1>24
  <2>3. (round > 0 => cur = P[<<RestOf(best), round>>])'  BY <1>7, <1>25, <1>26
  <2>4. (cur = None /\ round > 0 => m = 0)'  BY <1>25 DEF None
  <2>6. (Count(MissedSet(CoveredBy(best)), RestOf(best), m) + E[<<RestOf(best), round>>] = E[<<m, k>>])'
    <3>1. E'[<<l, round'>>] = E[<<l, round'>>] /\ E'[<<m', k'>>] = E[<<m, k>>]  BY <1>7, <1>9
    <3>2. E'[<<RestOf(best)', round'>>] = E'[<<l, round'>>]  BY <1>14, <1>26
    <3>. QED  BY <3>1, <3>2, <1>22, <1>27
  <2>. QED  BY <2>1, <2>2, <2>3, <2>4, <2>6, <1>26 DEF ExtractInv
<1>. QED  BY <1>13, <1>28

----------------------------------------------------------------------------
(***************************************************************************)
(* The result.                                                             *)
(***************************************************************************)

\* What is asked of the intervals returned, when the table gives the errors.
Attains(s) ==
  /\ Len(s) <= k
  /\ \A n \in 1 .. Len(s) - 1 : s[n][2] <= s[n + 1][1]
  /\ Cardinality({p \in 1 .. m : (ys[p] = 1) # (p \in CoveredBy(s))}) = E[<<m, k>>]
  /\ E[<<m, k>>] = LeastErrors(m, k)

\* When the rounds are over the intervals found, sorted, are what is asked.
LEMMA SortedAttains ==
  ASSUME TypeInv, TableInv, ExtractInv, round = 0
  PROVE  Attains(Sorted(best))
<1>1. /\ m \in Nat /\ k \in Nat /\ best \in Seq(Nat \X Nat) /\ RestOf(best) \in 0 .. m
      /\ ys \in Seq({0, 1})
  BY BestType DEF TypeInv
<1>2. Descending(best)
  BY DEF ExtractInv
<1>3. PICK s : s = Sorted(best)
  OBVIOUS
<1>4. /\ s \in Seq(Nat \X Nat) /\ Len(s) = Len(best)
      /\ \A n \in DOMAIN best : \E a \in DOMAIN best : s[n] = best[a]
      /\ \A a \in DOMAIN best : \E n \in DOMAIN best : s[n] = best[a]
      /\ \A n \in 1 .. Len(best) - 1 : s[n][2] <= s[n + 1][1]
  BY <1>1, <1>2, <1>3, SortedApart
<1>5. Len(s) <= k
  <2>1. Len(best) + round <= k /\ Len(best) \in Nat  BY <1>1 DEF ExtractInv
  <2>. QED  BY <2>1, <1>1, <1>4
<1>6. CoveredBy(s) = CoveredBy(best)
  <2>1. DOMAIN s = DOMAIN best  BY <1>1, <1>4
  <2>2. ASSUME NEW p  PROVE p \in CoveredBy(s) <=> p \in CoveredBy(best)
    <3>1. p \in CoveredBy(s) <=> \E n \in DOMAIN best : p \in s[n][1] + 1 .. s[n][2]
      BY <2>1, CoveredPoint
    <3>2. p \in CoveredBy(best) <=> \E n \in DOMAIN best : p \in best[n][1] + 1 .. best[n][2]
      BY CoveredPoint
    <3>3. ASSUME NEW n \in DOMAIN best, p \in s[n][1] + 1 .. s[n][2]
          PROVE  \E a \in DOMAIN best : p \in best[a][1] + 1 .. best[a][2]
      <4>1. PICK a \in DOMAIN best : s[n] = best[a]  BY <1>4
      <4>. QED  BY <4>1, <3>3
    <3>4. ASSUME NEW a \in DOMAIN best, p \in best[a][1] + 1 .. best[a][2]
          PROVE  \E n \in DOMAIN best : p \in s[n][1] + 1 .. s[n][2]
      <4>1. PICK n \in DOMAIN best : s[n] = best[a]  BY <1>4
      <4>. QED  BY <4>1, <3>4
    <3>. QED  BY <3>1, <3>2, <3>3, <3>4
  <2>. QED  BY <2>2
<1>7. PICK C : C = CoveredBy(best)
  OBVIOUS
<1>8. PICK i \in 0 .. m : i = RestOf(best)
  BY <1>1
<1>9. \A p \in C : p \in Nat /\ p > i
  <2>1. CASE best = << >>
    <3>1. \A p : p \notin CoveredBy(best)  BY <2>1, CoveredPoint
    <3>. QED  BY <3>1, <1>7
  <2>2. CASE best # << >>
    <3>1. i = best[Len(best)][1]  BY <1>8, <2>2 DEF RestOf
    <3>. QED  BY <3>1, <2>2, <1>1, <1>2, <1>7, CoveredAbove
  <2>. QED  BY <2>1, <2>2
<1>10. Filled(i, 0) /\ Filled(m, k)
  BY <1>1 DEF Filled, ExtractInv, TypeInv
<1>11. CellInv(i, 0) /\ CellInv(m, k)
  <2>1. i \in 0 .. m /\ 0 \in 0 .. k /\ m \in 0 .. m /\ k \in 0 .. k  BY <1>1
  <2>. QED  BY <2>1, <1>10 DEF TableInv
<1>12. Count(MissedSet(C), 0, m) = Ones(0, i) + Count(MissedSet(C), i, m)
  <2>1. i \in Nat /\ i <= m  BY <1>1
  <2>. QED  BY <2>1, <1>1, <1>9, MissedBelow
<1>13. Count(MissedSet(C), i, m) + Ones(0, i) = E[<<m, k>>]
  <2>1. E[<<i, 0>>] = Ones(0, i)  BY <1>11 DEF CellInv
  <2>. QED  BY <2>1, <1>7, <1>8 DEF ExtractInv
<1>14. Count(MissedSet(C), i, m) \in Nat /\ Ones(0, i) \in Nat
  <2>1. i \in Nat /\ i <= m /\ 0 \in Nat /\ 0 <= i  BY <1>1
  <2>. QED  BY <2>1, <1>1, CountType, ZerosCount
<1>15. Cardinality({p \in 1 .. m : (ys[p] = 1) # (p \in C)}) = Count(MissedSet(C), 0, m)
  <2>1. {p \in 1 .. m : (ys[p] = 1) # (p \in C)} = {p \in 0 + 1 .. m : p \in MissedSet(C)}
    BY <1>1 DEF MissedSet
  <2>. QED  BY <2>1 DEF Count
<1>16. Cardinality({p \in 1 .. m : (ys[p] = 1) # (p \in CoveredBy(s))}) = E[<<m, k>>]
  BY <1>6, <1>7, <1>12, <1>13, <1>14, <1>15
<1>17. E[<<m, k>>] = LeastErrors(m, k)
  <2>1. E[<<m, k>>] \in Nat
    <3>1. <<m, k>> \in (0 .. m) \X (0 .. k)  BY <1>1
    <3>. QED  BY <3>1 DEF TypeInv
  <2>2. Least(E[<<m, k>>], m, k)  BY <1>11 DEF CellInv
  <2>. QED  BY <2>1, <2>2, <1>1, LeastValue
<1>18. \A n \in 1 .. Len(s) - 1 : s[n][2] <= s[n + 1][1]
  BY <1>4
<1>. QED  BY <1>3, <1>5, <1>16, <1>17, <1>18 DEF Attains

\* A step that leaves the labels and the tables leaves what is said of them.
LEMMA TableStays ==
  ASSUME TableInv, UNCHANGED <<ys, k, E, P, cell>>
  PROVE  TableInv'
<1>1. m' = m
  BY DEF m
<1>2. ASSUME NEW i \in 0 .. m, NEW j \in 0 .. k, Filled(i, j)'
      PROVE  CellInv(i, j)'
  <2>1. Filled(i, j)
    BY <1>2 DEF Filled
  <2>2. CellInv(i, j)
    BY <2>1 DEF TableInv
  <2>3. E' = E /\ P' = P /\ ys' = ys
    OBVIOUS
  <2>4. /\ Least(E'[<<i, j>>], i, j)
        /\ i = 0 \/ j = 0 => E'[<<i, j>>] = Ones(0, i) /\ P'[<<i, j>>] = None
        /\ i # 0 /\ j # 0 =>
             \E l, u \in 0 .. i : /\ l <= u /\ P'[<<i, j>>] = <<l, u>>
                                 /\ E'[<<i, j>>] = E'[<<l, j - 1>>] + Ones(u, i) + (u - l) - Ones(l, u)
    BY <2>2, <2>3 DEF CellInv, Chosen, Errors
  <2>. QED  BY <2>3, <2>4, CellNext
<1>3. (0 .. m)' = 0 .. m /\ (0 .. k)' = 0 .. k
  BY <1>1
<1>. QED  BY <1>2, <1>3 DEF TableInv

\* The invariant is about the variables alone.
LEMMA StutterInv ==
  ASSUME IInv, UNCHANGED intervalsVars
  PROVE  IInv'
<1>1. UNCHANGED <<ys, k, E, P, cell, best, cur, round, intervalsPc>>
  BY DEF intervalsVars
<1>2. m' = m /\ Intervals' = Intervals
  BY <1>1 DEF m, Intervals
<1>3. TypeInv'
  BY <1>1, <1>2 DEF IInv, TypeInv
<1>4. TableInv'
  BY <1>1, TableStays DEF IInv
<1>5. (intervalsPc = "fill" => best = << >> /\ round = k)'
  BY <1>1 DEF IInv
<1>6. (intervalsPc = "extract" => ExtractInv)'
  <2>1. RestOf(best)' = RestOf(best) /\ Descending(best)' = Descending(best)
    BY <1>1, <1>2 DEF RestOf, Descending
  <2>2. Count(MissedSet(CoveredBy(best)), RestOf(best), m)' = Count(MissedSet(CoveredBy(best)), RestOf(best), m)
    BY <1>1, <1>2, <2>1 DEF Count, MissedSet, CoveredBy
  <2>. QED  BY <1>1, <1>2, <2>1, <2>2 DEF IInv, ExtractInv
<1>7. IntervalsAttainBest'
  <2>1. LeastErrors(m, k)' = LeastErrors(m, k)
    BY <1>1, <1>2 DEF LeastErrors
  <2>2. Cardinality({p \in 1 .. m : (ys[p] = 1) # (p \in CoveredBy(best))})'
          = Cardinality({p \in 1 .. m : (ys[p] = 1) # (p \in CoveredBy(best))})
    BY <1>1, <1>2 DEF CoveredBy
  <2>. QED  BY <1>1, <1>2, <2>1, <2>2 DEF IInv, IntervalsAttainBest, CoveredBy
<1>. QED  BY <1>3, <1>4, <1>5, <1>6, <1>7 DEF IInv

\* The steps of the program keep the invariant.
LEMMA NextInv ==
  ASSUME IInv, IntervalsNext
  PROVE  IInv'
<1>1. CASE FillCell
  <2>1. TypeInv' /\ TableInv'
    BY <1>1, FillCellTable DEF IInv
  <2>2. intervalsPc' = "fill" /\ best' = << >> /\ round' = k'
    BY <1>1 DEF FillCell, IInv
  <2>. QED  BY <2>1, <2>2 DEF IInv, IntervalsAttainBest
<1>2. CASE TablesFull
  <2>1. /\ best = << >> /\ round = k /\ m \in Nat /\ k \in Nat /\ intervalsPc' = "extract"
        /\ UNCHANGED <<ys, k, E, P, cell, best, round>> /\ cur' = P[<<m, k>>]
        /\ cell[1] > m \/ k = 0
    BY <1>2, BestType DEF IInv, TablesFull
  <2>2. m' = m /\ Intervals' = Intervals
    BY <2>1 DEF m, Intervals
  <2>3. cur' \in Intervals \cup {None}
    <3>1. <<m, k>> \in (0 .. m) \X (0 .. k)  BY <2>1
    <3>. QED  BY <3>1, <2>1 DEF IInv, TypeInv
  <2>4. TypeInv'
    BY <2>1, <2>2, <2>3 DEF IInv, TypeInv
  <2>5. TableInv'
    BY <2>1, TableStays DEF IInv
  <2>6. cur' = None /\ k > 0 => m = 0
    <3>1. SUFFICES ASSUME cur' = None, k > 0, m # 0  PROVE FALSE
      OBVIOUS
    <3>2. m \in 0 .. m /\ k \in 0 .. k /\ Filled(m, k)
      BY <2>1 DEF Filled, IInv, TypeInv
    <3>3. Chosen(m, k)
      <4>1. CellInv(m, k)  BY <3>2 DEF IInv, TableInv
      <4>2. k # 0  BY <3>1, <2>1
      <4>. QED  BY <4>1, <4>2, <3>1 DEF CellInv
    <3>. QED  BY <3>1, <3>3, <2>1 DEF Chosen, None
  <2>7. E[<<m, k>>] \in Nat
    <3>1. <<m, k>> \in (0 .. m) \X (0 .. k)  BY <2>1
    <3>. QED  BY <3>1 DEF IInv, TypeInv
  <2>8. Count(MissedSet(CoveredBy(best)), RestOf(best), m)' = 0
    <3>1. (MissedSet(CoveredBy(best)) = MissedSet(CoveredBy(best)) /\ RestOf(best) = m)'
      BY <2>1 DEF RestOf
    <3>2. \A S : Count(S, m, m) = 0
      <4>1. \A p \in m + 1 .. m : FALSE  BY <2>1
      <4>. QED  BY <4>1, <2>1, CountNone
    <3>3. Count(MissedSet(CoveredBy(best))', m, m) = 0  BY <3>2
    <3>4. Count(MissedSet(CoveredBy(best)), RestOf(best), m)'
            = Count(MissedSet(CoveredBy(best))', m, m)
      BY <3>1, <2>2 DEF Count
    <3>. QED  BY <3>3, <3>4
  <2>9. ExtractInv'
    <3>1. RestOf(best)' = m  BY <2>1, <2>2 DEF RestOf
    <3>2. Descending(best)'  BY <2>1 DEF Descending
    <3>3. (Len(best) + round <= k)'  BY <2>1
    <3>4. (round > 0 => cur = P[<<RestOf(best), round>>])'  BY <2>1, <3>1
    <3>5. (Count(MissedSet(CoveredBy(best)), RestOf(best), m) + E[<<RestOf(best), round>>] = E[<<m, k>>])'
      <4>1. E'[<<RestOf(best)', round'>>] = E[<<m, k>>] /\ E'[<<m', k'>>] = E[<<m, k>>]
        BY <3>1, <2>1, <2>2
      <4>. QED  BY <4>1, <2>7, <2>8
    <3>. QED  BY <2>1, <2>2, <2>6, <3>2, <3>3, <3>4, <3>5 DEF ExtractInv
  <2>. QED  BY <2>1, <2>4, <2>5, <2>9 DEF IInv, IntervalsAttainBest
<1>3. CASE Extract
  <2>1. intervalsPc = "extract" /\ intervalsPc' = "extract" /\ UNCHANGED <<ys, k, E, P, cell>>
    BY <1>3 DEF Extract
  <2>2. TypeInv' /\ ExtractInv'
    BY <1>3, <2>1, ExtractStep DEF IInv
  <2>3. TableInv'
    BY <2>1, TableStays DEF IInv
  <2>. QED  BY <2>1, <2>2, <2>3 DEF IInv, IntervalsAttainBest
<1>4. CASE ExtractRaises
  <2>1. /\ intervalsPc = "extract" /\ intervalsPc' = "raised" /\ round > 0 /\ cur = None
        /\ UNCHANGED <<ys, k, E, P, cell, best, cur, round>>
    BY <1>4 DEF ExtractRaises
  <2>2. TypeInv'
    BY <2>1 DEF IInv, TypeInv, Intervals, m
  <2>3. TableInv'
    BY <2>1, TableStays DEF IInv
  <2>4. m = 0 /\ k > 0
    <3>1. round \in 0 .. k /\ k \in Nat  BY BestType DEF IInv
    <3>2. ExtractInv  BY <2>1 DEF IInv
    <3>. QED  BY <2>1, <3>1, <3>2 DEF ExtractInv
  <2>5. m' = 0 /\ k' > 0
    BY <2>1, <2>4 DEF m
  <2>. QED  BY <2>1, <2>2, <2>3, <2>5 DEF IInv, IntervalsAttainBest
<1>5. CASE Sort
  <2>1. /\ intervalsPc = "extract" /\ intervalsPc' = "done" /\ round = 0 /\ best' = Sorted(best)
        /\ UNCHANGED <<ys, k, E, P, cell, cur, round>>
    BY <1>5 DEF Sort
  <2>2. m' = m /\ Intervals' = Intervals
    BY <2>1 DEF m, Intervals
  <2>3. Attains(best')
    BY <2>1, SortedAttains DEF IInv
  <2>4. best' \in Seq(Intervals)
    <3>1. best \in Seq(Nat \X Nat) /\ Descending(best) /\ best \in Seq(Intervals)
      BY <2>1, BestType DEF IInv, ExtractInv, TypeInv
    <3>2. PICK s : s = Sorted(best)  OBVIOUS
    <3>3. /\ s \in Seq(Nat \X Nat) /\ Len(s) = Len(best)
          /\ \A n \in DOMAIN best : \E a \in DOMAIN best : s[n] = best[a]
      BY <3>1, <3>2, SortedApart
    <3>4. \A n \in 1 .. Len(s) : s[n] \in Intervals
      <4>1. \A a \in DOMAIN best : best[a] \in Intervals  BY <3>1
      <4>2. DOMAIN best = 1 .. Len(s)  BY <3>1, <3>3
      <4>. QED  BY <4>1, <4>2, <3>3
    <3>5. s \in Seq(Intervals)
      <4>1. Len(s) \in Nat /\ s = [n \in 1 .. Len(s) |-> s[n]]  BY <3>3
      <4>. QED  BY <4>1, <3>4
    <3>. QED  BY <3>2, <3>5, <2>1
  <2>5. TypeInv'
    BY <2>1, <2>2, <2>4 DEF IInv, TypeInv
  <2>6. TableInv'
    BY <2>1, TableStays DEF IInv
  <2>7. LeastErrors(m, k)' = LeastErrors(m, k)
    BY <2>1, <2>2 DEF LeastErrors
  <2>8. IntervalsAttainBest'
    BY <2>1, <2>2, <2>3, <2>7 DEF IntervalsAttainBest, Attains, CoveredBy
  <2>. QED  BY <2>1, <2>5, <2>6, <2>8 DEF IInv
<1>. QED  BY <1>1, <1>2, <1>3, <1>4, <1>5 DEF IntervalsNext

\* The inductive invariant holds of every call, whatever the labels and the number of
\* intervals.
THEOREM IntervalsInvariance == IntervalsSpec => []IInv
<1>1. IntervalsInit => IInv
  BY StartsInv DEF IntervalsInit
<1>2. IInv /\ [IntervalsNext]_intervalsVars => IInv'
  BY NextInv, StutterInv
<1>. QED  BY <1>1, <1>2, PTL DEF IntervalsSpec

\* The intervals returned are at most k, in order and apart, make the number of errors
\* returned, and no k intervals make fewer; only a call without points fails.
THEOREM IntervalsCorrect == IntervalsSpec => []IntervalsAttainBest
<1>1. IInv => IntervalsAttainBest
  BY DEF IInv
<1>. QED  BY <1>1, IntervalsInvariance, PTL
=============================================================================
