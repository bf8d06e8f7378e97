------------------------- MODULE BusinessTimeProofs -------------------------
(***************************************************************************)
(* Business time is what a count of the working units says, for every      *)
(* calendar of accepted hours and every two moments.                       *)
(*                                                                         *)
(* Sums over intervals and days are cardinalities of disjoint sets of      *)
(* working units.  What holds of every step of a sum or of a walk is shown *)
(* from the least number or the smallest set at which it would fail.       *)
(***************************************************************************)
EXTENDS BusinessTime, FiniteSetTheorems, WellFoundedInduction, TLAPS

-----------------------------------------------------------------------------
(* The least natural number of a set *)

Before == {ss \in Nat \X Nat : ss[1] < ss[2]}

LEMMA BeforeIsWellFounded == IsWellFoundedOn(Before, Nat)
<1>1. OpToRel(<, Nat) = Before
  BY Zenon DEF OpToRel, Before
<1> QED
  BY <1>1, NatLessThanWellFounded, Zenon

LEMMA Least ==
  ASSUME NEW S, S \subseteq Nat, S # {}
  PROVE  \E n \in S : \A m \in S : n <= m
<1>1. PICK n \in S : \A m \in S : ~(<<m, n>> \in Before)
  BY BeforeIsWellFounded, WFMin, Zenon
<1>2. \A m \in S : ~(m < n)
  BY <1>1 DEF Before
<1> QED
  BY <1>2

\* What holds at 0 and is handed on up to n holds up to n.
LEMMA Climb ==
  ASSUME NEW n \in Nat, NEW T \in SUBSET (0 .. n), 0 \in T,
         \A i \in 0 .. (n - 1) : i \in T => i + 1 \in T
  PROVE  T = 0 .. n
<1> SUFFICES ASSUME (0 .. n) \ T # {}
             PROVE  FALSE
  OBVIOUS
<1>1. PICK i \in (0 .. n) \ T : \A j \in (0 .. n) \ T : i <= j
  <2> DEFINE S == (0 .. n) \ T
  <2>1. S \subseteq Nat /\ S # {}
    OBVIOUS
  <2> HIDE DEF S
  <2>2. \E i \in S : \A j \in S : i <= j
    BY <2>1, Least
  <2> QED
    BY <2>2 DEF S
<1>2. i - 1 \in 0 .. (n - 1) /\ i - 1 \notin (0 .. n) \ T
  BY <1>1
<1> QED
  BY <1>1, <1>2

\* A function that is defined along the numbers up to n exists.
Along(g, n, base, F) == g[0] = base /\ \A i \in 1 .. n : g[i] = F[<<g[i - 1], i>>]

LEMMA Recursion ==
  ASSUME NEW X, NEW base \in X, NEW n \in Nat, NEW F \in [X \X (1 .. n) -> X]
  PROVE  \E g \in [0 .. n -> X] : Along(g, n, base, F)
<1> DEFINE Upto(k, g) == g[0] = base /\ \A i \in 1 .. k : g[i] = F[<<g[i - 1], i>>]
           T == {k \in 0 .. n : \E g \in [0 .. k -> X] : Upto(k, g)}
<1>1. 0 \in T
  <2> DEFINE g == [i \in 0 .. 0 |-> base]
  <2>1. g \in [0 .. 0 -> X] /\ Upto(0, g)
    OBVIOUS
  <2> HIDE DEF g, Upto
  <2> QED
    BY <2>1
<1>2. ASSUME NEW k \in 0 .. (n - 1), k \in T
      PROVE  k + 1 \in T
  <2>1. PICK g \in [0 .. k -> X] : Upto(k, g)
    BY <1>2
  <2>2. PICK x \in X : x = F[<<g[k], k + 1>>]
    <3>1. g[k] \in X /\ k + 1 \in 1 .. n
      OBVIOUS
    <3> QED
      BY <3>1
  <2> DEFINE h == [i \in 0 .. (k + 1) |-> IF i = k + 1 THEN x ELSE g[i]]
  <2>3. h \in [0 .. (k + 1) -> X]
    OBVIOUS
  <2>4. h[0] = base
    BY <2>1
  <2>5. ASSUME NEW i \in 1 .. (k + 1)
        PROVE  h[i] = F[<<h[i - 1], i>>]
    <3>1. i - 1 \in 0 .. k /\ i - 1 # k + 1
      OBVIOUS
    <3>2. h[i - 1] = g[i - 1]
      BY <3>1
    <3>3. CASE i = k + 1
      <4>1. i - 1 = k /\ h[i] = x
        BY <3>3
      <4> QED
        BY <2>2, <3>2, <3>3, <4>1
    <3>4. CASE i # k + 1
      <4>1. i \in 1 .. k /\ h[i] = g[i]
        BY <3>4
      <4>2. g[i] = F[<<g[i - 1], i>>]
        BY <2>1, <4>1
      <4> QED
        BY <3>2, <4>1, <4>2
    <3> QED
      BY <3>3, <3>4
  <2> HIDE DEF h
  <2>6. Upto(k + 1, h) /\ k + 1 \in 0 .. n
    BY <2>4, <2>5
  <2> HIDE DEF Upto
  <2> QED
    BY <2>3, <2>6
<1>3. T \in SUBSET (0 .. n) /\ n \in 0 .. n
  OBVIOUS
<1>4. \E g \in [0 .. n -> X] : Upto(n, g)
  <2> HIDE DEF T
  <2>1. n \in T
    BY <1>1, <1>2, <1>3, Climb
  <2> QED
    BY <2>1 DEF T
<1> QED
  BY <1>4 DEF Along

-----------------------------------------------------------------------------
(* Sums *)

\* A sum as its definition's recursive function computes it, for each set of indices.
Term(f, g, s) ==
  IF s = {} THEN 0 ELSE f[CHOOSE x \in s : TRUE] + g[s \ {CHOOSE x \in s : TRUE}]
Sums(f, S) == CHOOSE g : g = [s \in SUBSET S |-> Term(f, g, s)]

LEMMA SumIs ==
  ASSUME NEW f, NEW S
  PROVE  SumFunctionOnSet(f, S) = Sums(f, S)[S]
BY DEF SumFunctionOnSet, FoldFunctionOnSet, MapThenFoldSet, Sums, Term

LEMMA Joined ==
  ASSUME NEW A, NEW B, IsFiniteSet(A), IsFiniteSet(B), A \intersect B = {}
  PROVE  /\ IsFiniteSet(A \union B)
         /\ Cardinality(A \union B) = Cardinality(A) + Cardinality(B)
         /\ Cardinality(A) \in Nat /\ Cardinality(B) \in Nat
<1>1. Cardinality(A \intersect B) = 0
  BY FS_EmptySet
<1>2. /\ IsFiniteSet(A \union B)
      /\ Cardinality(A \union B) = Cardinality(A) + Cardinality(B) - Cardinality(A \intersect B)
  BY FS_Union
<1>3. Cardinality(A) \in Nat /\ Cardinality(B) \in Nat
  BY FS_CardinalityType
<1> QED
  BY <1>1, <1>2, <1>3

\* A sum of the sizes of disjoint sets is the size of their union.
LEMMA SumOfSizes ==
  ASSUME NEW S, IsFiniteSet(S), NEW A, IsFiniteSet(A), NEW W \in [S -> SUBSET A],
         \A x, y \in S : x # y => W[x] \intersect W[y] = {},
         NEW f, DOMAIN f = S, \A x \in S : f[x] = Cardinality(W[x])
  PROVE  SumFunction(f) = Cardinality(UNION {W[x] : x \in S})
<1> DEFINE All(s) == UNION {W[x] : x \in s}
           g == [s \in SUBSET S |-> Cardinality(All(s))]
<1>1. \A s \in SUBSET S : IsFiniteSet(All(s)) /\ All(s) \in SUBSET A
  BY FS_Subset
<1>2. ASSUME NEW s \in SUBSET S, NEW x \in s
      PROVE  Cardinality(All(s)) = f[x] + Cardinality(All(s \ {x}))
  <2>1. All(s) = W[x] \union All(s \ {x}) /\ W[x] \intersect All(s \ {x}) = {}
    OBVIOUS
  <2>2. IsFiniteSet(W[x]) /\ IsFiniteSet(All(s \ {x}))
    BY <1>1, FS_Subset
  <2>3. f[x] = Cardinality(W[x])
    OBVIOUS
  <2> HIDE DEF All
  <2>4. Cardinality(W[x] \union All(s \ {x})) = Cardinality(W[x]) + Cardinality(All(s \ {x}))
    BY <2>1, <2>2, Joined
  <2> QED
    BY <2>1, <2>3, <2>4
<1>3. Cardinality(All({})) = 0
  <2>1. All({}) = {}
    OBVIOUS
  <2> QED
    BY <2>1, FS_EmptySet
<1> HIDE DEF All
<1>4. g = [s \in SUBSET S |-> Term(f, g, s)]
  <2> SUFFICES ASSUME NEW s \in SUBSET S
               PROVE  g[s] = Term(f, g, s)
    BY Zenon
  <2>1. CASE s = {}
    BY <1>3, <2>1 DEF Term
  <2>2. CASE s # {}
    <3>1. PICK x \in s : x = (CHOOSE y \in s : TRUE)
      BY <2>2
    <3>2. g[s] = f[x] + g[s \ {x}]
      BY <1>2
    <3> HIDE DEF g
    <3> QED
      BY <2>2, <3>1, <3>2 DEF Term
  <2> QED
    BY <2>1, <2>2
<1> DEFINE h == Sums(f, S)
<1>5. h = [s \in SUBSET S |-> Term(f, h, s)]
  <2> HIDE DEF g
  <2> QED
    BY <1>4, Zenon DEF Sums
<1> HIDE DEF h
<1> DEFINE Wrong == {n \in Nat : \E s \in SUBSET S : Cardinality(s) = n /\ h[s] # Cardinality(All(s))}
<1>6. Wrong = {}
  <2> SUFFICES ASSUME Wrong # {}
               PROVE  FALSE
    OBVIOUS
  <2>1. PICK n \in Wrong : \A m \in Wrong : n <= m
    BY Least
  <2>2. PICK s \in SUBSET S : Cardinality(s) = n /\ h[s] # Cardinality(All(s))
    OBVIOUS
  <2>3. h[s] = Term(f, h, s)
    BY <1>5, Zenon
  <2>4. s # {}
    <3> SUFFICES ASSUME s = {} PROVE FALSE
      OBVIOUS
    <3>1. h[s] = 0
      BY <2>3 DEF Term
    <3> QED
      BY <1>3, <2>2, <3>1
  <2>5. PICK x \in s : x = (CHOOSE y \in s : TRUE)
    BY <2>4
  <2>6. h[s] = f[x] + h[s \ {x}]
    BY <2>3, <2>4, <2>5 DEF Term
  <2>7. Cardinality(s \ {x}) = n - 1 /\ n - 1 \in Nat /\ s \ {x} \in SUBSET S
    <3>1. IsFiniteSet(s) /\ IsFiniteSet(s \ {x})
      BY FS_Subset
    <3> QED
      BY <2>2, <3>1, FS_RemoveElement, FS_CardinalityType
  <2>8. n - 1 \notin Wrong
    BY <2>1
  <2>9. h[s \ {x}] = Cardinality(All(s \ {x}))
    BY <2>7, <2>8
  <2> QED
    BY <1>2, <2>2, <2>6, <2>9
<1>7. h[S] = Cardinality(All(S))
  <2>1. Cardinality(S) \in Nat /\ Cardinality(S) \notin Wrong
    BY <1>6, FS_CardinalityType
  <2> QED
    BY <2>1
<1>8. SumFunction(f) = h[S]
  BY SumIs DEF SumFunction, h
<1> QED
  BY <1>7, <1>8 DEF All

-----------------------------------------------------------------------------
(* Working units *)

Working(c, a, b) == {u \in a .. (b - 1) : Works(c, u)}

LEMMA BetweenType ==
  ASSUME NEW c, NEW a \in Int, NEW b \in Int
  PROVE  /\ IsFiniteSet(Working(c, a, b)) /\ Between(c, a, b) = Cardinality(Working(c, a, b))
         /\ Between(c, a, b) \in Nat
         /\ b <= a => Between(c, a, b) = 0
<1>1. IsFiniteSet(a .. (b - 1)) /\ Working(c, a, b) \in SUBSET (a .. (b - 1))
  BY FS_Interval DEF Working
<1>2. IsFiniteSet(Working(c, a, b)) /\ Between(c, a, b) = Cardinality(Working(c, a, b))
  BY <1>1, FS_Subset DEF Working, Between
<1>3. b <= a => Working(c, a, b) = {}
  BY <1>1
<1> QED
  BY <1>2, <1>3, FS_CardinalityType, FS_EmptySet

LEMMA BetweenJoins ==
  ASSUME NEW c, NEW a \in Int, NEW b \in Int, NEW e \in Int, a <= b, b <= e
  PROVE  Between(c, a, e) = Between(c, a, b) + Between(c, b, e)
<1>1. /\ Working(c, a, e) = Working(c, a, b) \union Working(c, b, e)
      /\ Working(c, a, b) \intersect Working(c, b, e) = {}
  BY DEF Working
<1>2. Cardinality(Working(c, a, e)) = Cardinality(Working(c, a, b)) + Cardinality(Working(c, b, e))
  BY <1>1, BetweenType, Joined
<1> QED
  BY <1>2, BetweenType

LEMMA BetweenAll ==
  ASSUME NEW c, NEW a \in Int, NEW b \in Int, a <= b, \A u \in a .. (b - 1) : Works(c, u)
  PROVE  Between(c, a, b) = b - a
<1>1. Working(c, a, b) = a .. (b - 1)
  BY DEF Working
<1>2. Cardinality(a .. (b - 1)) = b - a
  <2>1. b - 1 \in Int
    OBVIOUS
  <2>2. Cardinality(a .. (b - 1)) = IF a > b - 1 THEN 0 ELSE (b - 1) - a + 1
    BY <2>1, FS_Interval
  <2> QED
    BY <2>2
<1> QED
  BY <1>1, <1>2, BetweenType

LEMMA BetweenNone ==
  ASSUME NEW c, NEW a \in Int, NEW b \in Int, \A u \in a .. (b - 1) : ~Works(c, u)
  PROVE  Between(c, a, b) = 0
<1>1. Working(c, a, b) = {}
  BY DEF Working
<1> QED
  BY <1>1, BetweenType, FS_EmptySet

-----------------------------------------------------------------------------
(* Days *)

LEMMA Nonlinear ==
  ASSUME NEW p \in Int, NEW q \in Int, p < q
  PROVE  p * DayLength + DayLength <= q * DayLength
<1>1. PICK k \in Nat : q = p + 1 + k
  <2>1. q - p - 1 \in Nat /\ q = p + 1 + (q - p - 1)
    OBVIOUS
  <2> QED
    BY <2>1
<1>2. k * DayLength >= 0
  BY LengthsAssumption
<1>3. (p + 1 + k) * DayLength = p * DayLength + DayLength + k * DayLength
  BY LengthsAssumption
<1>4. p * DayLength \in Int /\ k * DayLength \in Int /\ DayLength \in Int
  BY LengthsAssumption
<1> QED
  BY <1>1, <1>2, <1>3, <1>4

LEMMA DayIs ==
  ASSUME NEW u \in Int
  PROVE  /\ DayOf(u) \in Int
         /\ DayOf(u) * DayLength <= u /\ u < DayOf(u) * DayLength + DayLength
         /\ u % DayLength = u - DayOf(u) * DayLength /\ u % DayLength \in 0 .. (DayLength - 1)
<1>1. DayLength \in Int /\ DayLength > 0
  BY LengthsAssumption
<1>2. PICK D \in Int, q \in Int, r \in Int :
        D = DayLength /\ q = u \div DayLength /\ r = u % DayLength /\ 0 <= r /\ r < D
  BY <1>1
<1>3. u = q * D + r
  BY <1>1, <1>2
<1>4. q * D \in Int
  OBVIOUS
<1>5. DayOf(u) = q /\ DayOf(u) * DayLength = q * D
  BY <1>2 DEF DayOf
<1> QED
  BY <1>2, <1>3, <1>4, <1>5

LEMMA DayUnique ==
  ASSUME NEW u \in Int, NEW d \in Int, d * DayLength <= u, u < d * DayLength + DayLength
  PROVE  DayOf(u) = d
<1>1. DayLength \in Int /\ d * DayLength \in Int /\ DayOf(u) * DayLength \in Int
  BY DayIs, LengthsAssumption
<1>2. ~(d < DayOf(u))
  <2> SUFFICES ASSUME d < DayOf(u) PROVE FALSE
    OBVIOUS
  <2>1. d * DayLength + DayLength <= DayOf(u) * DayLength
    BY DayIs, Nonlinear
  <2> QED
    BY <1>1, <2>1, DayIs
<1>3. ~(DayOf(u) < d)
  <2> SUFFICES ASSUME DayOf(u) < d PROVE FALSE
    OBVIOUS
  <2>1. DayOf(u) * DayLength + DayLength <= d * DayLength
    BY DayIs, Nonlinear
  <2> QED
    BY <1>1, <2>1, DayIs
<1> QED
  BY <1>2, <1>3, DayIs

LEMMA DaysGrow ==
  ASSUME NEW u \in Int, NEW v \in Int, u <= v
  PROVE  DayOf(u) <= DayOf(v)
<1> SUFFICES ASSUME DayOf(v) < DayOf(u) PROVE FALSE
  BY DayIs
<1>1. DayOf(v) * DayLength + DayLength <= DayOf(u) * DayLength
  BY DayIs, Nonlinear
<1>2. DayLength \in Int /\ DayOf(v) \in Int /\ DayOf(u) \in Int
  BY DayIs, LengthsAssumption
<1>3. DayOf(v) * DayLength \in Int /\ DayOf(u) * DayLength \in Int
  BY <1>2
<1> QED
  BY <1>1, <1>2, <1>3, DayIs

-----------------------------------------------------------------------------
(* The intervals of a day *)

LEMMA Chained ==
  ASSUME NEW n \in Nat, NEW A \in [1 .. n -> Int], NEW B \in [1 .. n -> Int],
         \A k \in 1 .. n : A[k] < B[k],
         \A k \in 1 .. (n - 1) : B[k] <= A[k + 1],
         NEW i \in 1 .. n, NEW j \in 1 .. n, i < j
  PROVE  B[i] <= A[j]
<1> DEFINE T == {k \in 0 .. (j - i - 1) : B[i] <= A[i + 1 + k]}
<1>1. j - i - 1 \in Nat /\ j - i - 1 - 1 = j - i - 2
  OBVIOUS
<1>2. 0 \in T
  <2>1. i + 1 + 0 = i + 1 /\ i \in 1 .. (n - 1) /\ 0 \in 0 .. (j - i - 1)
    OBVIOUS
  <2>2. B[i] <= A[i + 1]
    BY <2>1
  <2> QED
    BY <2>1, <2>2
<1>3. ASSUME NEW k \in 0 .. (j - i - 2), k \in T
      PROVE  k + 1 \in T
  <2>1. PICK m \in 1 .. (n - 1) : m = i + 1 + k
    OBVIOUS
  <2>2. B[i] <= A[m] /\ A[m] < B[m] /\ B[m] <= A[m + 1]
    BY <1>3, <2>1
  <2>3. B[i] <= A[m + 1]
    BY <2>2
  <2>4. i + 1 + (k + 1) = m + 1 /\ k + 1 \in 0 .. (j - i - 1)
    BY <2>1
  <2> QED
    BY <2>3, <2>4
<1>4. T = 0 .. (j - i - 1)
  <2>1. T \in SUBSET (0 .. (j - i - 1))
    OBVIOUS
  <2>2. \A k \in 0 .. (j - i - 1 - 1) : k \in T => k + 1 \in T
    BY <1>1, <1>3
  <2> HIDE DEF T
  <2> QED
    BY <1>1, <1>2, <2>1, <2>2, Climb
<1>5. j - i - 1 \in T
  <2>1. j - i - 1 \in 0 .. (j - i - 1)
    BY <1>1
  <2> HIDE DEF T
  <2> QED
    BY <1>4, <2>1
<1>6. i + 1 + (j - i - 1) = j
  OBVIOUS
<1> QED
  BY <1>5, <1>6

\* Accepted intervals are in order, each before all that come later.
LEMMA SpansInOrder ==
  ASSUME NEW spans \in Seq([from : Int, to : Int]), FitsDay(spans),
         NEW i \in DOMAIN spans, NEW j \in DOMAIN spans, i < j
  PROVE  spans[i].to <= spans[j].from
<1>1. PICK n \in Nat : n = Len(spans) /\ DOMAIN spans = 1 .. n
  OBVIOUS
<1>2. spans \in [1 .. n -> [from : Int, to : Int]]
  <2> DEFINE Spanned == [from : Int, to : Int]
  <2>1. spans \in Seq(Spanned)
    OBVIOUS
  <2> HIDE DEF Spanned
  <2>2. spans \in [1 .. n -> Spanned]
    BY <1>1, <2>1
  <2> QED
    BY <2>2 DEF Spanned
<1> DEFINE A == [k \in 1 .. n |-> spans[k].from]
           B == [k \in 1 .. n |-> spans[k].to]
<1>3. A \in [1 .. n -> Int] /\ B \in [1 .. n -> Int]
  BY <1>2
<1>4. /\ \A k \in 1 .. n : A[k] < B[k]
      /\ \A k \in 1 .. (n - 1) : B[k] <= A[k + 1]
  <2>1. \A k \in 1 .. n : spans[k].from < spans[k].to
    BY <1>1 DEF FitsDay
  <2>2. \A k \in 1 .. (n - 1) : spans[k].to <= spans[k + 1].from
    BY <1>1 DEF FitsDay
  <2>3. \A k \in 1 .. (n - 1) : k \in 1 .. n /\ k + 1 \in 1 .. n
    OBVIOUS
  <2> QED
    BY <2>1, <2>2, <2>3
<1>5. B[i] = spans[i].to /\ A[j] = spans[j].from /\ i \in 1 .. n /\ j \in 1 .. n
  BY <1>1
<1> HIDE DEF A, B
<1>6. B[i] <= A[j]
  BY <1>3, <1>4, <1>5, Chained
<1> QED
  BY <1>5, <1>6

\* The intervals of a working day, in order and within the day, hold its working units.
LEMMA SpansAre ==
  ASSUME NEW c \in Calendar, ~c.always, NEW day \in Int
  PROVE  \E n \in Nat :
           /\ Len(Spans(c, day)) = n /\ DOMAIN Spans(c, day) = 1 .. n
           /\ \A i \in 1 .. n : /\ Spans(c, day)[i].from \in Int /\ Spans(c, day)[i].to \in Int
                                /\ day * DayLength <= Spans(c, day)[i].from
                                /\ Spans(c, day)[i].from < Spans(c, day)[i].to
                                /\ Spans(c, day)[i].to <= day * DayLength + DayLength
           /\ \A i, j \in 1 .. n : i < j => Spans(c, day)[i].to <= Spans(c, day)[j].from
           /\ \A u \in Int : day * DayLength <= u /\ u < day * DayLength + DayLength =>
                (Works(c, u) <=> \E i \in 1 .. n : /\ Spans(c, day)[i].from <= u
                                                  /\ u < Spans(c, day)[i].to)
<1>1. CASE day \in c.holidays
  <2>1. Spans(c, day) = <<>> /\ Len(<<>>) = 0 /\ DOMAIN <<>> = 1 .. 0
    BY <1>1 DEF Spans
  <2>2. \A u \in Int : day * DayLength <= u /\ u < day * DayLength + DayLength => ~Works(c, u)
    BY <1>1, DayUnique DEF Works
  <2> QED
    BY <2>1, <2>2
<1>2. CASE day \notin c.holidays
  <2>1. day % WeekLength \in Weekdays
    BY LengthsAssumption DEF Weekdays
  <2>2. PICK hours : hours = c.hours[day % WeekLength]
    OBVIOUS
  <2>3. hours \in Seq(Interval) /\ FitsDay(hours)
    BY <2>1, <2>2 DEF Calendar
  <2>4. PICK n \in Nat : n = Len(hours) /\ DOMAIN hours = 1 .. n /\ hours \in [1 .. n -> Interval]
    BY <2>3
  <2>5. \A i \in 1 .. n : /\ hours[i].from \in Int /\ hours[i].to \in Int
                          /\ 0 <= hours[i].from /\ hours[i].from < hours[i].to
                          /\ hours[i].to <= DayLength
    <3>1. \A i \in 1 .. n : hours[i].from < hours[i].to
      BY <2>3, <2>4 DEF FitsDay
    <3>2. \A i \in 1 .. n : hours[i] \in Interval
      BY <2>4
    <3>3. \A i \in 1 .. n : hours[i].from \in 0 .. DayLength /\ hours[i].to \in 0 .. DayLength
      BY <3>2 DEF Interval
    <3>4. DayLength \in Int
      BY LengthsAssumption
    <3> QED
      BY <3>1, <3>3, <3>4
  <2>6. \A i, j \in 1 .. n : i < j => hours[i].to <= hours[j].from
    <3>1. hours \in Seq([from : Int, to : Int])
      <4> DEFINE Spanned == [from : Int, to : Int]
      <4>1. Interval \subseteq Spanned
        BY LengthsAssumption DEF Interval
      <4> HIDE DEF Spanned
      <4>2. hours \in Seq(Spanned)
        BY <2>3, <4>1
      <4> QED
        BY <4>2 DEF Spanned
    <3> QED
      BY <2>3, <2>4, <3>1, SpansInOrder
  <2> DEFINE start == day * DayLength
             spans == [i \in DOMAIN hours |-> [from |-> start + hours[i].from,
                                              to |-> start + hours[i].to]]
  <2>7. Spans(c, day) = spans
    BY <1>2, <2>2 DEF Spans
  <2>8. start \in Int /\ DayLength \in Int
    BY LengthsAssumption
  <2>9. \A u \in Int : start <= u /\ u < start + DayLength =>
          (Works(c, u) <=> \E i \in 1 .. n : hours[i].from <= u - start /\ u - start < hours[i].to)
    <3> SUFFICES ASSUME NEW u \in Int, start <= u, u < start + DayLength
                 PROVE  Works(c, u) <=> \E i \in 1 .. n : /\ hours[i].from <= u - start
                                                         /\ u - start < hours[i].to
      OBVIOUS
    <3>1. DayOf(u) = day /\ u % DayLength = u - start
      BY DayUnique, DayIs
    <3> HIDE DEF start
    <3> QED
      BY <1>2, <2>2, <2>4, <3>1 DEF Works
  <2>10. \A i \in 1 .. n : spans[i].from = start + hours[i].from /\ spans[i].to = start + hours[i].to
    BY <2>4
  <2>11. DOMAIN spans = 1 .. n /\ Len(spans) = n
    BY <2>4
  <2> HIDE DEF spans
  <2>12. \A i \in 1 .. n : /\ spans[i].from \in Int /\ spans[i].to \in Int
                           /\ start <= spans[i].from /\ spans[i].from < spans[i].to
                           /\ spans[i].to <= start + DayLength
    <3> HIDE DEF start
    <3> QED
      BY <2>5, <2>8, <2>10
  <2>13. \A i, j \in 1 .. n : i < j => spans[i].to <= spans[j].from
    <3> HIDE DEF start
    <3> QED
      BY <2>5, <2>6, <2>8, <2>10
  <2>14. \A u \in Int : start <= u /\ u < start + DayLength =>
           (Works(c, u) <=> \E i \in 1 .. n : spans[i].from <= u /\ u < spans[i].to)
    <3> HIDE DEF start
    <3>1. \A u \in Int, i \in 1 .. n :
            (hours[i].from <= u - start /\ u - start < hours[i].to)
              <=> (spans[i].from <= u /\ u < spans[i].to)
      BY <2>5, <2>8, <2>10
    <3> QED
      BY <2>9, <3>1
  <2> QED
    BY <2>7, <2>11, <2>12, <2>13, <2>14
<1> QED
  BY <1>1, <1>2

-----------------------------------------------------------------------------
(* Elapsed time *)

LEMMA OverlapIs ==
  ASSUME NEW x \in Int, NEW y \in Int, NEW a \in Int, NEW b \in Int,
         NEW span, span.from = x, span.to = y
  PROVE  LET units == {u \in a .. (b - 1) : x <= u /\ u < y}
         IN IsFiniteSet(units) /\ Overlap(span, a, b) = Cardinality(units)
<1> DEFINE p == Later(x, a)
           q == Earlier(y, b)
<1>1. /\ p \in Int /\ q \in Int /\ q - 1 \in Int
      /\ {u \in a .. (b - 1) : x <= u /\ u < y} = p .. (q - 1)
      /\ Overlap(span, a, b) = IF 0 < q - p THEN q - p ELSE 0
  BY DEF Later, Earlier, Overlap
<1> HIDE DEF p, q
<1>2. IsFiniteSet(p .. (q - 1)) /\ Cardinality(p .. (q - 1)) = IF p > q - 1 THEN 0 ELSE (q - 1) - p + 1
  BY <1>1, FS_Interval
<1>3. Overlap(span, a, b) = Cardinality(p .. (q - 1))
  BY <1>1, <1>2
<1> QED
  BY <1>1, <1>2, <1>3

\* The working units of a day, within two moments.
OnDay(c, day, a, b) == {u \in Working(c, a, b) : DayOf(u) = day}

LEMMA WorkedOnIs ==
  ASSUME NEW c \in Calendar, ~c.always, NEW day \in Int, NEW a \in Int, NEW b \in Int
  PROVE  WorkedOn(c, day, a, b) = Cardinality(OnDay(c, day, a, b))
<1>1. PICK spans : spans = Spans(c, day)
  OBVIOUS
<1> DEFINE start == day * DayLength
<1>2. PICK n \in Nat :
        /\ DOMAIN spans = 1 .. n
        /\ \A i \in 1 .. n : /\ spans[i].from \in Int /\ spans[i].to \in Int
                             /\ start <= spans[i].from /\ spans[i].from < spans[i].to
                             /\ spans[i].to <= start + DayLength
        /\ \A i, j \in 1 .. n : i < j => spans[i].to <= spans[j].from
        /\ \A u \in Int : start <= u /\ u < start + DayLength =>
             (Works(c, u) <=> \E i \in 1 .. n : spans[i].from <= u /\ u < spans[i].to)
  BY <1>1, SpansAre
<1>3. start \in Int /\ DayLength \in Int
  BY LengthsAssumption
<1>4. \A u \in Int : DayOf(u) = day <=> start <= u /\ u < start + DayLength
  BY DayIs, DayUnique
<1> HIDE DEF start
<1> DEFINE A == a .. (b - 1)
           W == [i \in 1 .. n |-> {u \in A : spans[i].from <= u /\ u < spans[i].to}]
           f == [i \in 1 .. n |-> Overlap(spans[i], a, b)]
<1>5. IsFiniteSet(A) /\ IsFiniteSet(1 .. n) /\ W \in [1 .. n -> SUBSET A]
  BY FS_Interval
<1>6. \A i, j \in 1 .. n : i # j => W[i] \intersect W[j] = {}
  <2> SUFFICES ASSUME NEW i \in 1 .. n, NEW j \in 1 .. n, i # j, NEW u \in W[i], u \in W[j]
               PROVE  FALSE
    OBVIOUS
  <2>1. u \in Int /\ spans[i].from <= u /\ u < spans[i].to /\ spans[j].from <= u /\ u < spans[j].to
    OBVIOUS
  <2>2. spans[i].to <= spans[j].from \/ spans[j].to <= spans[i].from
    BY <1>2
  <2> QED
    BY <1>2, <2>1, <2>2
<1>7. \A i \in 1 .. n : f[i] = Cardinality(W[i])
  <2> SUFFICES ASSUME NEW i \in 1 .. n
               PROVE  f[i] = Cardinality(W[i])
    OBVIOUS
  <2>1. PICK x \in Int, y \in Int : spans[i].from = x /\ spans[i].to = y
    BY <1>2
  <2>2. Overlap(spans[i], a, b) = Cardinality({u \in a .. (b - 1) : x <= u /\ u < y})
    <3>1. PICK span : span = spans[i]
      OBVIOUS
    <3>2. Overlap(span, a, b) = Cardinality({u \in a .. (b - 1) : x <= u /\ u < y})
      <4>1. span.from = x /\ span.to = y
        BY <2>1, <3>1, Zenon
      <4> HIDE DEF A, W, f
      <4> QED
        BY <4>1, OverlapIs
    <3> QED
      BY <3>1, <3>2, Zenon
  <2>3. W[i] = {u \in a .. (b - 1) : x <= u /\ u < y}
    BY <2>1
  <2> QED
    BY <2>2, <2>3
<1>8. UNION {W[i] : i \in 1 .. n} = OnDay(c, day, a, b)
  <2>1. ASSUME NEW i \in 1 .. n, NEW u \in W[i]
        PROVE  u \in OnDay(c, day, a, b)
    <3>1. u \in Int /\ u \in A /\ spans[i].from <= u /\ u < spans[i].to
      OBVIOUS
    <3>2. start <= u /\ u < start + DayLength
      BY <1>2, <1>3, <3>1
    <3>3. Works(c, u) /\ DayOf(u) = day
      BY <1>2, <1>4, <3>1, <3>2
    <3> QED
      BY <3>1, <3>3 DEF OnDay, Working
  <2>2. ASSUME NEW u \in OnDay(c, day, a, b)
        PROVE  \E i \in 1 .. n : u \in W[i]
    <3>1. u \in A /\ u \in Int /\ Works(c, u) /\ DayOf(u) = day
      BY DEF OnDay, Working
    <3>2. start <= u /\ u < start + DayLength
      BY <1>4, <3>1
    <3> QED
      BY <1>2, <3>1, <3>2
  <2> HIDE DEF W
  <2> QED
    BY <2>1, <2>2
<1>9. WorkedOn(c, day, a, b) = SumFunction(f)
  BY <1>1, <1>2 DEF WorkedOn
<1>10. DOMAIN f = 1 .. n
  OBVIOUS
<1> HIDE DEF W, f, A
<1>11. SumFunction(f) = Cardinality(UNION {W[i] : i \in 1 .. n})
  BY <1>5, <1>6, <1>7, <1>10, SumOfSizes
<1> QED
  BY <1>8, <1>9, <1>11

\* The walk over the days between two moments counts the working units between them
\* (BusinessCalendar.elapsed).
THEOREM ElapsedCounts ==
  ASSUME NEW c \in Calendar, NEW start \in Int, NEW end \in Int
  PROVE  ElapsedIsCounted(c, start, end)
<1>1. CASE end <= start
  BY <1>1, BetweenType DEF Elapsed, ElapsedIsCounted
<1>2. CASE ~(end <= start) /\ c.always
  <2>1. Between(c, start, end) = end - start
    BY <1>2, BetweenAll DEF Works
  <2> QED
    BY <1>2, <2>1 DEF Elapsed, ElapsedIsCounted
<1>3. CASE ~(end <= start) /\ ~c.always
  <2> DEFINE S == DayOf(start) .. DayOf(end)
             A == start .. (end - 1)
             W == [day \in S |-> OnDay(c, day, start, end)]
             f == [day \in S |-> WorkedOn(c, day, start, end)]
  <2>1. IsFiniteSet(S) /\ IsFiniteSet(A) /\ S \subseteq Int
    BY DayIs, FS_Interval
  <2>2. W \in [S -> SUBSET A]
    BY DEF OnDay, Working
  <2>3. \A x, y \in S : x # y => W[x] \intersect W[y] = {}
    BY DEF OnDay
  <2>4. \A day \in S : f[day] = Cardinality(W[day])
    BY <1>3, <2>1, WorkedOnIs
  <2>5. UNION {W[day] : day \in S} = Working(c, start, end)
    <3>1. ASSUME NEW u \in Working(c, start, end)
          PROVE  DayOf(u) \in S
      <4>1. u \in Int /\ start <= u /\ u <= end
        BY DEF Working
      <4>2. DayOf(u) \in Int /\ DayOf(start) <= DayOf(u) /\ DayOf(u) <= DayOf(end)
        BY <4>1, DaysGrow, DayIs
      <4> QED
        BY <4>2, DayIs
    <3> HIDE DEF S
    <3> QED
      BY <3>1 DEF OnDay
  <2>6. Elapsed(c, start, end) = SumFunction(f) /\ DOMAIN f = S
    BY <1>3 DEF Elapsed
  <2> HIDE DEF S, A, W, f
  <2>7. SumFunction(f) = Cardinality(UNION {W[day] : day \in S})
    BY <2>1, <2>2, <2>3, <2>4, <2>6, SumOfSizes
  <2> QED
    BY <2>5, <2>6, <2>7, BetweenType DEF ElapsedIsCounted
<1> QED
  BY <1>1, <1>2, <1>3

\* Elapsed time adds up and never shrinks: what SlaClocks supposes of Worked (ADR-0030 4).
THEOREM ElapsedAdds ==
  ASSUME NEW c \in Calendar, NEW s \in Int, NEW t \in Int, NEW u \in Int, s <= t, t <= u
  PROVE  /\ Elapsed(c, s, t) \in Nat
         /\ Elapsed(c, s, t) <= Elapsed(c, s, u)
         /\ Elapsed(c, t, u) = Elapsed(c, s, u) - Elapsed(c, s, t)
<1>1. /\ Elapsed(c, s, t) = Between(c, s, t) /\ Elapsed(c, t, u) = Between(c, t, u)
      /\ Elapsed(c, s, u) = Between(c, s, u)
  BY ElapsedCounts DEF ElapsedIsCounted
<1>2. /\ Between(c, s, t) \in Nat /\ Between(c, t, u) \in Nat
      /\ Between(c, s, u) = Between(c, s, t) + Between(c, t, u)
  BY BetweenType, BetweenJoins
<1> QED
  BY <1>1, <1>2

-----------------------------------------------------------------------------
(* The moment some business time later *)

Walks == [rest : Int, found : Int]

\* At the moment t the walk knows what is left of the time, or has found where it ends.
AsFar(c, start, units, walk, t) ==
  /\ walk \in Walks
  /\ \/ /\ walk.found = NoTimeFound /\ walk.rest > 0
        /\ walk.rest = units - Between(c, start, t)
     \/ /\ walk.found \in Nat /\ walk.found > start
        /\ Between(c, start, walk.found) = units /\ Works(c, walk.found - 1)

LEMMA LaterIs ==
  ASSUME NEW x \in Int, NEW y \in Int, NEW z \in Int, x <= y
  PROVE  /\ Later(x, z) \in Int /\ z <= Later(x, z) /\ x <= Later(x, z)
         /\ Later(x, z) <= Later(y, z)
BY DEF Later

LEMMA WalkType ==
  ASSUME NEW walk \in Walks, NEW span, span.from \in Int, span.to \in Int, NEW start \in Int
  PROVE  Walk(walk, span, start) \in Walks
<1>1. Later(span.from, start) \in Int
  BY DEF Later
<1> QED
  BY <1>1 DEF Walk, Walks

\* Where nothing works, nothing is taken off.
LEMMA IdleFar ==
  ASSUME NEW c, NEW start \in Nat, NEW units \in Nat, NEW walk, NEW t \in Int, NEW v \in Int,
         AsFar(c, start, units, walk, t), start <= t, t <= v,
         \A u \in t .. (v - 1) : ~Works(c, u)
  PROVE  AsFar(c, start, units, walk, v)
<1>1. Between(c, start, v) = Between(c, start, t) + Between(c, t, v)
  BY BetweenJoins
<1>2. Between(c, t, v) = 0 /\ Between(c, start, t) \in Nat
  BY BetweenNone, BetweenType
<1>3. Between(c, start, v) = Between(c, start, t)
  BY <1>1, <1>2
<1> QED
  BY <1>3 DEF AsFar

\* One interval takes the walk from the last one's end to its own.
LEMMA WalkStep ==
  ASSUME NEW c, NEW start \in Nat, NEW units \in Nat, NEW walk, NEW t \in Int,
         AsFar(c, start, units, walk, t), start <= t,
         NEW span, span.from \in Int, span.to \in Int, span.from < span.to,
         t <= Later(span.from, start),
         \A u \in t .. (Later(span.from, start) - 1) : ~Works(c, u),
         \A u \in Int : span.from <= u /\ u < span.to => Works(c, u)
  PROVE  AsFar(c, start, units, Walk(walk, span, start), Later(span.to, start))
<1>1. PICK begin \in Int : begin = Later(span.from, start)
  BY DEF Later
<1>2. PICK x \in Int, y \in Int : x = span.from /\ y = span.to
  OBVIOUS
<1>3. begin >= start /\ begin >= x /\ (begin = start \/ begin = x) /\ x < y /\ t <= begin
  BY <1>1, <1>2 DEF Later
<1>4. AsFar(c, start, units, walk, begin)
  BY <1>1, IdleFar
<1>5. PICK rest \in Int, found \in Int : rest = walk.rest /\ found = walk.found
  BY DEF AsFar, Walks
<1>6. walk \in Walks
  BY DEF AsFar
<1>7. CASE found # NoTimeFound
  <2>1. Walk(walk, span, start) = walk
    BY <1>5, <1>7 DEF Walk
  <2> QED
    BY <1>5, <1>7, <2>1 DEF AsFar
<1>8. CASE found = NoTimeFound /\ y <= begin
  <2>1. Walk(walk, span, start) = walk
    BY <1>1, <1>2, <1>8 DEF Walk
  <2>2. Later(span.to, start) = begin
    BY <1>2, <1>3, <1>8 DEF Later
  <2> QED
    BY <1>4, <2>1, <2>2
<1>9. CASE found = NoTimeFound /\ ~(y <= begin)
  <2>1. rest > 0 /\ rest = units - Between(c, start, begin)
    BY <1>4, <1>5, <1>9 DEF AsFar, NoTimeFound
  <2>2. Later(span.to, start) = y /\ start <= y
    BY <1>2, <1>3, <1>9 DEF Later
  <2>3. ASSUME NEW v \in Int, begin <= v, v <= y
        PROVE  Between(c, start, v) = Between(c, start, begin) + (v - begin)
    <3>1. Between(c, start, v) = Between(c, start, begin) + Between(c, begin, v)
      BY <1>3, <2>3, BetweenJoins
    <3>2. \A u \in begin .. (v - 1) : Works(c, u)
      BY <1>2, <1>3, <2>3
    <3>3. Between(c, begin, v) = v - begin
      BY <2>3, <3>2, BetweenAll
    <3> QED
      BY <3>1, <3>3
  <2>4. Between(c, start, begin) \in Nat
    BY BetweenType
  <2>5. CASE y - begin >= rest
    <3>1. PICK m \in Int : m = begin + rest
      OBVIOUS
    <3>2. m \in Nat /\ m > start /\ begin <= m /\ m <= y
      BY <1>3, <2>1, <2>5, <3>1
    <3>3. Between(c, start, m) = units
      BY <2>1, <2>3, <2>4, <3>1, <3>2
    <3>4. Works(c, m - 1)
      BY <1>2, <1>3, <2>1, <3>1, <3>2
    <3>5. Walk(walk, span, start) = [walk EXCEPT !.found = m]
      BY <1>1, <1>2, <1>5, <1>9, <2>5, <3>1 DEF Walk
    <3>6. [walk EXCEPT !.found = m] \in Walks /\ [walk EXCEPT !.found = m].found = m
      BY <1>6 DEF Walks
    <3> QED
      BY <3>2, <3>3, <3>4, <3>5, <3>6 DEF AsFar
  <2>6. CASE ~(y - begin >= rest)
    <3>1. PICK r \in Int : r = rest - (y - begin)
      OBVIOUS
    <3>2. r > 0 /\ r = units - Between(c, start, y)
      BY <1>9, <2>1, <2>3, <2>4, <2>6, <3>1
    <3>3. Walk(walk, span, start) = [walk EXCEPT !.rest = r]
      BY <1>1, <1>2, <1>5, <1>9, <2>6, <3>1 DEF Walk
    <3>4. /\ [walk EXCEPT !.rest = r] \in Walks
          /\ [walk EXCEPT !.rest = r].found = NoTimeFound /\ [walk EXCEPT !.rest = r].rest = r
      BY <1>5, <1>6, <1>9 DEF Walks
    <3> QED
      BY <2>2, <3>2, <3>3, <3>4 DEF AsFar
  <2> QED
    BY <2>5, <2>6
<1> QED
  BY <1>7, <1>8, <1>9

\* The walk through a day's intervals, one by one.
WalkedBy(w, n, walk, spans, start) ==
  /\ WalkDay(walk, spans, start) = w[n] /\ w[0] = walk
  /\ \A i \in 1 .. n : w[i] = Walk(w[i - 1], spans[i], start)

LEMMA WalkDayIs ==
  ASSUME NEW walk \in Walks, NEW n \in Nat, NEW spans, Len(spans) = n,
         \A i \in 1 .. n : spans[i].from \in Int /\ spans[i].to \in Int, NEW start \in Int
  PROVE  \E w \in [0 .. n -> Walks] : WalkedBy(w, n, walk, spans, start)
<1> DEFINE F == [p \in Walks \X (1 .. n) |-> Walk(p[1], spans[p[2]], start)]
           Step(g, i) == IF i = 0 THEN walk ELSE Walk(g[i - 1], spans[i], start)
           w == CHOOSE w : w = [i \in 0 .. n |-> Step(w, i)]
<1>1. F \in [Walks \X (1 .. n) -> Walks]
  BY WalkType
<1>2. PICK g \in [0 .. n -> Walks] :
        g[0] = walk /\ \A i \in 1 .. n : g[i] = F[<<g[i - 1], i>>]
  <2> HIDE DEF F
  <2>1. n \in Nat /\ walk \in Walks
    OBVIOUS
  <2>2. \E g \in [0 .. n -> Walks] : Along(g, n, walk, F)
    BY <1>1, <2>1, Recursion
  <2> QED
    BY <2>2 DEF Along
<1>3. \A i \in 1 .. n : i - 1 \in 0 .. n /\ F[<<g[i - 1], i>>] = Walk(g[i - 1], spans[i], start)
  OBVIOUS
<1>4. g = [i \in 0 .. n |-> Step(g, i)]
  <2> SUFFICES ASSUME NEW i \in 0 .. n
               PROVE  g[i] = Step(g, i)
    BY Zenon
  <2>1. CASE i = 0
    BY <1>2, <2>1
  <2>2. CASE i # 0
    <3>1. i \in 1 .. n
      BY <2>2
    <3> HIDE DEF F
    <3> QED
      BY <1>2, <1>3, <2>2, <3>1
  <2> QED
    BY <2>1, <2>2
<1>5. w = [i \in 0 .. n |-> Step(w, i)]
  <2> HIDE DEF Step
  <2> QED
    BY <1>4, Zenon
<1>6. WalkDay(walk, spans, start) = w[n]
  BY DEF WalkDay
<1> HIDE DEF w
<1>7. w[0] = walk /\ \A i \in 1 .. n : w[i] = Walk(w[i - 1], spans[i], start)
  <2>1. \A i \in 0 .. n : w[i] = Step(w, i)
    BY <1>5, Zenon
  <2>2. 0 \in 0 .. n /\ \A i \in 1 .. n : i \in 0 .. n /\ i # 0
    OBVIOUS
  <2> QED
    BY <2>1, <2>2
<1> DEFINE T == {i \in 0 .. n : w[i] \in Walks}
<1>8. 0 \in T
  BY <1>7
<1>9. ASSUME NEW i \in 0 .. (n - 1), i \in T
      PROVE  i + 1 \in T
  <2>1. i + 1 \in 1 .. n /\ (i + 1) - 1 = i
    OBVIOUS
  <2>2. w[i + 1] = Walk(w[i], spans[i + 1], start)
    BY <1>7, <2>1
  <2>3. w[i] \in Walks /\ spans[i + 1].from \in Int /\ spans[i + 1].to \in Int
    BY <1>9, <2>1
  <2>4. Walk(w[i], spans[i + 1], start) \in Walks
    BY <2>3, WalkType
  <2>5. i + 1 \in 0 .. n
    BY <2>1
  <2> QED
    BY <2>2, <2>4, <2>5
<1>10. T = 0 .. n
  <2>1. T \in SUBSET (0 .. n)
    OBVIOUS
  <2> HIDE DEF T
  <2> QED
    BY <1>8, <1>9, <2>1, Climb
<1>11. w \in [0 .. n -> Walks]
  <2>1. \A i \in 0 .. n : w[i] \in Walks
    BY <1>10
  <2> HIDE DEF T, Step
  <2> QED
    BY <1>5, <2>1
<1> QED
  BY <1>6, <1>7, <1>11 DEF WalkedBy

\* A day takes the walk to the next midnight.
LEMMA WalkedDay ==
  ASSUME NEW c \in Calendar, ~c.always, NEW start \in Nat, NEW units \in Nat, NEW day \in Int,
         NEW walk, AsFar(c, start, units, walk, Later(day * DayLength, start))
  PROVE  /\ WalkDay(walk, Spans(c, day), start) \in Walks
         /\ AsFar(c, start, units, WalkDay(walk, Spans(c, day), start),
                  Later(day * DayLength + DayLength, start))
<1>1. PICK spans : spans = Spans(c, day)
  OBVIOUS
<1>2. PICK b \in Int : b = day * DayLength
  BY LengthsAssumption
<1>3. PICK e \in Int : e = b + DayLength /\ b < e
  BY LengthsAssumption
<1>4. PICK n \in Nat :
        /\ Len(spans) = n
        /\ \A i \in 1 .. n : /\ spans[i].from \in Int /\ spans[i].to \in Int
                             /\ b <= spans[i].from /\ spans[i].from < spans[i].to
                             /\ spans[i].to <= e
        /\ \A i, j \in 1 .. n : i < j => spans[i].to <= spans[j].from
        /\ \A u \in Int : b <= u /\ u < e =>
             (Works(c, u) <=> \E i \in 1 .. n : spans[i].from <= u /\ u < spans[i].to)
  BY <1>1, <1>2, <1>3, SpansAre
<1>5. walk \in Walks
  BY DEF AsFar
<1>6. PICK w \in [0 .. n -> Walks] :
        /\ WalkDay(walk, spans, start) = w[n] /\ w[0] = walk
        /\ \A i \in 1 .. n : w[i] = Walk(w[i - 1], spans[i], start)
  <2>1. \A i \in 1 .. n : spans[i].from \in Int /\ spans[i].to \in Int
    BY <1>4
  <2>2. start \in Int /\ n \in Nat /\ Len(spans) = n
    BY <1>4
  <2>3. \E w \in [0 .. n -> Walks] : WalkedBy(w, n, walk, spans, start)
    BY <1>5, <2>1, <2>2, WalkDayIs
  <2> QED
    BY <2>3 DEF WalkedBy
<1> DEFINE Bound(i) == IF i = 0 THEN b ELSE spans[i].to
           T == {i \in 0 .. n : AsFar(c, start, units, w[i], Later(Bound(i), start))}
<1>7. \A i \in 0 .. n : Bound(i) \in Int /\ b <= Bound(i) /\ Bound(i) <= e
  <2> SUFFICES ASSUME NEW i \in 0 .. n
               PROVE  Bound(i) \in Int /\ b <= Bound(i) /\ Bound(i) <= e
    OBVIOUS
  <2>1. CASE i = 0
    BY <1>3, <2>1
  <2>2. CASE i # 0
    <3>1. i \in 1 .. n
      BY <2>2
    <3>2. PICK x \in Int, y \in Int :
            /\ x = spans[i].from /\ y = spans[i].to /\ b <= x /\ x < y /\ y <= e
      BY <1>4, <3>1
    <3>3. b <= y
      BY <3>2
    <3> QED
      BY <2>2, <3>2, <3>3
  <2> QED
    BY <2>1, <2>2
\* Between the end of one interval and the beginning of the next, nothing works.
<1>8. ASSUME NEW i \in 0 .. n, NEW u \in Int, Bound(i) <= u, u < e,
             \A j \in 1 .. n : i < j => u < spans[j].from
      PROVE  ~Works(c, u)
  <2>1. b <= u
    BY <1>7, <1>8
  <2> SUFFICES ASSUME NEW j \in 1 .. n, spans[j].from <= u, u < spans[j].to
               PROVE  FALSE
    BY <1>4, <1>8, <2>1
  <2>2. PICK from \in Int, to \in Int : from = spans[j].from /\ to = spans[j].to
    BY <1>4
  <2>3. ~(i < j)
    BY <1>8, <2>2
  <2>4. i # 0 /\ i \in 1 .. n /\ (j < i \/ j = i)
    BY <2>3
  <2>5. Bound(i) = spans[i].to /\ spans[i].from < spans[i].to
        /\ spans[i].from \in Int /\ spans[i].to \in Int
    BY <1>4, <2>4
  <2>6. to <= spans[i].to
    <3>1. CASE j = i
      BY <2>2, <2>5, <3>1
    <3>2. CASE j < i
      <4>1. spans[j].to <= spans[i].from
        BY <1>4, <2>4, <3>2
      <4> QED
        BY <2>2, <2>5, <4>1
    <3> QED
      BY <2>4, <3>1, <3>2
  <2>7. PICK last \in Int : last = spans[i].to
    BY <2>5
  <2>8. last <= u /\ to <= last /\ u < to
    BY <1>8, <2>2, <2>5, <2>6, <2>7
  <2> QED
    BY <2>8
<1>9. 0 \in T
  BY <1>2, <1>6
<1>10. ASSUME NEW i \in 0 .. (n - 1), i \in T
       PROVE  i + 1 \in T
  <2>1. i + 1 \in 1 .. n /\ (i + 1) - 1 = i /\ i \in 0 .. n /\ i + 1 # 0 /\ i + 1 \in 0 .. n
    OBVIOUS
  <2>2. PICK span : span = spans[i + 1]
    OBVIOUS
  <2>3. PICK from \in Int, to \in Int :
          /\ from = span.from /\ to = span.to /\ b <= from /\ from < to /\ to <= e
    BY <1>4, <2>1, <2>2
  <2>4. PICK at \in Int : at = Bound(i) /\ b <= at /\ at <= from
    <3>1. Bound(i) <= from
      <4>1. CASE i = 0
        BY <2>3, <4>1
      <4>2. CASE i # 0
        <5>1. i \in 1 .. n /\ i < i + 1
          BY <4>2
        <5>2. spans[i].to <= spans[i + 1].from
          BY <1>4, <2>1, <5>1
        <5> QED
          BY <2>2, <2>3, <4>2, <5>2
      <4> QED
        BY <4>1, <4>2
    <3> QED
      BY <1>7, <2>1, <3>1
  <2>5. PICK t \in Int : t = Later(at, start) /\ start <= t /\ at <= t /\ t <= Later(from, start)
    <3>1. start \in Int /\ at \in Int /\ from \in Int /\ at <= from
      BY <2>4
    <3>2. /\ Later(at, start) \in Int /\ start <= Later(at, start) /\ at <= Later(at, start)
          /\ Later(at, start) <= Later(from, start)
      BY <3>1, LaterIs
    <3> QED
      BY <3>2, Zenon
  <2>6. AsFar(c, start, units, w[i], t)
    BY <1>10, <2>4, <2>5
  <2>7. \A u \in t .. (Later(from, start) - 1) : ~Works(c, u)
    <3> SUFFICES ASSUME NEW u \in Int, t <= u, u <= Later(from, start) - 1
                 PROVE  ~Works(c, u)
      BY DEF Later
    <3>1. u < from
      BY <2>5 DEF Later
    <3>2. \A j \in 1 .. n : i < j => from <= spans[j].from
      <4> SUFFICES ASSUME NEW j \in 1 .. n, i < j
                   PROVE  from <= spans[j].from
        OBVIOUS
      <4>1. j = i + 1 \/ i + 1 < j
        OBVIOUS
      <4>2. CASE j = i + 1
        BY <2>2, <2>3, <4>2
      <4>3. CASE i + 1 < j
        <5>1. to <= spans[j].from
          BY <1>4, <2>1, <2>2, <2>3, <4>3
        <5>2. spans[j].from \in Int
          BY <1>4
        <5> QED
          BY <2>3, <5>1, <5>2
      <4> QED
        BY <4>1, <4>2, <4>3
    <3>3. \A j \in 1 .. n : i < j => u < spans[j].from
      <4>1. \A j \in 1 .. n : spans[j].from \in Int
        BY <1>4
      <4> QED
        BY <3>1, <3>2, <4>1
    <3>4. at <= u /\ u < e
      BY <2>3, <2>5, <3>1
    <3> HIDE DEF Bound
    <3> QED
      BY <1>8, <2>1, <2>4, <3>3, <3>4
  <2>8. \A u \in Int : from <= u /\ u < to => Works(c, u)
    <3> SUFFICES ASSUME NEW u \in Int, from <= u, u < to
                 PROVE  Works(c, u)
      OBVIOUS
    <3>1. b <= u /\ u < e
      BY <2>3
    <3> QED
      BY <1>4, <2>1, <2>2, <2>3, <3>1
  <2>9. AsFar(c, start, units, Walk(w[i], span, start), Later(to, start))
    BY <2>3, <2>5, <2>6, <2>7, <2>8, WalkStep
  <2>10. w[i + 1] = Walk(w[i], span, start) /\ Bound(i + 1) = to
    BY <1>6, <2>1, <2>2, <2>3
  <2> HIDE DEF Bound
  <2> QED
    BY <2>1, <2>9, <2>10
<1>11. AsFar(c, start, units, w[n], Later(Bound(n), start))
  <2>1. T \in SUBSET (0 .. n) /\ n \in 0 .. n
    OBVIOUS
  <2> HIDE DEF T
  <2>2. n \in T
    BY <1>9, <1>10, <2>1, Climb
  <2> QED
    BY <2>2 DEF T
<1>12. AsFar(c, start, units, w[n], Later(e, start))
  <2>1. PICK at \in Int : at = Bound(n) /\ at <= e /\ n \in 0 .. n
    BY <1>7
  <2>2. PICK t \in Int, v \in Int :
          /\ t = Later(at, start) /\ v = Later(e, start)
          /\ start <= t /\ t <= v /\ at <= t /\ (v = t \/ v = e)
    BY <2>1 DEF Later
  <2>3. \A u \in t .. (v - 1) : ~Works(c, u)
    <3> SUFFICES ASSUME NEW u \in Int, t <= u, u < v
                 PROVE  ~Works(c, u)
      BY <2>2
    <3>1. at <= u /\ u < e
      BY <2>2
    <3>2. \A j \in 1 .. n : ~(n < j)
      OBVIOUS
    <3> HIDE DEF Bound
    <3> QED
      BY <1>8, <2>1, <3>1, <3>2
  <2>4. AsFar(c, start, units, w[n], t)
    BY <1>11, <2>1, <2>2
  <2>5. AsFar(c, start, units, w[n], v)
    BY <2>2, <2>3, <2>4, IdleFar
  <2> QED
    BY <2>2, <2>5
<1>13. w[n] \in Walks
  OBVIOUS
<1> QED
  BY <1>1, <1>2, <1>3, <1>6, <1>12, <1>13

\* The walk through the days, one by one.
LEMMA WalkDaysIs ==
  ASSUME NEW c \in Calendar, ~c.always, NEW start \in Nat, NEW units \in Nat, units > 0
  PROVE  \E w \in [0 .. MaxDays -> Walks] :
           /\ Add(c, start, units) = w[MaxDays].found
           /\ w[0] = [rest |-> units, found |-> NoTimeFound]
           /\ \A n \in 1 .. MaxDays :
                w[n] = WalkDay(w[n - 1], Spans(c, DayOf(start) + n - 1), start)
<1> DEFINE base == [rest |-> units, found |-> NoTimeFound]
           F == [p \in Walks \X (1 .. MaxDays) |->
                   WalkDay(p[1], Spans(c, DayOf(start) + p[2] - 1), start)]
           Step(g, n) == IF n = 0 THEN base
                         ELSE WalkDay(g[n - 1], Spans(c, DayOf(start) + n - 1), start)
           w == CHOOSE w : w = [n \in 0 .. MaxDays |-> Step(w, n)]
<1>1. base \in Walks /\ MaxDays \in Nat /\ start \in Int /\ DayOf(start) \in Int
  BY LengthsAssumption, DayIs DEF Walks, NoTimeFound
<1>2. F \in [Walks \X (1 .. MaxDays) -> Walks]
  <2> SUFFICES ASSUME NEW walk \in Walks, NEW n \in 1 .. MaxDays
               PROVE  WalkDay(walk, Spans(c, DayOf(start) + n - 1), start) \in Walks
    OBVIOUS
  <2>1. PICK day \in Int : day = DayOf(start) + n - 1
    BY <1>1
  <2>2. PICK spans : spans = Spans(c, day)
    OBVIOUS
  <2>3. PICK m \in Nat : /\ Len(spans) = m
                         /\ \A i \in 1 .. m : spans[i].from \in Int /\ spans[i].to \in Int
    BY <2>2, SpansAre
  <2>4. \E v \in [0 .. m -> Walks] : WalkedBy(v, m, walk, spans, start)
    BY <1>1, <2>3, WalkDayIs
  <2>5. WalkDay(walk, spans, start) \in Walks
    BY <2>4 DEF WalkedBy
  <2> QED
    BY <2>1, <2>2, <2>5
<1>3. PICK g \in [0 .. MaxDays -> Walks] : Along(g, MaxDays, base, F)
  <2> HIDE DEF F, base
  <2> QED
    BY <1>1, <1>2, Recursion
<1>4. \A n \in 1 .. MaxDays :
        g[n] = WalkDay(g[n - 1], Spans(c, DayOf(start) + n - 1), start)
  <2>1. \A n \in 1 .. MaxDays : n - 1 \in 0 .. MaxDays
    BY <1>1
  <2>2. \A n \in 1 .. MaxDays :
          F[<<g[n - 1], n>>] = WalkDay(g[n - 1], Spans(c, DayOf(start) + n - 1), start)
    BY <2>1
  <2> HIDE DEF F
  <2> QED
    BY <1>3, <2>2 DEF Along
<1>5. g = [n \in 0 .. MaxDays |-> Step(g, n)]
  <2> SUFFICES ASSUME NEW n \in 0 .. MaxDays
               PROVE  g[n] = Step(g, n)
    BY Zenon
  <2>1. CASE n = 0
    BY <1>3, <2>1 DEF Along
  <2>2. CASE n # 0
    <3>1. n \in 1 .. MaxDays
      BY <1>1, <2>2
    <3> QED
      BY <1>4, <2>2, <3>1
  <2> QED
    BY <2>1, <2>2
<1>6. w = [n \in 0 .. MaxDays |-> Step(w, n)]
  <2> HIDE DEF Step
  <2> QED
    BY <1>5, Zenon
<1>7. Add(c, start, units) = w[MaxDays].found
  BY DEF Add
<1> HIDE DEF w
<1>8. /\ w[0] = base
      /\ \A n \in 1 .. MaxDays : w[n] = WalkDay(w[n - 1], Spans(c, DayOf(start) + n - 1), start)
  <2>1. \A n \in 0 .. MaxDays : w[n] = Step(w, n)
    BY <1>6, Zenon
  <2>2. 0 \in 0 .. MaxDays /\ \A n \in 1 .. MaxDays : n \in 0 .. MaxDays /\ n # 0
    BY <1>1
  <2> QED
    BY <2>1, <2>2
<1> HIDE DEF base
<1> DEFINE T == {n \in 0 .. MaxDays : w[n] \in Walks}
<1>9. 0 \in T
  BY <1>1, <1>8
<1>10. ASSUME NEW n \in 0 .. (MaxDays - 1), n \in T
       PROVE  n + 1 \in T
  <2>1. n + 1 \in 1 .. MaxDays /\ (n + 1) - 1 = n /\ n + 1 \in 0 .. MaxDays /\ w[n] \in Walks
    BY <1>1, <1>10
  <2>2. F[<<w[n], n + 1>>] \in Walks
    <3> HIDE DEF F
    <3> QED
      BY <1>2, <2>1
  <2>3. F[<<w[n], n + 1>>] = w[n + 1]
    BY <1>8, <2>1
  <2> QED
    BY <2>1, <2>2, <2>3
<1>11. T = 0 .. MaxDays
  <2>1. T \in SUBSET (0 .. MaxDays)
    OBVIOUS
  <2> HIDE DEF T
  <2> QED
    BY <1>1, <1>9, <1>10, <2>1, Climb
<1>12. w \in [0 .. MaxDays -> Walks]
  <2>1. \A n \in 0 .. MaxDays : w[n] \in Walks
    BY <1>11
  <2> HIDE DEF T, Step
  <2> QED
    BY <1>6, <2>1
<1> QED
  BY <1>7, <1>8, <1>12 DEF base

\* What the walk over the days returns.
LEMMA AddFinds ==
  ASSUME NEW c \in Calendar, NEW start \in Nat, NEW units \in Nat
  PROVE  /\ AddIsCounted(c, start, units)
         /\ Add(c, start, units) # NoTimeFound =>
              Add(c, start, units) \in Nat /\ start <= Add(c, start, units)
<1>1. CASE units = 0
  <2>1. Add(c, start, units) = start /\ start # NoTimeFound
    BY <1>1 DEF Add, NoTimeFound
  <2>2. Between(c, start, start) = 0
    BY BetweenType
  <2> QED
    BY <1>1, <2>1, <2>2 DEF AddIsCounted
<1>2. CASE units > 0 /\ c.always
  <2>1. PICK due \in Nat : due = start + units
    OBVIOUS
  <2>2. Add(c, start, units) = due /\ due # NoTimeFound
    BY <1>2, <2>1 DEF Add, NoTimeFound
  <2>3. Between(c, start, due) = units
    BY <1>2, <2>1, BetweenAll DEF Works
  <2>4. Works(c, due - 1)
    BY <1>2 DEF Works
  <2>5. start <= due
    BY <1>2, <2>1
  <2> QED
    BY <1>2, <2>1, <2>2, <2>3, <2>4, <2>5 DEF AddIsCounted
<1>3. CASE units > 0 /\ ~c.always
  <2>1. PICK w \in [0 .. MaxDays -> Walks] :
          /\ Add(c, start, units) = w[MaxDays].found
          /\ w[0] = [rest |-> units, found |-> NoTimeFound]
          /\ \A n \in 1 .. MaxDays :
               w[n] = WalkDay(w[n - 1], Spans(c, DayOf(start) + n - 1), start)
    BY <1>3, WalkDaysIs
  <2>2. MaxDays \in Nat /\ MaxDays > 0 /\ DayOf(start) \in Int /\ DayLength \in Int /\ DayLength > 0
    BY LengthsAssumption, DayIs
  <2> DEFINE midnight(n) == (DayOf(start) + n) * DayLength
             T == {n \in 0 .. MaxDays : AsFar(c, start, units, w[n], Later(midnight(n), start))}
  <2>3. 0 \in T
    <3>1. midnight(0) = DayOf(start) * DayLength /\ midnight(0) <= start /\ midnight(0) \in Int
      <4>1. DayOf(start) * DayLength <= start /\ DayOf(start) * DayLength \in Int
        BY <2>2, DayIs
      <4>2. DayOf(start) + 0 = DayOf(start)
        BY <2>2
      <4> QED
        BY <4>1, <4>2
    <3>2. Later(midnight(0), start) = start
      BY <3>1 DEF Later
    <3>3. Between(c, start, start) = 0
      BY BetweenType
    <3>4. w[0] \in Walks /\ w[0].rest = units /\ w[0].found = NoTimeFound
      BY <2>1, <2>2
    <3>5. AsFar(c, start, units, w[0], start)
      BY <1>3, <3>3, <3>4 DEF AsFar
    <3> QED
      BY <2>2, <3>2, <3>5
  <2>4. ASSUME NEW n \in 0 .. (MaxDays - 1), n \in T
        PROVE  n + 1 \in T
    <3>1. PICK day \in Int : day = DayOf(start) + n
      BY <2>2
    <3>2. /\ midnight(n) = day * DayLength /\ midnight(n + 1) = day * DayLength + DayLength
      <4>1. DayOf(start) + (n + 1) = day + 1
        BY <2>2, <3>1
      <4>2. (day + 1) * DayLength = day * DayLength + DayLength
        BY <2>2
      <4> QED
        BY <3>1, <4>1, <4>2
    <3>3. AsFar(c, start, units, w[n], Later(day * DayLength, start))
      BY <2>4, <3>2
    <3>4. AsFar(c, start, units, WalkDay(w[n], Spans(c, day), start),
                Later(day * DayLength + DayLength, start))
      BY <1>3, <3>3, WalkedDay
    <3>5. w[n + 1] = WalkDay(w[n], Spans(c, day), start) /\ n + 1 \in 0 .. MaxDays
      <4>1. n + 1 \in 1 .. MaxDays /\ (n + 1) - 1 = n /\ DayOf(start) + (n + 1) - 1 = day
        BY <2>2, <3>1
      <4> QED
        BY <2>1, <4>1
    <3> HIDE DEF midnight
    <3> QED
      BY <3>2, <3>4, <3>5
  <2>5. MaxDays \in T
    <3>1. T \in SUBSET (0 .. MaxDays) /\ MaxDays \in 0 .. MaxDays
      BY <2>2
    <3> HIDE DEF T
    <3> QED
      BY <2>2, <2>3, <2>4, <3>1, Climb
  <2>6. PICK horizon \in Int : horizon = midnight(MaxDays) /\ start <= horizon
    <3>1. DayOf(start) * DayLength + DayLength <= (DayOf(start) + MaxDays) * DayLength
      <4>1. DayOf(start) + MaxDays \in Int /\ DayOf(start) < DayOf(start) + MaxDays
        BY <2>2
      <4> QED
        BY <2>2, <4>1, Nonlinear
    <3>2. DayOf(start) * DayLength \in Int /\ (DayOf(start) + MaxDays) * DayLength \in Int
      BY <2>2
    <3>3. start < DayOf(start) * DayLength + DayLength /\ start \in Int
      BY DayIs
    <3>4. start <= (DayOf(start) + MaxDays) * DayLength
      BY <2>2, <3>1, <3>2, <3>3
    <3> QED
      BY <3>2, <3>4
  <2>7. AsFar(c, start, units, w[MaxDays], horizon)
    BY <2>5, <2>6 DEF Later
  <2>8. horizon = (DayOf(start) + MaxDays) * DayLength
    BY <2>6
  <2>9. PICK due : due = Add(c, start, units) /\ due = w[MaxDays].found
    BY <2>1
  <2> HIDE DEF midnight, T
  <2>10. CASE due = NoTimeFound
    <3>1. w[MaxDays].rest \in Int /\ w[MaxDays].rest > 0
          /\ w[MaxDays].rest = units - Between(c, start, horizon)
      BY <2>7, <2>9, <2>10 DEF AsFar, Walks, NoTimeFound
    <3>2. Between(c, start, horizon) < units
      BY <3>1, BetweenType
    <3> QED
      BY <2>8, <2>9, <2>10, <3>2 DEF AddIsCounted
  <2>11. CASE due # NoTimeFound
    <3>1. due \in Nat /\ start <= due /\ Between(c, start, due) = units /\ Works(c, due - 1)
      BY <2>7, <2>9, <2>11 DEF AsFar
    <3> QED
      BY <1>3, <2>9, <2>11, <3>1 DEF AddIsCounted
  <2> QED
    BY <2>10, <2>11
<1> QED
  BY <1>1, <1>2, <1>3

\* The moment `add` returns has just that much business time before it and ends a working unit;
\* it gives up only where the days it walks have less (BusinessCalendar.add).
THEOREM AddCounts ==
  ASSUME NEW c \in Calendar, NEW start \in Nat, NEW units \in Nat
  PROVE  AddIsCounted(c, start, units)
BY AddFinds

\* The moment `add` finds is the first by which the time has passed: what SlaClocks takes for
\* the moment a target is reached (add).
THEOREM AddIsTheFirst ==
  ASSUME NEW c \in Calendar, NEW start \in Nat, NEW units \in Nat,
         Add(c, start, units) # NoTimeFound
  PROVE  /\ Add(c, start, units) \in Nat /\ start <= Add(c, start, units)
         /\ units <= Elapsed(c, start, Add(c, start, units))
         /\ \A u \in Nat : start <= u /\ units <= Elapsed(c, start, u) => Add(c, start, units) <= u
<1>1. PICK due \in Nat : due = Add(c, start, units) /\ start <= due
  BY AddFinds
<1>2. /\ Between(c, start, due) = units
      /\ units = 0 => due = start
      /\ units > 0 => Works(c, due - 1)
  BY <1>1, AddFinds DEF AddIsCounted
<1>3. \A u \in Nat : Elapsed(c, start, u) = Between(c, start, u)
  BY ElapsedCounts DEF ElapsedIsCounted
<1>4. ASSUME NEW u \in Nat, start <= u, units <= Between(c, start, u), u < due
      PROVE  FALSE
  <2>1. units > 0 /\ Works(c, due - 1)
    BY <1>2, <1>4
  <2>2. PICK last \in Int : last = due - 1 /\ last + 1 = due /\ u <= last
    BY <1>4
  <2>3. Between(c, last, due) = 1
    <3>1. \A v \in last .. (due - 1) : Works(c, v)
      BY <2>1, <2>2
    <3>2. Between(c, last, due) = due - last
      BY <2>2, <3>1, BetweenAll
    <3> QED
      BY <2>2, <3>2
  <2>4. /\ Between(c, start, due) = Between(c, start, last) + Between(c, last, due)
        /\ Between(c, start, last) = Between(c, start, u) + Between(c, u, last)
    <3>1. start <= last /\ last <= due
      BY <1>4, <2>2
    <3>2. Between(c, start, due) = Between(c, start, last) + Between(c, last, due)
      BY <3>1, BetweenJoins
    <3>3. Between(c, start, last) = Between(c, start, u) + Between(c, u, last)
      BY <1>4, <2>2, BetweenJoins
    <3> QED
      BY <3>2, <3>3
  <2>5. Between(c, start, last) \in Nat /\ Between(c, start, u) \in Nat /\ Between(c, u, last) \in Nat
    BY BetweenType
  <2> QED
    BY <1>2, <1>4, <2>3, <2>4, <2>5
<1>5. \A u \in Nat : start <= u /\ units <= Elapsed(c, start, u) => due <= u
  <2> SUFFICES ASSUME NEW u \in Nat, start <= u, units <= Elapsed(c, start, u), u < due
               PROVE  FALSE
    OBVIOUS
  <2> QED
    BY <1>3, <1>4
<1>6. units <= Elapsed(c, start, due)
  BY <1>2, <1>3
<1> QED
  BY <1>1, <1>5, <1>6

-----------------------------------------------------------------------------
(* Working time never ends *)

\* Finitely many days have a last one.
LEMMA Bounded ==
  ASSUME NEW S \in SUBSET Int, IsFiniteSet(S)
  PROVE  \E b \in Nat : \A x \in S : x < b
<1>1. PICK q \in Seq(S) : \A x \in S : \E i \in 1 .. Len(q) : q[i] = x
  BY DEF IsFiniteSet
<1>2. PICK n \in Nat : n = Len(q)
  BY <1>1
<1>3. ASSUME NEW i \in 1 .. n PROVE q[i] \in Int
  <2>1. q \in Seq(S) /\ i \in 1 .. Len(q)
    BY <1>1, <1>2
  <2>2. q[i] \in S
    BY <2>1
  <2> QED
    BY <2>2
<1> DEFINE Below(b, k) == \A i \in 1 .. k : q[i] < b
           T == {k \in 0 .. n : \E b \in Nat : Below(b, k)}
<1>4. 0 \in T
  <2>1. Below(0, 0)
    OBVIOUS
  <2> QED
    BY <1>2, <2>1
<1>5. ASSUME NEW k \in 0 .. (n - 1), k \in T
      PROVE  k + 1 \in T
  <2>1. PICK b \in Nat : Below(b, k)
    BY <1>5
  <2>2. PICK x \in Int : x = q[k + 1]
    BY <1>2, <1>3
  <2>3. PICK d \in Nat : b <= d /\ x < d
    <3>1. CASE x < b
      BY <3>1
    <3>2. CASE b <= x
      <4>1. x + 1 \in Nat /\ b <= x + 1 /\ x < x + 1
        BY <3>2
      <4> QED
        BY <4>1
    <3> QED
      BY <3>1, <3>2
  <2>4. Below(d, k + 1)
    <3> SUFFICES ASSUME NEW i \in 1 .. (k + 1) PROVE q[i] < d
      OBVIOUS
    <3>1. CASE i = k + 1
      BY <2>2, <2>3, <3>1
    <3>2. CASE i \in 1 .. k
      <4>1. q[i] \in Int /\ q[i] < b
        BY <1>2, <1>3, <2>1, <3>2
      <4> QED
        BY <2>3, <4>1
    <3> QED
      BY <1>2, <3>1, <3>2
  <2> QED
    BY <1>2, <2>4
<1>6. n \in T
  <2>1. T \in SUBSET (0 .. n) /\ n \in 0 .. n
    BY <1>2
  <2> HIDE DEF T
  <2>2. T = 0 .. n
    BY <1>2, <1>4, <1>5, <2>1, Climb
  <2> QED
    BY <2>1, <2>2
<1>7. PICK b \in Nat : Below(b, n)
  BY <1>6
<1> QED
  BY <1>1, <1>2, <1>7

\* The weekday of a day is what is left of it after whole weeks.
LEMMA WeekdayIs ==
  ASSUME NEW k \in Nat, NEW w \in Weekdays
  PROVE  (k * WeekLength + w) % WeekLength = w
<1>1. PICK W \in Nat : W = WeekLength /\ W > 0 /\ w \in 0 .. (W - 1)
  BY LengthsAssumption DEF Weekdays
<1>2. PICK day \in Int : day = k * W + w
  BY <1>1
<1>3. PICK q \in Int, r \in 0 .. (W - 1) : r = day % W /\ day = q * W + r
  BY <1>1, <1>2
<1>4. ASSUME NEW x \in Int, NEW y \in Int, x < y
      PROVE  x * W + W <= y * W
  <2>1. PICK j \in Nat : y = x + 1 + j
    <3>1. y - x - 1 \in Nat /\ y = x + 1 + (y - x - 1)
      BY <1>4
    <3> QED
      BY <3>1
  <2>2. j * W >= 0 /\ (x + 1 + j) * W = x * W + W + j * W
    BY <1>1
  <2>3. x * W \in Int /\ j * W \in Int
    BY <1>1
  <2> QED
    BY <1>1, <2>1, <2>2, <2>3
<1>5. k * W \in Int /\ q * W \in Int /\ w \in Int /\ w < W /\ 0 <= w
  BY <1>1
<1>6. ~(k < q) /\ ~(q < k)
  <2>1. ASSUME k < q PROVE FALSE
    <3>1. k * W + W <= q * W
      BY <1>4, <2>1
    <3> QED
      BY <1>1, <1>2, <1>3, <1>5, <3>1
  <2>2. ASSUME q < k PROVE FALSE
    <3>1. q * W + W <= k * W
      BY <1>4, <2>2
    <3> QED
      BY <1>1, <1>2, <1>3, <1>5, <3>1
  <2> QED
    BY <2>1, <2>2
<1>7. k = q
  BY <1>6
<1>8. r = w
  BY <1>2, <1>3, <1>5, <1>7
<1> QED
  BY <1>1, <1>2, <1>3, <1>8

\* A calendar with working hours and finitely many holidays.
Supplies(c) == IsFiniteSet(c.holidays) /\ (c.always \/ \E w \in Weekdays : c.hours[w] # <<>>)

LEMMA WorksAgain ==
  ASSUME NEW c \in Calendar, Supplies(c), NEW t \in Nat
  PROVE  \E u \in Nat : t <= u /\ Works(c, u)
<1>1. CASE c.always
  BY <1>1 DEF Works
<1>2. CASE ~c.always
  <2>1. PICK w \in Weekdays : c.hours[w] # <<>>
    BY <1>2 DEF Supplies
  <2>2. PICK spans \in Seq(Interval) : spans = c.hours[w] /\ FitsDay(spans) /\ spans # <<>>
    BY <2>1 DEF Calendar
  <2>3. 1 \in DOMAIN spans
    BY <2>2
  <2>4. PICK from \in Int : /\ from = spans[1].from /\ 0 <= from /\ from < DayLength
                            /\ spans[1].to \in Int /\ from < spans[1].to
    <3>1. PICK L \in Nat : L = DayLength
      BY LengthsAssumption
    <3>2. spans[1] \in Interval
      BY <2>2, <2>3
    <3>3. spans[1].from \in 0 .. L /\ spans[1].to \in 0 .. L
      BY <3>1, <3>2 DEF Interval
    <3>4. spans[1].from < spans[1].to
      BY <2>2, <2>3 DEF FitsDay
    <3>5. PICK x \in 0 .. L, y \in 0 .. L : x = spans[1].from /\ y = spans[1].to
      BY <3>3
    <3>6. x < y /\ x < L
      BY <3>4, <3>5
    <3> QED
      BY <3>1, <3>5, <3>6
  <2>5. PICK b \in Nat : \A day \in c.holidays : day < b
    <3>1. c.holidays \in SUBSET Int /\ IsFiniteSet(c.holidays)
      BY DEF Calendar, Supplies
    <3> QED
      BY <3>1, Bounded
  <2>6. PICK W \in Nat, D \in Nat : W = WeekLength /\ W > 0 /\ D = DayLength /\ D > 0
    BY LengthsAssumption
  <2>7. PICK k \in Nat : k = b + t + 1
    OBVIOUS
  <2>8. PICK day \in Nat : day = k * W + w /\ b + t + 1 <= day
    <3>1. w \in Nat
      BY <2>6 DEF Weekdays
    <3>2. k * W \in Nat /\ k <= k * W
      <4>1. PICK v \in Nat : W = v + 1
        <5>1. W - 1 \in Nat /\ W = (W - 1) + 1
          BY <2>6
        <5> QED
          BY <5>1
      <4>2. k * (v + 1) = k * v + k /\ k * v \in Nat
        OBVIOUS
      <4> QED
        BY <4>1, <4>2
    <3>3. k * W + w \in Nat /\ b + t + 1 <= k * W + w
      BY <2>7, <3>1, <3>2
    <3> QED
      BY <3>3
  <2>9. PICK u \in Nat : u = day * D + from /\ t <= u
    <3>1. day * D \in Nat /\ day <= day * D
      <4>1. PICK v \in Nat : D = v + 1
        <5>1. D - 1 \in Nat /\ D = (D - 1) + 1
          BY <2>6
        <5> QED
          BY <5>1
      <4>2. day * (v + 1) = day * v + day /\ day * v \in Nat
        OBVIOUS
      <4> QED
        BY <4>1, <4>2
    <3>2. PICK x \in Nat : x = day * D
      BY <3>1
    <3>3. t <= day /\ day <= x
      BY <2>8, <3>1, <3>2
    <3>4. from \in Nat
      BY <2>4
    <3>5. x + from \in Nat /\ t <= x + from
      BY <3>3, <3>4
    <3> QED
      BY <3>2, <3>5
  <2>10. DayOf(u) = day /\ u % DayLength = from
    <3>1. day * DayLength \in Int /\ u = day * DayLength + from
      BY <2>6, <2>9
    <3>2. day * DayLength <= u /\ u < day * DayLength + DayLength
      BY <2>4, <2>6, <2>9, <3>1
    <3>3. DayOf(u) = day
      BY <3>2, DayUnique
    <3>4. u % DayLength = u - DayOf(u) * DayLength
      BY DayIs
    <3> QED
      BY <2>4, <3>1, <3>3, <3>4
  <2>11. day % WeekLength = w
    BY <2>6, <2>8, WeekdayIs
  <2>12. day \notin c.holidays
    <3> SUFFICES ASSUME day \in c.holidays PROVE FALSE
      OBVIOUS
    <3>1. day < b
      BY <2>5
    <3> QED
      BY <2>8, <3>1
  <2>13. Works(c, u)
    BY <2>2, <2>3, <2>4, <2>10, <2>11, <2>12 DEF Works
  <2> QED
    BY <2>9, <2>13
<1> QED
  BY <1>1, <1>2

LEMMA TimeComes ==
  ASSUME NEW c \in Calendar, Supplies(c), NEW t \in Nat, NEW units \in Nat
  PROVE  \E u \in Nat : t <= u /\ units <= Between(c, t, u)
<1> DEFINE Passed(k) == \E u \in Nat : t <= u /\ k <= Between(c, t, u)
           T == {k \in 0 .. units : Passed(k)}
<1>1. 0 \in T
  <2>1. Between(c, t, t) \in Nat
    BY BetweenType
  <2>2. t <= t /\ 0 <= Between(c, t, t)
    BY <2>1
  <2> QED
    BY <2>2
<1>2. ASSUME NEW k \in 0 .. (units - 1), k \in T
      PROVE  k + 1 \in T
  <2>1. PICK u \in Nat : t <= u /\ k <= Between(c, t, u)
    BY <1>2
  <2>2. PICK v \in Nat : u <= v /\ Works(c, v)
    BY WorksAgain
  <2>3. PICK e \in Nat : e = v + 1
    OBVIOUS
  <2>4. Between(c, v, e) = 1
    <3>1. \A x \in v .. (e - 1) : Works(c, x)
      BY <2>2, <2>3
    <3>2. Between(c, v, e) = e - v
      BY <2>3, <3>1, BetweenAll
    <3> QED
      BY <2>3, <3>2
  <2>5. Between(c, t, e) = Between(c, t, v) + Between(c, v, e)
    <3>1. t <= v /\ v <= e
      BY <2>1, <2>2, <2>3
    <3> QED
      BY <3>1, BetweenJoins
  <2>6. Between(c, t, v) = Between(c, t, u) + Between(c, u, v)
    BY <2>1, <2>2, BetweenJoins
  <2>7. Between(c, t, u) \in Nat /\ Between(c, u, v) \in Nat /\ Between(c, t, v) \in Nat
    BY BetweenType
  <2>8. t <= e /\ k + 1 <= Between(c, t, e)
    BY <2>1, <2>2, <2>3, <2>4, <2>5, <2>6, <2>7
  <2>9. Passed(k + 1)
    BY <2>8
  <2> HIDE DEF Passed
  <2> QED
    BY <2>9
<1>3. units \in T
  <2>1. T \in SUBSET (0 .. units) /\ units \in 0 .. units
    OBVIOUS
  <2> HIDE DEF T
  <2>2. T = 0 .. units
    BY <1>1, <1>2, <2>1, Climb
  <2> QED
    BY <2>1, <2>2
<1> QED
  BY <1>3

\* What SlaClocks supposes of the time worked holds of every calendar that has working hours: it
\* is counted, never shrinks, and reaches every target from every moment (elapsed, parse_hours).
THEOREM TargetsAreReached ==
  ASSUME NEW c \in Calendar, Supplies(c)
  PROVE  LET worked == [t \in Nat |-> Elapsed(c, 0, t)]
         IN /\ worked \in [Nat -> Nat]
            /\ \A s, t \in Nat : s <= t => worked[s] <= worked[t]
            /\ \A t, units \in Nat : \E u \in Nat : u >= t /\ worked[u] - worked[t] >= units
<1> DEFINE worked == [t \in Nat |-> Elapsed(c, 0, t)]
<1>1. \A t \in Nat : worked[t] = Elapsed(c, 0, t)
  OBVIOUS
<1>2. \A t \in Nat : Elapsed(c, 0, t) \in Nat
  BY ElapsedAdds
<1>3. worked \in [Nat -> Nat]
  BY <1>2
<1> HIDE DEF worked
<1>4. ASSUME NEW s \in Nat, NEW t \in Nat, s <= t
      PROVE  worked[s] <= worked[t]
  <2>1. Elapsed(c, 0, s) <= Elapsed(c, 0, t)
    BY <1>4, ElapsedAdds
  <2> QED
    BY <1>1, <2>1
<1>5. ASSUME NEW t \in Nat, NEW units \in Nat
      PROVE  \E u \in Nat : u >= t /\ worked[u] - worked[t] >= units
  <2>1. PICK u \in Nat : t <= u /\ units <= Between(c, t, u)
    BY TimeComes
  <2>2. Elapsed(c, t, u) = Between(c, t, u)
    BY ElapsedCounts DEF ElapsedIsCounted
  <2>3. Elapsed(c, t, u) = Elapsed(c, 0, u) - Elapsed(c, 0, t)
    BY <2>1, ElapsedAdds
  <2>4. worked[u] \in Nat /\ worked[t] \in Nat
    BY <1>3
  <2>5. u >= t /\ worked[u] - worked[t] >= units
    BY <1>1, <2>1, <2>2, <2>3, <2>4
  <2> QED
    BY <2>5
<1> QED
  BY <1>3, <1>4, <1>5 DEF worked

-----------------------------------------------------------------------------
(* Whole days *)

\* What elapsed and whole_days make of one day.
DayOver(c, day, end) ==
  LET worked == {u \in (day * DayLength) .. ((day + 1) * DayLength - 1) : Works(c, u)}
  IN worked # {} /\ \A u \in worked : u < end

LEMMA UnitsOfDay ==
  ASSUME NEW day \in Int
  PROVE  /\ day * DayLength \in Int
         /\ (day + 1) * DayLength - 1 = day * DayLength + DayLength - 1
         /\ DayLength \in Int /\ DayLength > 0
BY LengthsAssumption

LEMMA DayOverAlways ==
  ASSUME NEW c, c.always, NEW day \in Int, NEW end \in Int
  PROVE  DayOver(c, day, end) <=> day < DayOf(end)
<1>1. PICK b \in Int, D \in Int : b = day * DayLength /\ D = DayLength /\ D > 0
  BY UnitsOfDay
<1>2. (day + 1) * DayLength - 1 = b + D - 1
  BY <1>1, UnitsOfDay
<1>3. DayOver(c, day, end) <=> \A u \in b .. (b + D - 1) : u < end
  <2>1. b \in b .. (b + D - 1)
    BY <1>1
  <2> QED
    BY <1>1, <1>2, <2>1 DEF DayOver, Works
<1>4. (\A u \in b .. (b + D - 1) : u < end) <=> b + D <= end
  <2>1. b + D - 1 \in b .. (b + D - 1)
    BY <1>1
  <2>2. ASSUME \A u \in b .. (b + D - 1) : u < end
        PROVE  b + D <= end
    <3>1. b + D - 1 < end
      BY <2>1, <2>2
    <3> QED
      BY <3>1
  <2> QED
    BY <2>2
<1>5. b + D <= end <=> day < DayOf(end)
  <2>1. PICK q \in Int, e \in Int :
          q = DayOf(end) /\ e = DayOf(end) * DayLength /\ e <= end /\ end < e + D
    BY <1>1, DayIs, UnitsOfDay
  <2>2. ASSUME day < q PROVE b + D <= e
    BY <1>1, <2>1, <2>2, Nonlinear
  <2>3. ASSUME ~(day < q) PROVE e <= b
    <3>1. CASE day = q
      BY <1>1, <2>1, <3>1
    <3>2. CASE q < day
      <4>1. e + D <= b
        BY <1>1, <2>1, <3>2, Nonlinear
      <4> QED
        BY <1>1, <4>1
    <3> QED
      BY <2>3, <3>1, <3>2
  <2> QED
    BY <1>1, <2>1, <2>2, <2>3
<1> QED
  BY <1>3, <1>4, <1>5

LEMMA DayOverHours ==
  ASSUME NEW c \in Calendar, ~c.always, NEW day \in Int, NEW end \in Int
  PROVE  DayOver(c, day, end) <=>
           Spans(c, day) # <<>> /\ end >= Last(Spans(c, day)).to
<1>1. PICK spans : spans = Spans(c, day)
  OBVIOUS
<1>2. PICK b \in Int, D \in Int : b = day * DayLength /\ D = DayLength /\ D > 0
  BY UnitsOfDay
<1>3. PICK n \in Nat :
        /\ Len(spans) = n /\ DOMAIN spans = 1 .. n
        /\ \A i \in 1 .. n : /\ spans[i].from \in Int /\ spans[i].to \in Int
                             /\ b <= spans[i].from /\ spans[i].from < spans[i].to
                             /\ spans[i].to <= b + D
        /\ \A i, j \in 1 .. n : i < j => spans[i].to <= spans[j].from
        /\ \A u \in Int : b <= u /\ u < b + D =>
             (Works(c, u) <=> \E i \in 1 .. n : spans[i].from <= u /\ u < spans[i].to)
  BY <1>1, <1>2, SpansAre
<1> DEFINE worked == {u \in b .. (b + D - 1) : Works(c, u)}
<1>4. DayOver(c, day, end) <=> worked # {} /\ \A u \in worked : u < end
  BY <1>2, UnitsOfDay DEF DayOver
<1>5. CASE n = 0
  <2>1. worked = {}
    BY <1>3, <1>5
  <2>2. spans = <<>>
    BY <1>1, <1>3, <1>5 DEF Spans
  <2> QED
    BY <1>1, <1>4, <2>1, <2>2
<1>6. CASE n # 0
  <2>1. n \in 1 .. n /\ spans # <<>> /\ Last(spans) = spans[n]
    BY <1>3, <1>6 DEF Last
  <2>2. PICK from \in Int, to \in Int :
          /\ from = spans[n].from /\ to = spans[n].to
          /\ b <= from /\ from < to /\ to <= b + D
    BY <1>3, <2>1
  <2>3. to - 1 \in worked
    <3>1. to - 1 \in Int /\ b <= to - 1 /\ to - 1 < b + D /\ from <= to - 1 /\ to - 1 < to
      BY <2>2
    <3>2. Works(c, to - 1)
      BY <1>3, <2>1, <2>2, <3>1
    <3> QED
      BY <3>1, <3>2
  <2>4. \A u \in worked : u \in Int /\ u < to
    <3> SUFFICES ASSUME NEW u \in worked
                 PROVE  u < to
      OBVIOUS
    <3>1. u \in Int /\ b <= u /\ u < b + D /\ Works(c, u)
      OBVIOUS
    <3>2. PICK i \in 1 .. n : spans[i].from <= u /\ u < spans[i].to
      BY <1>3, <3>1
    <3>3. spans[i].to <= to
      <4>1. CASE i = n
        BY <2>2, <4>1
      <4>2. CASE i # n
        <5>1. i < n
          BY <4>2
        <5>2. spans[i].to <= from /\ spans[i].to \in Int
          BY <1>3, <2>1, <2>2, <5>1
        <5> QED
          BY <2>2, <5>2
      <4> QED
        BY <4>1, <4>2
    <3>4. spans[i].to \in Int
      BY <1>3
    <3> QED
      BY <3>1, <3>2, <3>3, <3>4
  <2> HIDE DEF worked
  <2>5. (\A u \in worked : u < end) <=> end >= to
    <3>1. ASSUME \A u \in worked : u < end
          PROVE  end >= to
      <4>1. to - 1 < end
        BY <2>3, <3>1
      <4> QED
        BY <2>2, <4>1
    <3>2. ASSUME end >= to, NEW u \in worked
          PROVE  u < end
      BY <2>2, <2>4, <3>2
    <3> QED
      BY <3>1, <3>2
  <2> QED
    BY <1>1, <1>4, <2>1, <2>2, <2>3, <2>5
<1> QED
  BY <1>5, <1>6

\* A day counts as whole when it had working units and none of them is left
\* (BusinessCalendar.whole_days).
THEOREM WholeDaysCount ==
  ASSUME NEW c \in Calendar, NEW start \in Int, NEW end \in Int
  PROVE  WholeDaysAreCounted(c, start, end)
<1> DEFINE S == (DayOf(start) + 1) .. DayOf(end)
<1>1. S \subseteq Int /\ c.always \in BOOLEAN
  BY DayIs DEF Calendar
<1>2. \A day \in S : DayOver(c, day, end) <=>
        IF c.always THEN day < DayOf(end)
        ELSE LET spans == Spans(c, day) IN spans # <<>> /\ end >= Last(spans).to
  <2> HIDE DEF S
  <2> QED
    BY <1>1, DayOverAlways, DayOverHours
<1>3. WholeDays(c, start, end) = Cardinality({day \in S : DayOver(c, day, end)})
  <2>1. {day \in S : DayOver(c, day, end)}
          = {day \in S : IF c.always THEN day < DayOf(end)
                         ELSE LET spans == Spans(c, day) IN spans # <<>> /\ end >= Last(spans).to}
    <3> HIDE DEF S
    <3> QED
      BY <1>2
  <2> QED
    BY <2>1 DEF WholeDays
<1> QED
  BY <1>3 DEF WholeDaysAreCounted, DayOver

-----------------------------------------------------------------------------
(* The hours of a day, sorted *)

\* Intervals of a day, by number: each precedes the next, or is equal to it and came first.
Ranked(spans, i, j) ==
  Precedes(spans[i], spans[j]) /\ (Precedes(spans[j], spans[i]) => i <= j)

LEMMA RankedOrders ==
  ASSUME NEW n \in Nat, NEW spans \in [1 .. n -> [from : Int, to : Int]]
  PROVE  /\ \A i \in 1 .. n : Ranked(spans, i, i)
         /\ \A i, j \in 1 .. n : Ranked(spans, i, j) \/ Ranked(spans, j, i)
         /\ \A i, j \in 1 .. n : Ranked(spans, i, j) /\ Ranked(spans, j, i) => i = j
         /\ \A i, j, k \in 1 .. n : Ranked(spans, i, j) /\ Ranked(spans, j, k) => Ranked(spans, i, k)
<1>1. \A i \in 1 .. n : i \in Int /\ spans[i].from \in Int /\ spans[i].to \in Int
  OBVIOUS
<1>2. ASSUME NEW i \in 1 .. n, NEW j \in 1 .. n
      PROVE  Precedes(spans[i], spans[j]) \/ Precedes(spans[j], spans[i])
  <2>1. PICK a \in Int, b \in Int, x \in Int, y \in Int :
          /\ a = spans[i].from /\ b = spans[i].to /\ x = spans[j].from /\ y = spans[j].to
    BY <1>1
  <2>2. a < x \/ (a = x /\ b <= y) \/ x < a \/ (x = a /\ y <= b)
    OBVIOUS
  <2> QED
    BY <2>1, <2>2 DEF Precedes
<1>3. ASSUME NEW i \in 1 .. n, NEW j \in 1 .. n, NEW k \in 1 .. n,
             Precedes(spans[i], spans[j]), Precedes(spans[j], spans[k])
      PROVE  Precedes(spans[i], spans[k])
  <2>1. PICK a \in Int, b \in Int, x \in Int, y \in Int, u \in Int, v \in Int :
          /\ a = spans[i].from /\ b = spans[i].to /\ x = spans[j].from /\ y = spans[j].to
          /\ u = spans[k].from /\ v = spans[k].to
    BY <1>1
  <2>2. (a < x \/ (a = x /\ b <= y)) /\ (x < u \/ (x = u /\ y <= v))
    BY <1>3, <2>1 DEF Precedes
  <2>3. a < u \/ (a = u /\ b <= v)
    BY <2>2
  <2> QED
    BY <2>1, <2>3 DEF Precedes
<1>4. \A i \in 1 .. n : Ranked(spans, i, i)
  <2> SUFFICES ASSUME NEW i \in 1 .. n PROVE Ranked(spans, i, i)
    OBVIOUS
  <2>1. Precedes(spans[i], spans[i])
    BY <1>2
  <2>2. i <= i
    OBVIOUS
  <2> QED
    BY <2>1, <2>2 DEF Ranked
<1>5. ASSUME NEW i \in 1 .. n, NEW j \in 1 .. n
      PROVE  Ranked(spans, i, j) \/ Ranked(spans, j, i)
  <2>1. i <= j \/ j <= i
    BY <1>1
  <2> QED
    BY <1>2, <2>1, Zenon DEF Ranked
<1>6. ASSUME NEW i \in 1 .. n, NEW j \in 1 .. n, Ranked(spans, i, j), Ranked(spans, j, i)
      PROVE  i = j
  <2>1. i <= j /\ j <= i
    BY <1>6, Zenon DEF Ranked
  <2> QED
    BY <2>1
<1>7. ASSUME NEW i \in 1 .. n, NEW j \in 1 .. n, NEW k \in 1 .. n,
             Ranked(spans, i, j), Ranked(spans, j, k)
      PROVE  Ranked(spans, i, k)
  <2>1. /\ Precedes(spans[i], spans[j]) /\ (Precedes(spans[j], spans[i]) => i <= j)
        /\ Precedes(spans[j], spans[k]) /\ (Precedes(spans[k], spans[j]) => j <= k)
    BY <1>7, Zenon DEF Ranked
  <2>2. Precedes(spans[i], spans[k])
    BY <1>3, <2>1, Zenon
  <2>3. ASSUME Precedes(spans[k], spans[i])
        PROVE  i <= k
    <3>1. Precedes(spans[j], spans[i]) /\ Precedes(spans[k], spans[j])
      BY <1>3, <2>1, <2>3, Zenon
    <3>2. i <= j /\ j <= k
      BY <2>1, <3>1, Zenon
    <3> QED
      BY <3>2
  <2> QED
    BY <2>2, <2>3, Zenon DEF Ranked
<1> QED
  BY <1>4, <1>5, <1>6, <1>7, Zenon

\* There is an order that sorts a day's intervals, and Sorted takes one.
LEMMA SortedBy ==
  ASSUME NEW n \in Nat, NEW spans \in [1 .. n -> [from : Int, to : Int]]
  PROVE  \E order \in [1 .. n -> 1 .. n] :
           /\ Sorts(order, spans)
           /\ \A i, j \in 1 .. n : order[i] = order[j] => i = j
           /\ \A k \in 1 .. n : \E i \in 1 .. n : order[i] = k
           /\ Sorted(spans) = [i \in 1 .. n |-> spans[order[i]]]
<1> DEFINE S == 1 .. n
           Lower(j) == {i \in S : Ranked(spans, i, j)}
           rank == [j \in S |-> Cardinality(Lower(j))]
<1>1. IsFiniteSet(S) /\ Cardinality(S) = n /\ DOMAIN spans = S
  BY FS_Interval
<1>2. \A j \in S : /\ IsFiniteSet(Lower(j)) /\ Cardinality(Lower(j)) \in Nat
                   /\ Cardinality(Lower(j)) <= n
  <2> SUFFICES ASSUME NEW j \in S
               PROVE  /\ IsFiniteSet(Lower(j)) /\ Cardinality(Lower(j)) \in Nat
                      /\ Cardinality(Lower(j)) <= n
    OBVIOUS
  <2>1. Lower(j) \in SUBSET S
    OBVIOUS
  <2> HIDE DEF Lower, S
  <2> QED
    BY <1>1, <2>1, FS_Subset, FS_CardinalityType
<1>3. ASSUME NEW i \in S, NEW j \in S, i # j, Ranked(spans, i, j)
      PROVE  rank[i] < rank[j]
  <2>1. Lower(i) \subseteq Lower(j) /\ j \in Lower(j) /\ j \notin Lower(i)
    BY <1>3, RankedOrders
  <2>2. Lower(i) \in SUBSET Lower(j) /\ Lower(i) # Lower(j)
    BY <2>1
  <2>3. rank[i] = Cardinality(Lower(i)) /\ rank[j] = Cardinality(Lower(j))
    OBVIOUS
  <2> HIDE DEF Lower, rank
  <2>4. Cardinality(Lower(i)) <= Cardinality(Lower(j)) /\ Cardinality(Lower(i)) # Cardinality(Lower(j))
    BY <1>2, <2>2, FS_Subset
  <2>5. Cardinality(Lower(i)) \in Nat /\ Cardinality(Lower(j)) \in Nat
    BY <1>2
  <2> QED
    BY <2>3, <2>4, <2>5
<1>4. \A j \in S : rank[j] \in S
  <2> SUFFICES ASSUME NEW j \in S
               PROVE  rank[j] \in S
    OBVIOUS
  <2>1. j \in Lower(j)
    BY RankedOrders
  <2> HIDE DEF Lower
  <2>2. Cardinality(Lower(j)) # 0
    BY <1>2, <2>1, FS_EmptySet
  <2> QED
    BY <1>2, <2>2
<1>5. rank \in [S -> S]
  BY <1>4
<1> HIDE DEF rank, Lower
<1>6. \A i, j \in S : rank[i] = rank[j] => i = j
  <2> SUFFICES ASSUME NEW i \in S, NEW j \in S, i # j
               PROVE  rank[i] # rank[j]
    OBVIOUS
  <2>1. Ranked(spans, i, j) \/ Ranked(spans, j, i)
    BY RankedOrders
  <2>2. rank[i] < rank[j] \/ rank[j] < rank[i]
    BY <1>3, <2>1
  <2>3. rank[i] \in Int /\ rank[j] \in Int
    BY <1>4
  <2> QED
    BY <2>2, <2>3
<1>7. \A k \in S : \E j \in S : rank[j] = k
  <2>1. rank \in Injection(S, S)
    BY <1>5, <1>6 DEF Injection, IsInjective
  <2> HIDE DEF S
  <2>2. rank \in Surjection(S, S)
    BY <1>1, <2>1, FS_Injection
  <2> QED
    BY <2>2 DEF Surjection
<1> DEFINE order == [k \in S |-> CHOOSE j \in S : rank[j] = k]
<1>8. \A k \in S : order[k] \in S /\ rank[order[k]] = k
  BY <1>7
<1>9. order \in [S -> S]
  BY <1>8
<1> HIDE DEF order
<1>10. order \in Bijection(S, S)
  <2>1. \A i, j \in S : order[i] = order[j] => i = j
    BY <1>8
  <2>2. \A k \in S : \E i \in S : order[i] = k
    <3> SUFFICES ASSUME NEW k \in S
                 PROVE  \E i \in S : order[i] = k
      OBVIOUS
    <3>1. rank[k] \in S /\ rank[order[rank[k]]] = rank[k] /\ order[rank[k]] \in S
      BY <1>4, <1>8
    <3>2. order[rank[k]] = k
      BY <1>6, <3>1
    <3> QED
      BY <3>1, <3>2
  <2> HIDE DEF S
  <2> QED
    BY <1>9, <2>1, <2>2 DEF Bijection, Injection, Surjection, IsInjective
<1>11. Sorts(order, spans)
  <2> SUFFICES ASSUME NEW i \in S, NEW j \in S, i < j
               PROVE  Precedes(spans[order[i]], spans[order[j]])
    BY <1>1 DEF Sorts
  <2>1. /\ order[i] \in S /\ order[j] \in S /\ order[i] # order[j]
        /\ rank[order[i]] = i /\ rank[order[j]] = j
    BY <1>8
  <2>2. ~Ranked(spans, order[j], order[i])
    <3> SUFFICES ASSUME Ranked(spans, order[j], order[i])
                 PROVE  FALSE
      OBVIOUS
    <3>1. rank[order[j]] < rank[order[i]]
      BY <1>3, <2>1
    <3> QED
      BY <2>1, <3>1
  <2>3. Ranked(spans, order[i], order[j])
    BY <2>1, <2>2, RankedOrders
  <2> QED
    BY <2>3 DEF Ranked
<1> DEFINE chosen == CHOOSE o \in Bijection(DOMAIN spans, DOMAIN spans) : Sorts(o, spans)
<1>12. chosen \in Bijection(S, S) /\ Sorts(chosen, spans)
  <2> HIDE DEF S
  <2> QED
    BY <1>1, <1>10, <1>11
<1>13. Sorted(spans) = [i \in S |-> spans[chosen[i]]]
  BY <1>1 DEF Sorted
<1> HIDE DEF chosen
<1>14. /\ chosen \in [S -> S]
       /\ \A i, j \in S : chosen[i] = chosen[j] => i = j
       /\ \A k \in S : \E i \in S : chosen[i] = k
  <2> HIDE DEF S
  <2> QED
    BY <1>12 DEF Bijection, Injection, Surjection, IsInjective
<1> QED
  BY <1>12, <1>13, <1>14

\* The intervals of a day that hold a unit.
Holding(spans, u) == {i \in DOMAIN spans : spans[i].from <= u /\ u < spans[i].to}

Clear(spans) ==
  /\ \A u \in 0 .. DayLength : Cardinality(Holding(spans, u)) <= 1
  /\ \A i \in DOMAIN spans : \E u \in 0 .. DayLength : i \in Holding(spans, u)

LEMMA AtMostOne ==
  ASSUME NEW S, IsFiniteSet(S)
  PROVE  Cardinality(S) <= 1 <=> \A x, y \in S : x = y
<1>1. ASSUME Cardinality(S) <= 1, NEW x \in S, NEW y \in S, x # y
      PROVE  FALSE
  <2>1. {x, y} \in SUBSET S /\ {x, y} = {x} \union {y}
    OBVIOUS
  <2>2. Cardinality({x, y}) = 2
    <3>1. IsFiniteSet({x}) /\ Cardinality({x}) = 1 /\ y \notin {x}
      BY <1>1, FS_Singleton
    <3>2. Cardinality({x} \union {y}) = Cardinality({x}) + 1
      BY <3>1, FS_AddElement
    <3> QED
      BY <2>1, <3>1, <3>2
  <2>3. Cardinality({x, y}) <= Cardinality(S) /\ Cardinality(S) \in Nat
    BY <2>1, FS_Subset, FS_CardinalityType
  <2> QED
    BY <1>1, <2>2, <2>3
<1>2. ASSUME \A x, y \in S : x = y
      PROVE  Cardinality(S) <= 1
  <2>1. CASE S = {}
    BY <2>1, FS_EmptySet
  <2>2. CASE S # {}
    <3>1. PICK x : S = {x}
      BY <1>2, <2>2
    <3> QED
      BY <3>1, FS_Singleton
  <2> QED
    BY <2>1, <2>2
<1> QED
  BY <1>1, <1>2

LEMMA NotLess == \A x, y \in Int : ~(x < y) => x >= y
OBVIOUS

LEMMA LessOrEqual == \A x, y \in Int : x < y \/ x = y => x <= y
OBVIOUS

\* A day is accepted if no unit is in two of its intervals and none of them is empty.
LEMMA DayIsRead ==
  ASSUME NEW raw \in Seq(Interval)
  PROVE  /\ FitsDay(Sorted(raw)) <=> Clear(raw)
         /\ Sorted(raw) = <<>> <=> raw = <<>>
<1>1. PICK n \in Nat : n = Len(raw) /\ DOMAIN raw = 1 .. n /\ raw \in [1 .. n -> Interval]
  OBVIOUS
<1>2. PICK D \in Nat : D = DayLength
  BY LengthsAssumption
<1>3. \A i \in 1 .. n : raw[i].from \in 0 .. D /\ raw[i].to \in 0 .. D
  BY <1>1, <1>2 DEF Interval
<1>0. /\ \A i \in 1 .. n : raw[i].from \in Int /\ raw[i].to \in Int
      /\ \A u \in 0 .. DayLength : u \in Int
  <2>1. \A x \in 0 .. D : x \in Int
    OBVIOUS
  <2> QED
    BY <1>2, <1>3, <2>1
<1>4. raw \in [1 .. n -> [from : Int, to : Int]]
  <2> DEFINE Spanned == [from : Int, to : Int]
  <2>1. Interval \subseteq Spanned
    BY <1>2 DEF Interval
  <2> HIDE DEF Spanned
  <2>2. raw \in [1 .. n -> Spanned]
    BY <1>1, <2>1
  <2> QED
    BY <2>2 DEF Spanned
<1>5. PICK order \in [1 .. n -> 1 .. n] :
        /\ Sorts(order, raw)
        /\ \A i, j \in 1 .. n : order[i] = order[j] => i = j
        /\ \A k \in 1 .. n : \E i \in 1 .. n : order[i] = k
        /\ Sorted(raw) = [i \in 1 .. n |-> raw[order[i]]]
  BY <1>4, SortedBy
<1> DEFINE sorted == [i \in 1 .. n |-> raw[order[i]]]
<1>6. /\ sorted \in [1 .. n -> [from : Int, to : Int]] /\ DOMAIN sorted = 1 .. n
      /\ \A i \in 1 .. n : sorted[i] = raw[order[i]] /\ order[i] \in 1 .. n
      /\ Sorted(raw) = sorted
  BY <1>4, <1>5
<1> HIDE DEF sorted
<1>7. sorted \in Seq([from : Int, to : Int]) /\ Len(sorted) = n
  <2> DEFINE Spanned == [from : Int, to : Int]
  <2>1. sorted \in [1 .. n -> Spanned]
    BY <1>6
  <2> HIDE DEF Spanned
  <2>2. sorted \in Seq(Spanned) /\ Len(sorted) = n
    BY <1>1, <2>1
  <2> QED
    BY <2>2 DEF Spanned
<1>8. \A u : IsFiniteSet(Holding(raw, u))
  <2> SUFFICES ASSUME NEW u PROVE IsFiniteSet(Holding(raw, u))
    OBVIOUS
  <2>1. Holding(raw, u) \in SUBSET (1 .. n) /\ IsFiniteSet(1 .. n)
    BY <1>1, FS_Interval DEF Holding
  <2> QED
    BY <2>1, FS_Subset
<1>9. ASSUME FitsDay(sorted)
      PROVE  Clear(raw)
  <2>1. \A i, j \in 1 .. n : i < j => sorted[i].to <= sorted[j].from
    BY <1>6, <1>7, <1>9, SpansInOrder
  <2>2. \A i \in 1 .. n : sorted[i].from < sorted[i].to
    BY <1>6, <1>9 DEF FitsDay
  <2>3. ASSUME NEW u \in 0 .. DayLength, NEW k \in Holding(raw, u), NEW l \in Holding(raw, u)
        PROVE  k = l
    <3>1. PICK i \in 1 .. n, j \in 1 .. n : order[i] = k /\ order[j] = l
      BY <1>1, <1>5 DEF Holding
    <3>2. /\ sorted[i].from <= u /\ u < sorted[i].to /\ sorted[j].from <= u /\ u < sorted[j].to
      BY <1>6, <3>1 DEF Holding
    <3>3. /\ sorted[i].from \in Int /\ sorted[i].to \in Int /\ sorted[j].from \in Int
          /\ sorted[j].to \in Int /\ u \in Int
      BY <1>0, <1>6
    <3>4. ~(i < j) /\ ~(j < i)
      <4>1. ASSUME i < j PROVE sorted[i].to <= sorted[j].from
        BY <2>1, <4>1
      <4>2. ASSUME j < i PROVE sorted[j].to <= sorted[i].from
        BY <2>1, <4>2
      <4>3. PICK a \in Int, b \in Int, x \in Int, y \in Int, v \in Int :
              /\ a = sorted[i].from /\ b = sorted[i].to /\ x = sorted[j].from
              /\ y = sorted[j].to /\ v = u
        BY <3>3
      <4>4. (i < j => b <= x) /\ (j < i => y <= a) /\ a <= v /\ v < b /\ x <= v /\ v < y
        BY <3>2, <4>1, <4>2, <4>3
      <4> QED
        BY <4>4
    <3>5. i = j
      BY <3>4
    <3> QED
      BY <3>1, <3>5
  <2>4. ASSUME NEW k \in DOMAIN raw
        PROVE  \E u \in 0 .. DayLength : k \in Holding(raw, u)
    <3>1. PICK i \in 1 .. n : order[i] = k
      BY <1>1, <1>5
    <3>2. k \in 1 .. n /\ sorted[i] = raw[k]
      BY <1>1, <1>6, <3>1
    <3>3. raw[k].from < raw[k].to
      BY <2>2, <3>2
    <3>4. raw[k].from \in 0 .. DayLength
      BY <1>2, <1>3, <3>2
    <3>5. raw[k].from \in Int
      BY <1>0, <3>2
    <3>6. raw[k].from <= raw[k].from
      BY <3>5
    <3> QED
      BY <3>3, <3>4, <3>6 DEF Holding
  <2> QED
    BY <1>8, <2>3, <2>4, AtMostOne DEF Clear
<1>10. ASSUME Clear(raw)
       PROVE  FitsDay(sorted)
  <2>1. \A k \in 1 .. n : raw[k].from < raw[k].to
    <3> SUFFICES ASSUME NEW k \in 1 .. n
                 PROVE  raw[k].from < raw[k].to
      OBVIOUS
    <3>1. PICK u \in 0 .. DayLength : raw[k].from <= u /\ u < raw[k].to
      BY <1>1, <1>10 DEF Clear, Holding
    <3>2. raw[k].from \in Int /\ raw[k].to \in Int /\ u \in Int
      BY <1>0
    <3> QED
      BY <3>1, <3>2
  <2>2. ASSUME NEW i \in 1 .. (n - 1)
        PROVE  sorted[i + 1].from >= sorted[i].to
    <3>1. i \in 1 .. n /\ i + 1 \in 1 .. n /\ i < i + 1 /\ i # i + 1
      OBVIOUS
    <3>2. PICK k \in 1 .. n, l \in 1 .. n : k = order[i] /\ l = order[i + 1] /\ k # l
      <4>1. order[i] \in 1 .. n /\ order[i + 1] \in 1 .. n
        BY <3>1
      <4>2. order[i] # order[i + 1]
        BY <1>5, <3>1
      <4> QED
        BY <4>1, <4>2
    <3>3. sorted[i] = raw[k] /\ sorted[i + 1] = raw[l]
      BY <1>6, <3>1, <3>2
    <3>4. Precedes(raw[k], raw[l])
      BY <1>1, <1>5, <3>1, <3>2 DEF Sorts
    <3>5. /\ raw[k].from \in 0 .. D /\ raw[k].to \in 0 .. D
          /\ raw[l].from \in 0 .. D /\ raw[l].to \in 0 .. D /\ raw[l].from < raw[l].to
      BY <1>3, <2>1
    <3>6. /\ raw[k].from \in Int /\ raw[k].to \in Int /\ raw[l].from \in Int
          /\ raw[k].from <= raw[l].from
      <4>1. raw[k].from \in Int /\ raw[k].to \in Int /\ raw[l].from \in Int
        BY <1>0
      <4>2. PICK x \in Int, y \in Int : x = raw[k].from /\ y = raw[l].from
        BY <4>1
      <4>3. x < y \/ x = y
        BY <3>4, <4>2, Zenon DEF Precedes
      <4>4. x <= y
        BY <4>3, LessOrEqual, Zenon
      <4> QED
        BY <4>1, <4>2, <4>4, Zenon
    <3>7. ~(raw[l].from < raw[k].to)
      <4> SUFFICES ASSUME raw[l].from < raw[k].to
                   PROVE  FALSE
        OBVIOUS
      <4>1. PICK u \in 0 .. DayLength : u = raw[l].from
        BY <1>2, <3>5
      <4>2. k \in Holding(raw, u) /\ l \in Holding(raw, u)
        BY <1>1, <3>5, <3>6, <4>1 DEF Holding
      <4>3. Cardinality(Holding(raw, u)) <= 1
        BY <1>10 DEF Clear
      <4> QED
        BY <1>8, <3>2, <4>2, <4>3, AtMostOne
    <3>8. PICK x \in Int, y \in Int : x = sorted[i + 1].from /\ y = sorted[i].to /\ ~(x < y)
      BY <3>3, <3>6, <3>7
    <3>9. x >= y
      BY <3>8, NotLess, Zenon
    <3> QED
      BY <3>8, <3>9, Zenon
  <2>3. \A i \in DOMAIN sorted : sorted[i].from < sorted[i].to
    BY <1>6, <2>1
  <2> QED
    BY <1>7, <2>2, <2>3 DEF FitsDay
<1>11. sorted = <<>> <=> raw = <<>>
  <2>1. raw = <<>> <=> n = 0
    BY <1>1
  <2>2. sorted = <<>> <=> n = 0
    BY <1>6, <1>7
  <2> QED
    BY <2>1, <2>2
<1> QED
  BY <1>6, <1>9, <1>10, <1>11

\* Hours are accepted just when they say of each unit of a day whether it is worked, and some is
\* (parse_hours).
THEOREM HoursRead ==
  ASSUME NEW raw \in [Weekdays -> Seq(Interval)]
  PROVE  HoursAreRead(raw)
<1>1. \A w \in Weekdays : raw[w] \in Seq(Interval)
  OBVIOUS
<1>2. Accepts(raw) <=> /\ \A w \in Weekdays : Clear(raw[w])
                       /\ \E w \in Weekdays : raw[w] # <<>>
  <2>1. \A w \in Weekdays : Parsed(raw)[w] = Sorted(raw[w])
    BY DEF Parsed
  <2> QED
    BY <1>1, <2>1, DayIsRead DEF Accepts
<1>3. ASSUME NEW w \in Weekdays, Clear(raw[w])
      PROVE  raw[w] # <<>> <=> \E u \in 0 .. DayLength : Holding(raw[w], u) # {}
  <2>1. PICK n \in Nat : n = Len(raw[w]) /\ DOMAIN raw[w] = 1 .. n
    BY <1>1
  <2>2. raw[w] # <<>> <=> n # 0
    BY <1>1, <2>1
  <2>3. ASSUME n # 0
        PROVE  \E u \in 0 .. DayLength : Holding(raw[w], u) # {}
    <3>1. 1 \in DOMAIN raw[w]
      BY <2>1, <2>3
    <3> QED
      BY <1>3, <3>1 DEF Clear
  <2>4. ASSUME NEW u \in 0 .. DayLength, Holding(raw[w], u) # {}
        PROVE  n # 0
    BY <2>1, <2>4 DEF Holding
  <2> QED
    BY <2>2, <2>3, <2>4
<1>4. Accepts(raw) <=>
        /\ \A w \in Weekdays : Clear(raw[w])
        /\ \E w \in Weekdays, u \in 0 .. DayLength : Holding(raw[w], u) # {}
  BY <1>2, <1>3
<1> QED
  BY <1>4 DEF HoursAreRead, Clear, Holding

-----------------------------------------------------------------------------
(* Whatever is asked *)

LEMMA QuestionsStay ==
  ASSUME NEW q, NEW units \in 0 .. MaxUnits, q \in Counting(units), units < MaxUnits
  PROVE  /\ q.units + 1 \in 0 .. MaxUnits
         /\ [q EXCEPT !.units = @ + 1] \in Counting(q.units + 1)
<1>1. PICK c \in Calendars, start \in Moments : q = [cal |-> c, start |-> start, units |-> units]
  BY DEF Counting
<1>2. MaxUnits \in Nat /\ q.units = units
  BY <1>1, QuestionsAssumption
<1>3. [q EXCEPT !.units = @ + 1] = [cal |-> c, start |-> start, units |-> q.units + 1]
  BY <1>1
<1> QED
  BY <1>2, <1>3 DEF Counting

Questions == Reading \union UNION {Counting(units) : units \in 0 .. MaxUnits}

AskedIsAQuestion == asked \in Questions

LEMMA AskedInvariant == TimeSpec => []AskedIsAQuestion
<1>1. TimeInit => AskedIsAQuestion
  <2>1. 0 \in 0 .. MaxUnits
    BY QuestionsAssumption
  <2> QED
    BY <2>1 DEF TimeInit, Questions, AskedIsAQuestion
<1>2. AskedIsAQuestion /\ [TimePasses]_asked => AskedIsAQuestion'
  <2> SUFFICES ASSUME asked \in Questions, TimePasses
               PROVE  asked' \in Questions
    BY DEF AskedIsAQuestion, Questions, Reading, Counting
  <2>1. CASE asked \in Reading
    <3>1. ~Asks("cal")
      BY <2>1 DEF Reading, Asks
    <3> QED
      BY <3>1 DEF TimePasses
  <2>2. CASE asked \notin Reading
    <3>1. PICK units \in 0 .. MaxUnits : asked \in Counting(units)
      BY <2>2 DEF Questions
    <3>2. asked.units = units
      BY <3>1 DEF Counting
    <3>3. /\ asked.units + 1 \in 0 .. MaxUnits
          /\ [asked EXCEPT !.units = @ + 1] \in Counting(asked.units + 1)
      BY <3>1, <3>2, QuestionsStay DEF TimePasses
    <3> QED
      BY <3>3 DEF TimePasses, Questions
  <2> QED
    BY <2>1, <2>2
<1> QED
  BY <1>1, <1>2, PTL DEF TimeSpec

\* Whatever hours are sent and whatever time passes on whatever calendar they make, the calendar
\* counts working units (parse_hours, elapsed, add, whole_days).
THEOREM TimeIsCounted == TimeSpec => []BusinessTimeIsCounted
<1>1. AskedIsAQuestion => BusinessTimeIsCounted
  <2> SUFFICES ASSUME asked \in Questions
               PROVE  BusinessTimeIsCounted
    BY DEF AskedIsAQuestion
  <2>1. CASE asked \in Reading
    <3>1. PICK raw \in Hours : asked = [raw |-> raw]
      BY <2>1 DEF Reading
    <3>2. asked.raw = raw /\ ~Asks("cal")
      BY <3>1 DEF Asks
    <3>3. HoursAreRead(raw)
      BY HoursRead, QuestionsAssumption
    <3> QED
      BY <3>2, <3>3 DEF BusinessTimeIsCounted
  <2>2. CASE asked \notin Reading
    <3>1. PICK units \in 0 .. MaxUnits : asked \in Counting(units)
      BY <2>2 DEF Questions
    <3>2. PICK c \in Calendars, start \in Moments :
            asked = [cal |-> c, start |-> start, units |-> units]
      BY <3>1 DEF Counting
    <3>3. asked.cal = c /\ asked.start = start /\ asked.units = units /\ ~Asks("raw")
      BY <3>2 DEF Asks
    <3>4. c \in Calendar /\ start \in Nat /\ units \in Nat /\ start + units \in Int
      BY QuestionsAssumption
    <3>5. /\ ElapsedIsCounted(c, start, start + units) /\ AddIsCounted(c, start, units)
          /\ WholeDaysAreCounted(c, start, start + units)
      BY <3>4, ElapsedCounts, AddCounts, WholeDaysCount
    <3> QED
      BY <3>3, <3>5 DEF BusinessTimeIsCounted
  <2> QED
    BY <2>1, <2>2
<1> QED
  BY <1>1, AskedInvariant, PTL
=============================================================================
