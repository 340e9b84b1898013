-------------------------- MODULE CacheSamplerProofs --------------------------
(***************************************************************************)
(* What the residency map and the sites drawn from it guarantee, for every *)
(* layout of the probed ranges, period and stride of the sweeps, and       *)
(* whatever the loads find.                                                *)
(*                                                                         *)
(* The invariant has three parts.  Scheduled: sweep j is made before image *)
(* j * Every and probes the units of phase j % stride, so that the loads   *)
(* of a unit have distinct images.  Right: the builder's state of a unit,  *)
(* its open period and its closed ones, says of every image what the loads *)
(* it has been told of say by the rule of the header; while a sweep is     *)
(* being observed those are all but the unobserved ones of this image.     *)
(* Indexed: in the written map the entries between the offsets of a unit   *)
(* are its periods.  That the stable sort puts them there follows from     *)
(* what is known of ranks: as many elements are below the k-th as k.       *)
(*                                                                         *)
(* Before it: that the units of a layout share the bytes of its ranges     *)
(* among them, each with at least one and at most UnitBytes.  The sums     *)
(* that says it with are cardinalities of disjoint unions.                 *)
(***************************************************************************)
EXTENDS CacheSampler, FiniteSetTheorems, FunctionTheorems, WellFoundedInduction, TLAPS

-----------------------------------------------------------------------------
(* Arithmetic.                                                             *)

\* Quotient and remainder, and that no others do.
LEMMA Division ==
  ASSUME NEW a \in Nat, NEW s \in Nat \ {0}
  PROVE  /\ a \div s \in Nat /\ a % s \in 0 .. s - 1 /\ a = s * (a \div s) + (a % s)
         /\ \A q \in Nat, r \in 0 .. s - 1 : a = s * q + r => q = a \div s /\ r = a % s
<1>1. a \div s \in Int /\ a % s \in 0 .. s - 1 /\ a = s * (a \div s) + (a % s)
  OBVIOUS
<1>2. a \div s >= 0
  BY <1>1
<1>3. ASSUME NEW q \in Int, NEW r \in 0 .. s - 1, NEW q2 \in Int, NEW r2 \in 0 .. s - 1,
             s * q + r = s * q2 + r2, q < q2
      PROVE  FALSE
  <2>1. s * q + s <= s * q2
    <3>1. q + 1 <= q2
      BY <1>3
    <3>2. s * (q + 1) <= s * q2
      BY <1>3, <3>1
    <3>3. s * (q + 1) = s * q + s
      BY <1>3
    <3> QED BY <3>2, <3>3
  <2>2. s * q \in Int /\ s * q2 \in Int
    OBVIOUS
  <2> QED BY <1>3, <2>1, <2>2
<1>4. ASSUME NEW q \in Nat, NEW r \in 0 .. s - 1, a = s * q + r
      PROVE  q = a \div s /\ r = a % s
  <2> DEFINE q2 == a \div s
             r2 == a % s
  <2>1. s * q + r = s * q2 + r2 /\ q2 \in Int /\ r2 \in 0 .. s - 1
    BY <1>1, <1>4
  <2> HIDE DEF q2, r2
  <2>2. ~(q < q2) /\ ~(q2 < q)
    BY <1>3, <2>1
  <2>3. q = q2
    BY <2>1, <2>2
  <2>4. s * q \in Int
    OBVIOUS
  <2>5. r = r2
    BY <2>1, <2>3, <2>4
  <2> QED BY <2>3, <2>5 DEF q2, r2
<1> QED BY <1>1, <1>2, <1>4

-----------------------------------------------------------------------------
(* Sums over finite sets.                                                  *)

\* A set of numbers has a least one.
LEMMA LeastNumber ==
  ASSUME NEW S \in SUBSET Nat, S # {}
  PROVE  \E n \in S : \A m \in S : n <= m
<1>1. PICK n \in S : \A m \in S : ~(<<m, n>> \in OpToRel(<, Nat))
  BY WFMin, NatLessThanWellFounded, Zenon
<1>2. \A m \in S : ~(m < n)
  BY <1>1 DEF OpToRel
<1> QED BY <1>2

\* The element that a sum takes from a set.
Some(s) == CHOOSE x \in s : TRUE

\* f is the recursion of the sum of w over S.
Summing(S, w, f) ==
  f = [s \in SUBSET S |-> IF s = {} THEN 0 ELSE w[Some(s)] + f[s \ {Some(s)}]]

\* A finite set without the element that is taken is smaller.
LEMMA SomeTaken ==
  ASSUME NEW S, IsFiniteSet(S), NEW s \in SUBSET S
  PROVE  /\ IsFiniteSet(s) /\ Cardinality(s) \in Nat /\ Cardinality(s) <= Cardinality(S)
         /\ s # {} => /\ Some(s) \in s /\ s \ {Some(s)} \in SUBSET S
                      /\ Cardinality(s \ {Some(s)}) = Cardinality(s) - 1
<1>1. IsFiniteSet(s) /\ Cardinality(s) \in Nat /\ Cardinality(s) <= Cardinality(S)
  BY FS_Subset, FS_CardinalityType
<1>2. s # {} => Some(s) \in s
  BY DEF Some
<1> QED BY <1>1, <1>2, FS_RemoveElement

\* There is such a recursion.
LEMMA SumRecursion ==
  ASSUME NEW S, IsFiniteSet(S), NEW w
  PROVE  \E f : Summing(S, w, f)
<1> DEFINE Upto(k) == {s \in SUBSET S : Cardinality(s) <= k}
           Rec(f, k) == f = [s \in Upto(k) |->
                               IF s = {} THEN 0 ELSE w[Some(s)] + f[s \ {Some(s)}]]
           Exists(k) == \E f : Rec(f, k)
           Bad == {k \in Nat : ~Exists(k)}
<1>1. \A k \in Nat : Exists(k)
  <2> SUFFICES ASSUME Bad # {} PROVE FALSE
    OBVIOUS
  <2> HIDE DEF Exists
  <2>1. PICK k \in Bad : \A m \in Bad : k <= m
    BY LeastNumber
  <2>2. k \in Nat
    OBVIOUS
  <2>3. PICK f : k # 0 => Rec(f, k - 1)
    <3>1. CASE k # 0
      <4>1. k - 1 \in Nat /\ ~(k <= k - 1)
        BY <3>1
      <4>2. Exists(k - 1)
        BY <2>1, <4>1
      <4> QED BY <4>2 DEF Exists
    <3> QED BY <3>1
  <2> DEFINE g == [s \in Upto(k) |-> IF s = {} THEN 0 ELSE w[Some(s)] + f[s \ {Some(s)}]]
  <2>4. \A s \in Upto(k) : s # {} => k # 0 /\ s \ {Some(s)} \in Upto(k - 1)
    <3> TAKE s \in Upto(k)
    <3> HAVE s # {}
    <3>1. Cardinality(s) # 0
      BY SomeTaken, FS_EmptySet
    <3> QED BY <3>1, SomeTaken
  <2>5. \A s \in Upto(k - 1) : k # 0 => s \in Upto(k) /\ g[s] = f[s]
    <3> TAKE s \in Upto(k - 1)
    <3> HAVE k # 0
    <3>1. s \in Upto(k)
      <4>1. s \in SUBSET S /\ Cardinality(s) <= k - 1 /\ Cardinality(s) \in Nat
        BY SomeTaken
      <4> QED BY <2>2, <4>1
    <3>2. f[s] = IF s = {} THEN 0 ELSE w[Some(s)] + f[s \ {Some(s)}]
      BY <2>3, Zenon
    <3> QED BY <3>1, <3>2, Zenon
  <2>6. \A s \in Upto(k) :
          (IF s = {} THEN 0 ELSE w[Some(s)] + f[s \ {Some(s)}])
            = (IF s = {} THEN 0 ELSE w[Some(s)] + g[s \ {Some(s)}])
    <3> HIDE DEF g, Upto
    <3> QED BY <2>4, <2>5, Zenon
  <2>7. Rec(g, k)
    BY <2>6, Zenon
  <2>8. Exists(k)
    BY <2>7, Zenon DEF Exists
  <2> QED BY <2>8
<1>2. Cardinality(S) \in Nat /\ Upto(Cardinality(S)) = SUBSET S
  BY SomeTaken
<1>3. PICK f : Rec(f, Cardinality(S))
  BY <1>1, <1>2
<1>4. Summing(S, w, f)
  BY <1>2, <1>3 DEF Summing
<1> QED BY <1>4

\* The elements of the sets W[x], each with its x.
Tagged(S, W) == UNION {{x} \X W[x] : x \in S}

\* The pairs of one x are as many as the elements of its set.
LEMMA TagCounts ==
  ASSUME NEW x, NEW T, IsFiniteSet(T)
  PROVE  IsFiniteSet({x} \X T) /\ Cardinality({x} \X T) = Cardinality(T)
<1> DEFINE f == [y \in T |-> <<x, y>>]
<1>1. f \in Bijection(T, {x} \X T)
  <2>1. \A y \in T : f[y] \in {x} \X T
    OBVIOUS
  <2>2. \A y \in T, z \in T : f[y] = f[z] => y = z
    OBVIOUS
  <2>3. \A p \in {x} \X T : \E y \in T : f[y] = p
    OBVIOUS
  <2> QED BY <2>1, <2>2, <2>3, Fun_IsBij
<1> QED BY <1>1, FS_Bijection DEF ExistsBijection

\* One more set adds its elements.
LEMMA OneMoreTag ==
  ASSUME NEW S, NEW x, x \notin S, NEW W, IsFiniteSet(Tagged(S, W)), IsFiniteSet(W[x])
  PROVE  /\ IsFiniteSet(Tagged(S \cup {x}, W))
         /\ Cardinality(Tagged(S \cup {x}, W)) = Cardinality(Tagged(S, W)) + Cardinality(W[x])
<1> DEFINE A == Tagged(S, W)
           B == {x} \X W[x]
<1>1. Tagged(S \cup {x}, W) = A \cup B
  BY DEF Tagged
<1>2. A \cap B = {}
  BY DEF Tagged
<1>3. IsFiniteSet(A) /\ IsFiniteSet(B) /\ Cardinality(B) = Cardinality(W[x])
  BY TagCounts
<1> HIDE DEF A, B
<1>4. Cardinality(A) \in Nat /\ Cardinality(B) \in Nat
  BY <1>3, FS_CardinalityType
<1>5. /\ IsFiniteSet(A \cup B)
      /\ Cardinality(A \cup B) = Cardinality(A) + Cardinality(B) - Cardinality(A \cap B)
  BY <1>3, FS_Union
<1>6. Cardinality(A \cap B) = 0
  BY <1>2, FS_EmptySet
<1>7. Cardinality(A \cup B) = Cardinality(A) + Cardinality(B)
  BY <1>4, <1>5, <1>6
<1> QED BY <1>1, <1>3, <1>5, <1>7 DEF A

\* A sum of cardinalities is the cardinality of the tagged union.
LEMMA SumCounts ==
  ASSUME NEW S, IsFiniteSet(S), NEW w, NEW W, NEW f, Summing(S, w, f),
         \A x \in S : IsFiniteSet(W[x]) /\ w[x] = Cardinality(W[x])
  PROVE  IsFiniteSet(Tagged(S, W)) /\ Cardinality(Tagged(S, W)) = f[S]
<1> DEFINE Good(s) == IsFiniteSet(Tagged(s, W)) /\ Cardinality(Tagged(s, W)) = f[s]
           sizes == {Cardinality(s) : s \in {t \in SUBSET S : ~Good(t)}}
<1>1. SUFFICES ASSUME ~Good(S) PROVE FALSE
  OBVIOUS
<1> HIDE DEF Good
<1>2. sizes \in SUBSET Nat /\ sizes # {}
  <2>1. \A s \in SUBSET S : Cardinality(s) \in Nat
    BY SomeTaken
  <2>2. S \in {t \in SUBSET S : ~Good(t)}
    BY <1>1
  <2> QED BY <2>1, <2>2
<1>3. PICK n \in sizes : \A m \in sizes : n <= m
  BY <1>2, LeastNumber
<1>4. PICK s \in SUBSET S : ~Good(s) /\ n = Cardinality(s)
  BY <1>3
<1>5. f[s] = IF s = {} THEN 0 ELSE w[Some(s)] + f[s \ {Some(s)}]
  BY Zenon DEF Summing
<1>6. CASE s = {}
  <2>1. Tagged(s, W) = {}
    BY <1>6 DEF Tagged
  <2> QED BY <1>4, <1>5, <1>6, <2>1, FS_EmptySet DEF Good
<1>7. CASE s # {}
  <2> DEFINE x == Some(s)
             r == s \ {x}
  <2>1. x \in s /\ x \in S /\ r \in SUBSET S /\ Cardinality(r) = Cardinality(s) - 1
        /\ Cardinality(s) \in Nat
    BY <1>7, SomeTaken
  <2> HIDE DEF x
  <2>2. Good(r)
    <3>1. ~(Cardinality(s) <= Cardinality(r))
      BY <2>1
    <3> QED BY <1>3, <1>4, <2>1, <3>1
  <2>3. IsFiniteSet(Tagged(r, W)) /\ Cardinality(Tagged(r, W)) = f[r]
    BY <2>2 DEF Good
  <2>4. IsFiniteSet(W[x]) /\ Cardinality(W[x]) = w[x] /\ Cardinality(W[x]) \in Nat
    BY <2>1, FS_CardinalityType
  <2>5. s = r \cup {x} /\ x \notin r
    BY <2>1
  <2>6. /\ IsFiniteSet(Tagged(s, W))
        /\ Cardinality(Tagged(s, W)) = Cardinality(Tagged(r, W)) + Cardinality(W[x])
    <3> HIDE DEF r
    <3> QED BY <2>3, <2>4, <2>5, OneMoreTag
  <2>7. Cardinality(Tagged(r, W)) \in Nat
    BY <2>3, FS_CardinalityType
  <2>9. f[s] = w[x] + f[r]
    BY <1>5, <1>7 DEF x
  <2>10. Good(s)
    BY <2>3, <2>4, <2>6, <2>7, <2>9 DEF Good
  <2> QED BY <1>4, <2>10
<1> QED BY <1>6, <1>7

-----------------------------------------------------------------------------
(* The units of a layout.                                                  *)

\* How many units a range has, and that the first and the last one meet it.
LEMMA RangeUnits ==
  ASSUME NEW range \in ProbeRange
  PROVE  LET a == Align(range.base)
             n == units_overlapping(range)
         IN /\ range.base \in Nat /\ range.bytes \in Nat \ {0} /\ End(range) \in Nat
            /\ range.base < End(range)
            /\ a \in Nat /\ a <= range.base /\ range.base < a + UnitBytes
            /\ n \in Nat /\ n * UnitBytes \in Nat
            /\ End(range) <= a + n * UnitBytes
            /\ a + n * UnitBytes < End(range) + UnitBytes
<1> DEFINE b == range.base
           e == End(range)
           a == Align(b)
           n == units_overlapping(range)
<1>1. b \in Nat /\ range.bytes \in Nat \ {0} /\ UnitBytes \in Nat \ {0}
  BY UnitAssumption DEF ProbeRange
<1>2. e \in Nat /\ b < e
  BY <1>1 DEF End
<1>3. a \in Nat /\ a <= b /\ b < a + UnitBytes
  <2>1. /\ b \div UnitBytes \in Nat /\ b % UnitBytes \in 0 .. UnitBytes - 1
        /\ b = UnitBytes * (b \div UnitBytes) + (b % UnitBytes)
    BY <1>1, Division
  <2>2. a = UnitBytes * (b \div UnitBytes)
    BY <1>1, <2>1 DEF Align
  <2>3. UnitBytes * (b \div UnitBytes) \in Nat
    BY <1>1, <2>1
  <2> HIDE DEF a, b
  <2> QED BY <1>1, <2>1, <2>2, <2>3
<1>4. n \in Nat /\ n * UnitBytes \in Nat /\ e <= a + n * UnitBytes /\ a + n * UnitBytes < e + UnitBytes
  <2> DEFINE d == e - a + UnitBytes - 1
  <2>1. d \in Nat
    BY <1>1, <1>2, <1>3
  <2>2. n = d \div UnitBytes
    BY DEF units_overlapping
  <2> HIDE DEF d, n
  <2>3. /\ n \in Nat /\ d % UnitBytes \in 0 .. UnitBytes - 1
        /\ d = UnitBytes * n + (d % UnitBytes)
    BY <1>1, <2>1, <2>2, Division
  <2>4. UnitBytes * n = n * UnitBytes /\ n * UnitBytes \in Nat
    BY <1>1, <2>3
  <2> HIDE DEF a, e
  <2>5. d = e - a + UnitBytes - 1
    BY DEF d
  <2> QED BY <1>1, <1>2, <1>3, <2>3, <2>4, <2>5
<1> QED BY <1>1, <1>2, <1>3, <1>4

\* The recursion that first_unit sums by.
UnitSums(ranges, S, f) ==
  f = [s \in SUBSET S |->
         IF s = {} THEN 0 ELSE units_overlapping(ranges[Some(s)]) + f[s \ {Some(s)}]]

\* The units of each range, from 0.
UnitsIn(ranges) == [j \in 1 .. Len(ranges) |-> 0 .. (units_overlapping(ranges[j]) - 1)]

\* The first unit of the range behind the n-th has as many before it as the first n
\* ranges have units.
LEMMA FirstUnitCounts ==
  ASSUME NEW ranges \in Seq(ProbeRange), NEW n \in 0 .. Len(ranges)
  PROVE  /\ IsFiniteSet(Tagged(1 .. n, UnitsIn(ranges)))
         /\ first_unit(ranges, n + 1) = Cardinality(Tagged(1 .. n, UnitsIn(ranges)))
<1> DEFINE S == 1 .. n
           w == [j \in S |-> units_overlapping(ranges[j])]
           iter == CHOOSE f : UnitSums(ranges, S, f)
<1>1. \A f : UnitSums(ranges, S, f) <=> Summing(S, w, f)
  <2> TAKE f
  <2>1. \A s \in SUBSET S :
          (IF s = {} THEN 0 ELSE units_overlapping(ranges[Some(s)]) + f[s \ {Some(s)}])
            = (IF s = {} THEN 0 ELSE w[Some(s)] + f[s \ {Some(s)}])
    <3> TAKE s \in SUBSET S
    <3>1. s # {} => Some(s) \in S
      BY DEF Some
    <3> QED BY <3>1, Zenon
  <2> HIDE DEF S, w
  <2> QED BY <2>1, Zenon DEF UnitSums, Summing
<1>2. IsFiniteSet(S)
  BY FS_Interval
<1>3. UnitSums(ranges, S, iter)
  <2>1. \E f : UnitSums(ranges, S, f)
    BY <1>1, <1>2, SumRecursion
  <2> QED BY <2>1, Zenon
<1>4. first_unit(ranges, n + 1) = iter[S]
  <2>1. 1 .. ((n + 1) - 1) = 1 .. n
    OBVIOUS
  <2>2. first_unit(ranges, n + 1) =
          MapThenSumSet(LAMBDA j : units_overlapping(ranges[j]), 1 .. n)
    BY <2>1, Zenon DEF first_unit
  <2> QED BY <2>2, Zenon DEF MapThenSumSet, MapThenFoldSet, UnitSums, Some
<1>5. \A j \in S : IsFiniteSet(UnitsIn(ranges)[j]) /\ w[j] = Cardinality(UnitsIn(ranges)[j])
  <2> TAKE j \in S
  <2>1. j \in 1 .. Len(ranges) /\ ranges[j] \in ProbeRange
    OBVIOUS
  <2>2. units_overlapping(ranges[j]) \in Nat
    BY <2>1, RangeUnits
  <2>3. UnitsIn(ranges)[j] = 0 .. (units_overlapping(ranges[j]) - 1)
    BY <2>1 DEF UnitsIn
  <2>4. w[j] = units_overlapping(ranges[j])
    OBVIOUS
  <2> HIDE DEF w
  <2> DEFINE m == units_overlapping(ranges[j])
  <2> HIDE DEF m
  <2>5. m \in Nat => IsFiniteSet(0 .. (m - 1)) /\ Cardinality(0 .. (m - 1)) = m
    BY FS_Interval
  <2> QED BY <2>2, <2>3, <2>4, <2>5 DEF m
<1>6. Summing(S, w, iter)
  BY <1>1, <1>3
<1> HIDE DEF S, w, iter
<1>7. IsFiniteSet(Tagged(S, UnitsIn(ranges))) /\ Cardinality(Tagged(S, UnitsIn(ranges))) = iter[S]
  BY <1>2, <1>5, <1>6, SumCounts
<1> QED BY <1>4, <1>7 DEF S

\* The units of the ranges follow on one another.
LEMMA FirstUnitSteps ==
  ASSUME NEW ranges \in Seq(ProbeRange)
  PROVE  /\ first_unit(ranges, 1) = 0
         /\ \A n \in 1 .. (Len(ranges) + 1) : first_unit(ranges, n) \in Nat
         /\ \A n \in 1 .. Len(ranges) :
              first_unit(ranges, n + 1) = first_unit(ranges, n) + units_overlapping(ranges[n])
<1> DEFINE U == UnitsIn(ranges)
<1>1. Len(ranges) \in Nat
  OBVIOUS
<1>2. first_unit(ranges, 1) = 0
  <2>1. 0 \in 0 .. Len(ranges) /\ 0 + 1 = 1 /\ 1 .. 0 = {}
    BY <1>1
  <2>2. first_unit(ranges, 0 + 1) = Cardinality(Tagged(1 .. 0, U))
    BY <2>1, FirstUnitCounts
  <2>3. Tagged(1 .. 0, U) = {}
    BY <2>1 DEF Tagged
  <2> QED BY <2>1, <2>2, <2>3, FS_EmptySet
<1>3. ASSUME NEW n \in 1 .. (Len(ranges) + 1) PROVE first_unit(ranges, n) \in Nat
  <2>1. n - 1 \in 0 .. Len(ranges) /\ (n - 1) + 1 = n
    BY <1>1
  <2>2. /\ IsFiniteSet(Tagged(1 .. (n - 1), U))
        /\ first_unit(ranges, n) = Cardinality(Tagged(1 .. (n - 1), U))
    BY <2>1, FirstUnitCounts
  <2> QED BY <2>2, FS_CardinalityType
<1>4. ASSUME NEW n \in 1 .. Len(ranges)
      PROVE  first_unit(ranges, n + 1) = first_unit(ranges, n) + units_overlapping(ranges[n])
  <2> DEFINE m == n - 1
  <2>1. /\ m \in 0 .. Len(ranges) /\ n \in 0 .. Len(ranges) /\ m + 1 = n
        /\ 1 .. n = (1 .. m) \cup {n} /\ n \notin 1 .. m
    BY <1>1
  <2> HIDE DEF m
  <2>2. /\ IsFiniteSet(Tagged(1 .. m, U)) /\ first_unit(ranges, n) = Cardinality(Tagged(1 .. m, U))
        /\ first_unit(ranges, n + 1) = Cardinality(Tagged(1 .. n, U))
    BY <2>1, FirstUnitCounts
  <2>3. ranges[n] \in ProbeRange
    OBVIOUS
  <2>4. units_overlapping(ranges[n]) \in Nat
    BY <2>3, RangeUnits
  <2>5. U[n] = 0 .. (units_overlapping(ranges[n]) - 1)
    BY DEF UnitsIn
  <2> DEFINE k == units_overlapping(ranges[n])
  <2> HIDE DEF k
  <2>6. k \in Nat => IsFiniteSet(0 .. (k - 1)) /\ Cardinality(0 .. (k - 1)) = k
    BY FS_Interval
  <2> HIDE DEF U
  <2>7. IsFiniteSet(U[n]) /\ Cardinality(U[n]) = units_overlapping(ranges[n])
    BY <2>4, <2>5, <2>6 DEF k
  <2> DEFINE S == 1 .. m
  <2>8. 1 .. n = S \cup {n} /\ n \notin S /\ IsFiniteSet(Tagged(S, U))
    BY <2>1, <2>2
  <2> HIDE DEF S
  <2>9. Cardinality(Tagged(S \cup {n}, U)) = Cardinality(Tagged(S, U)) + Cardinality(U[n])
    BY <2>7, <2>8, OneMoreTag
  <2> QED BY <2>2, <2>7, <2>8, <2>9 DEF S
<1> QED BY <1>2, <1>3, <1>4

\* A later range has later units.
LEMMA FirstUnitGrows ==
  ASSUME NEW ranges \in Seq(ProbeRange), NEW i \in 1 .. (Len(ranges) + 1)
  PROVE  \A j \in i .. (Len(ranges) + 1) : first_unit(ranges, i) <= first_unit(ranges, j)
<1> DEFINE Bad == {j \in i .. (Len(ranges) + 1) : ~(first_unit(ranges, i) <= first_unit(ranges, j))}
<1>1. SUFFICES ASSUME Bad # {} PROVE FALSE
  OBVIOUS
<1>2. PICK j \in Bad : \A m \in Bad : j <= m
  <2>1. Bad \in SUBSET Nat
    OBVIOUS
  <2> HIDE DEF Bad
  <2> QED BY <1>1, <2>1, LeastNumber
<1>3. Len(ranges) \in Nat /\ j \in i .. (Len(ranges) + 1) /\ first_unit(ranges, i) \in Nat
  BY FirstUnitSteps
<1>4. CASE j = i
  BY <1>2, <1>3, <1>4
<1>5. CASE j # i
  <2> DEFINE m == j - 1
  <2>1. m \in i .. (Len(ranges) + 1) /\ m \in 1 .. Len(ranges) /\ m + 1 = j /\ ~(j <= m)
    BY <1>3, <1>5
  <2> HIDE DEF m
  <2>2. first_unit(ranges, i) <= first_unit(ranges, m)
    BY <1>2, <2>1
  <2>3. first_unit(ranges, j) = first_unit(ranges, m) + units_overlapping(ranges[m])
    BY <2>1, FirstUnitSteps
  <2>4. units_overlapping(ranges[m]) \in Nat /\ first_unit(ranges, m) \in Nat
    <3>1. ranges[m] \in ProbeRange /\ m \in 1 .. (Len(ranges) + 1)
      BY <1>3, <2>1
    <3> QED BY <3>1, RangeUnits, FirstUnitSteps
  <2> QED BY <1>2, <1>3, <2>2, <2>3, <2>4
<1> QED BY <1>4, <1>5

\* Each unit lies in the range that range_of tells, and in no other.
LEMMA RangeOfIs ==
  ASSUME NEW ranges \in Seq(ProbeRange)
  PROVE  /\ total_units(ranges) \in Nat
         /\ \A u \in UnitIds(ranges) :
              LET i == range_of(ranges, u)
              IN i \in 1 .. Len(ranges) /\ u - first_unit(ranges, i) \in UnitsIn(ranges)[i]
         /\ \A i \in 1 .. Len(ranges) : \A k \in UnitsIn(ranges)[i] :
              LET u == first_unit(ranges, i) + k
              IN u \in UnitIds(ranges) /\ range_of(ranges, u) = i
<1> DEFINE n == Len(ranges)
           Has(i, u) == first_unit(ranges, i) <= u /\ u < first_unit(ranges, i + 1)
<1>1. n \in Nat /\ total_units(ranges) \in Nat /\ total_units(ranges) = first_unit(ranges, n + 1)
  <2>1. n \in Nat /\ n + 1 \in 1 .. (n + 1)
    OBVIOUS
  <2> QED BY <2>1, FirstUnitSteps DEF total_units
<1>2. \A i \in 1 .. n : /\ i \in 1 .. (n + 1) /\ i + 1 \in 1 .. (n + 1)
                        /\ first_unit(ranges, i) \in Nat /\ first_unit(ranges, i + 1) \in Nat
                        /\ units_overlapping(ranges[i]) \in Nat
                        /\ first_unit(ranges, i + 1) = first_unit(ranges, i) + units_overlapping(ranges[i])
                        /\ UnitsIn(ranges)[i] = 0 .. (units_overlapping(ranges[i]) - 1)
  <2> TAKE i \in 1 .. n
  <2>1. i \in 1 .. (n + 1) /\ i + 1 \in 1 .. (n + 1) /\ ranges[i] \in ProbeRange
    BY <1>1
  <2>2. units_overlapping(ranges[i]) \in Nat
    BY <2>1, RangeUnits
  <2> QED BY <2>1, <2>2, FirstUnitSteps DEF UnitsIn
<1>3. ASSUME NEW u \in Int, NEW i \in 1 .. n, NEW j \in 1 .. n, Has(i, u), Has(j, u)
      PROVE  ~(i < j)
  <2> SUFFICES ASSUME i < j PROVE FALSE
    OBVIOUS
  <2>1. j \in (i + 1) .. (n + 1)
    BY <1>1
  <2>2. first_unit(ranges, i + 1) <= first_unit(ranges, j)
    BY <1>2, <2>1, FirstUnitGrows
  <2> QED BY <1>2, <1>3, <2>2, SMTT(30)
<1>4. ASSUME NEW u \in Int, NEW i \in 1 .. n, Has(i, u)
      PROVE  range_of(ranges, u) = i
  <2>1. \A j \in 1 .. n : Has(j, u) => j = i
    BY <1>3, <1>4
  <2> HIDE DEF Has
  <2>2. (CHOOSE j \in 1 .. n : Has(j, u)) = i
    BY <1>4, <2>1
  <2> QED BY <2>2, Zenon DEF range_of, Has
<1>5. ASSUME NEW u \in UnitIds(ranges)
      PROVE  \E i \in 1 .. n : Has(i, u)
  <2>1. u \in Nat /\ u < first_unit(ranges, n + 1)
    BY <1>1 DEF UnitIds
  <2> DEFINE Above == {j \in 1 .. (n + 1) : u < first_unit(ranges, j)}
  <2>2. Above \in SUBSET Nat /\ Above # {}
    <3>1. n + 1 \in Above
      BY <1>1, <2>1
    <3> QED BY <3>1
  <2> HIDE DEF Above
  <2>3. PICK j \in Above : \A m \in Above : j <= m
    BY <2>2, LeastNumber
  <2>4. j \in 1 .. (n + 1) /\ u < first_unit(ranges, j)
    BY DEF Above
  <2>5. j # 1
    BY <2>1, <2>4, FirstUnitSteps
  <2> DEFINE i == j - 1
  <2>6. i \in 1 .. n /\ i + 1 = j /\ i \in 1 .. (n + 1) /\ ~(j <= i)
    BY <1>1, <2>4, <2>5
  <2> HIDE DEF i
  <2>7. ~(u < first_unit(ranges, i))
    BY <2>3, <2>6 DEF Above
  <2> QED BY <1>2, <2>1, <2>4, <2>6, <2>7
<1>6. ASSUME NEW u \in UnitIds(ranges)
      PROVE  LET i == range_of(ranges, u)
             IN i \in 1 .. Len(ranges) /\ u - first_unit(ranges, i) \in UnitsIn(ranges)[i]
  <2>1. PICK i \in 1 .. n : Has(i, u)
    BY <1>5
  <2>2. u \in Int
    BY <1>1 DEF UnitIds
  <2>3. range_of(ranges, u) = i
    BY <1>4, <2>1, <2>2
  <2>4. u - first_unit(ranges, i) \in 0 .. (units_overlapping(ranges[i]) - 1)
    BY <1>2, <2>1, <2>2
  <2> HIDE DEF Has
  <2> QED BY <1>2, <2>3, <2>4
<1>7. ASSUME NEW i \in 1 .. n, NEW k \in UnitsIn(ranges)[i]
      PROVE  LET u == first_unit(ranges, i) + k
             IN u \in UnitIds(ranges) /\ range_of(ranges, u) = i
  <2> DEFINE u == first_unit(ranges, i) + k
  <2>1. k \in Nat /\ k < units_overlapping(ranges[i])
    BY <1>2
  <2>2. u \in Nat /\ Has(i, u)
    BY <1>2, <2>1
  <2>3. first_unit(ranges, i + 1) <= first_unit(ranges, n + 1)
    <3>1. n + 1 \in (i + 1) .. (n + 1)
      BY <1>1
    <3> QED BY <1>2, <3>1, FirstUnitGrows
  <2>4. u < total_units(ranges)
    BY <1>1, <1>2, <2>2, <2>3
  <2> HIDE DEF u
  <2>5. u \in UnitIds(ranges)
    BY <1>1, <2>2, <2>4 DEF UnitIds
  <2>6. range_of(ranges, u) = i
    BY <1>4, <2>2
  <2> QED BY <2>5, <2>6 DEF u
<1> HIDE DEF Has
<1> QED BY <1>1, <1>6, <1>7

\* The addresses of a range, and those of its k-th unit.
RangeBytes(range) == range.base .. (End(range) - 1)

UnitWindow(range, k) ==
  {address \in RangeBytes(range) :
     /\ Align(range.base) + k * UnitBytes <= address
     /\ address < Align(range.base) + k * UnitBytes + UnitBytes}

\* That is the window of the unit.
LEMMA WindowIs ==
  ASSUME NEW ranges \in Seq(ProbeRange), NEW u \in UnitIds(ranges)
  PROVE  LET i == range_of(ranges, u)
         IN Window(ranges, u) = UnitWindow(ranges[i], u - first_unit(ranges, i))
<1> DEFINE i == range_of(ranges, u)
           range == ranges[i]
           k == u - first_unit(ranges, i)
           a == Align(range.base)
<1>1. i \in 1 .. Len(ranges) /\ k \in UnitsIn(ranges)[i]
  BY RangeOfIs
<1>2. range \in ProbeRange
  BY <1>1
<1>3. k \in Nat
  BY <1>1 DEF UnitsIn
<1>4. /\ range.base \in Nat /\ End(range) \in Nat /\ a \in Nat /\ UnitBytes \in Nat
      /\ k * UnitBytes \in Nat /\ (k + 1) * UnitBytes = k * UnitBytes + UnitBytes
  <2> HIDE DEF k, range
  <2>1. range.base \in Nat /\ End(range) \in Nat /\ a \in Nat
    BY <1>2, RangeUnits
  <2> HIDE DEF a
  <2>2. UnitBytes \in Nat /\ k * UnitBytes \in Nat /\ (k + 1) * UnitBytes = k * UnitBytes + UnitBytes
    BY <1>3, UnitAssumption
  <2> QED BY <2>1, <2>2
<1>5. Block(ranges, u) = (a + k * UnitBytes) .. (a + (k + 1) * UnitBytes - 1)
  BY Zenon DEF Block
<1>6. Window(ranges, u) = {address \in Block(ranges, u) : range.base <= address /\ address < End(range)}
  BY Zenon DEF Window
<1>7. UnitWindow(range, k) = {address \in range.base .. (End(range) - 1) :
                                 a + k * UnitBytes <= address /\ address < a + k * UnitBytes + UnitBytes}
  BY Zenon DEF UnitWindow, RangeBytes
<1> DEFINE p == k * UnitBytes
           q == (k + 1) * UnitBytes
           b == range.base
           e == End(range)
<1>8. Window(ranges, u) = {address \in (a + p) .. (a + q - 1) : b <= address /\ address < e}
  BY <1>5, <1>6
<1>9. UnitWindow(range, k) = {address \in b .. (e - 1) : a + p <= address /\ address < a + p + UnitBytes}
  BY <1>7
<1>10. p \in Nat /\ q = p + UnitBytes /\ b \in Nat /\ e \in Nat /\ a \in Nat /\ UnitBytes \in Nat
  BY <1>4
<1> HIDE DEF p, q, b, e, a
<1>11. {address \in (a + p) .. (a + q - 1) : b <= address /\ address < e}
         = {address \in b .. (e - 1) : a + p <= address /\ address < a + p + UnitBytes}
  BY <1>10
<1> QED BY <1>8, <1>9, <1>11

\* A unit has bytes of its own, at most as many as a unit is long.
LEMMA WindowSize ==
  ASSUME NEW range \in ProbeRange, NEW k \in 0 .. (units_overlapping(range) - 1)
  PROVE  /\ IsFiniteSet(UnitWindow(range, k))
         /\ Cardinality(UnitWindow(range, k)) \in 1 .. UnitBytes
<1> DEFINE b == range.base
           e == End(range)
           a == Align(b)
           n == units_overlapping(range)
           p == k * UnitBytes
           W == UnitWindow(range, k)
<1>1. /\ b \in Nat /\ e \in Nat /\ b < e /\ a \in Nat /\ a <= b /\ b < a + UnitBytes
      /\ n \in Nat /\ n * UnitBytes \in Nat /\ a + n * UnitBytes < e + UnitBytes
      /\ UnitBytes \in Nat \ {0}
  BY RangeUnits, UnitAssumption
<1>2. k \in Nat /\ k + 1 <= n
  BY <1>1
<1>3. p \in Nat /\ p + UnitBytes <= n * UnitBytes
  <2>1. p \in Nat /\ (k + 1) * UnitBytes = p + UnitBytes
    BY <1>1, <1>2
  <2>2. (n - (k + 1)) * UnitBytes \in Nat
    BY <1>1, <1>2
  <2>3. n * UnitBytes = (k + 1) * UnitBytes + (n - (k + 1)) * UnitBytes
    BY <1>1, <1>2
  <2> HIDE DEF p, n
  <2> QED BY <1>1, <2>1, <2>2, <2>3
<1>4. W = {x \in b .. (e - 1) : a + p <= x /\ x < a + p + UnitBytes}
  BY Zenon DEF UnitWindow, RangeBytes
<1> DEFINE nU == n * UnitBytes
<1>5. nU \in Nat /\ a + nU < e + UnitBytes /\ p + UnitBytes <= nU
  BY <1>1, <1>3
<1> HIDE DEF b, e, a, p, n, W, nU
<1>6. W # {}
  <2>1. CASE b <= a + p
    <3>1. a + p \in W
      BY <1>1, <1>3, <1>4, <1>5, <2>1
    <3> QED BY <3>1
  <2>2. CASE ~(b <= a + p)
    <3>1. b \in W
      BY <1>1, <1>3, <1>4, <1>5, <2>2
    <3> QED BY <3>1
  <2> QED BY <2>1, <2>2
<1> DEFINE I == (a + p) .. (a + p + UnitBytes - 1)
<1>7. W \subseteq I
  BY <1>1, <1>3, <1>4
<1>8. IsFiniteSet(I) /\ Cardinality(I) = UnitBytes
  <2> DEFINE lo == a + p
  <2>1. lo \in Int /\ I = lo .. (lo + UnitBytes - 1)
    BY <1>1, <1>3
  <2> HIDE DEF lo, I
  <2>2. IsFiniteSet(I) /\ Cardinality(I) = IF lo > lo + UnitBytes - 1 THEN 0
                                           ELSE (lo + UnitBytes - 1) - lo + 1
    BY <1>1, <2>1, FS_Interval
  <2> QED BY <1>1, <2>1, <2>2
<1> HIDE DEF I
<1>9. IsFiniteSet(W) /\ Cardinality(W) <= UnitBytes /\ Cardinality(W) \in Nat
  BY <1>7, <1>8, FS_Subset, FS_CardinalityType
<1>10. Cardinality(W) # 0
  BY <1>6, <1>9, FS_EmptySet
<1>11. Cardinality(W) \in 1 .. UnitBytes
  BY <1>1, <1>9, <1>10
<1> QED BY <1>9, <1>11 DEF W

\* Each byte of a range is in the window of just one of its units.
LEMMA UnitOfByte ==
  ASSUME NEW range \in ProbeRange, NEW x \in RangeBytes(range)
  PROVE  /\ \E k \in 0 .. (units_overlapping(range) - 1) : x \in UnitWindow(range, k)
         /\ \A k \in Nat, m \in Nat : x \in UnitWindow(range, k) /\ x \in UnitWindow(range, m) => k = m
<1> DEFINE b == range.base
           e == End(range)
           a == Align(b)
           n == units_overlapping(range)
           d == x - a
           k == d \div UnitBytes
<1>1. /\ b \in Nat /\ e \in Nat /\ b < e /\ a \in Nat /\ a <= b
      /\ n \in Nat /\ n * UnitBytes \in Nat /\ e <= a + n * UnitBytes
      /\ UnitBytes \in Nat \ {0}
  BY RangeUnits, UnitAssumption
<1>2. x \in Nat /\ b <= x /\ x < e /\ d \in Nat
  BY <1>1 DEF RangeBytes
<1>3. /\ k \in Nat /\ d % UnitBytes \in 0 .. UnitBytes - 1
      /\ d = UnitBytes * k + (d % UnitBytes)
      /\ \A q \in Nat, r \in 0 .. UnitBytes - 1 : d = UnitBytes * q + r => q = k
  <2> HIDE DEF d
  <2>1. d \in Nat /\ UnitBytes \in Nat \ {0}
    BY <1>1, <1>2
  <2>2. /\ d \div UnitBytes \in Nat /\ d % UnitBytes \in 0 .. UnitBytes - 1
        /\ d = UnitBytes * (d \div UnitBytes) + (d % UnitBytes)
        /\ \A q \in Nat, r \in 0 .. UnitBytes - 1 :
             d = UnitBytes * q + r => q = d \div UnitBytes /\ r = d % UnitBytes
    BY <2>1, Division
  <2> QED BY <2>2, Zenon
<1>4. \A m \in Nat : x \in UnitWindow(range, m) <=>
        a + m * UnitBytes <= x /\ x < a + m * UnitBytes + UnitBytes
  BY DEF UnitWindow
<1>5. \A m \in Nat : m * UnitBytes \in Nat /\ UnitBytes * m = m * UnitBytes
  BY <1>1
<1> HIDE DEF k
<1>6. x \in UnitWindow(range, k)
  <2> DEFINE p == k * UnitBytes
             r == d % UnitBytes
  <2>1. p \in Nat /\ d = p + r /\ r \in Nat /\ r < UnitBytes /\ UnitBytes \in Nat
    BY <1>1, <1>3, <1>5
  <2> HIDE DEF p, r, a
  <2>2. a + p <= x /\ x < a + p + UnitBytes
    BY <1>1, <1>2, <2>1
  <2> QED BY <1>3, <1>4, <2>2 DEF p, a
<1>7. k < n
  <2> SUFFICES ASSUME n <= k PROVE FALSE
    BY <1>1, <1>3
  <2>1. (k - n) * UnitBytes \in Nat
    BY <1>1, <1>3
  <2>2. k * UnitBytes = n * UnitBytes + (k - n) * UnitBytes
    BY <1>1, <1>3
  <2>3. a + k * UnitBytes <= x
    BY <1>3, <1>4, <1>6
  <2> DEFINE s == (k - n) * UnitBytes
             nU == n * UnitBytes
             p == k * UnitBytes
  <2>4. s \in Nat /\ p = nU + s /\ a + p <= x /\ nU \in Nat /\ e <= a + nU
    BY <1>1, <2>1, <2>2, <2>3
  <2> HIDE DEF s, nU, p, a, e, n
  <2> QED BY <1>1, <1>2, <2>4
<1>8. ASSUME NEW m \in Nat, x \in UnitWindow(range, m) PROVE m = k
  <2> DEFINE p == m * UnitBytes
             r == d - p
  <2>1. a + p <= x /\ x < a + p + UnitBytes /\ p \in Nat
    BY <1>4, <1>5, <1>8
  <2> HIDE DEF p
  <2>2. r \in 0 .. UnitBytes - 1 /\ d = p + r
    BY <1>1, <1>2, <2>1
  <2>3. d = UnitBytes * m + r
    BY <1>5, <2>2 DEF p
  <2> HIDE DEF r
  <2> QED BY <1>3, <2>2, <2>3
<1>9. k \in 0 .. (n - 1)
  BY <1>1, <1>3, <1>7
<1> QED BY <1>6, <1>8, <1>9

\* The bytes of each unit of a layout, and those of each of its ranges.
UnitBytesOf(ranges) == [u \in UnitIds(ranges) |-> Window(ranges, u)]

RangeBytesOf(ranges) == [i \in 1 .. Len(ranges) |-> RangeBytes(ranges[i])]

\* The recursion that SurfaceCovered sums the windows by, and the one of the bytes.
WindowSums(ranges, S, f) ==
  f = [s \in SUBSET S |->
         IF s = {} THEN 0 ELSE Cardinality(Window(ranges, Some(s))) + f[s \ {Some(s)}]]

ByteSums(ranges, S, f) ==
  f = [s \in SUBSET S |->
         IF s = {} THEN 0 ELSE ranges[Some(s)].bytes + f[s \ {Some(s)}]]

\* The windows of the units have as many bytes as their tagged union.
LEMMA WindowTotal ==
  ASSUME NEW ranges \in Seq(ProbeRange)
  PROVE  /\ \A u \in UnitIds(ranges) : Cardinality(Window(ranges, u)) \in 1 .. UnitBytes
         /\ IsFiniteSet(Tagged(UnitIds(ranges), UnitBytesOf(ranges)))
         /\ MapThenSumSet(LAMBDA u : Cardinality(Window(ranges, u)), UnitIds(ranges))
              = Cardinality(Tagged(UnitIds(ranges), UnitBytesOf(ranges)))
<1> DEFINE S == UnitIds(ranges)
           W == UnitBytesOf(ranges)
           w == [u \in S |-> Cardinality(Window(ranges, u))]
           iter == CHOOSE f : WindowSums(ranges, S, f)
<1>1. \A u \in S : IsFiniteSet(Window(ranges, u)) /\ Cardinality(Window(ranges, u)) \in 1 .. UnitBytes
  <2> TAKE u \in S
  <2> DEFINE i == range_of(ranges, u)
             k == u - first_unit(ranges, i)
  <2>1. i \in 1 .. Len(ranges) /\ k \in UnitsIn(ranges)[i]
    BY RangeOfIs
  <2>2. Window(ranges, u) = UnitWindow(ranges[i], k)
    BY WindowIs
  <2> HIDE DEF i, k
  <2>3. ranges[i] \in ProbeRange /\ k \in 0 .. (units_overlapping(ranges[i]) - 1)
    BY <2>1 DEF UnitsIn
  <2> QED BY <2>2, <2>3, WindowSize
<1>2. \A f : WindowSums(ranges, S, f) <=> Summing(S, w, f)
  <2> TAKE f
  <2>1. \A s \in SUBSET S :
          (IF s = {} THEN 0 ELSE Cardinality(Window(ranges, Some(s))) + f[s \ {Some(s)}])
            = (IF s = {} THEN 0 ELSE w[Some(s)] + f[s \ {Some(s)}])
    <3> TAKE s \in SUBSET S
    <3>1. s # {} => Some(s) \in S
      BY DEF Some
    <3> QED BY <3>1, Zenon
  <2> HIDE DEF S, w
  <2> QED BY <2>1, Zenon DEF WindowSums, Summing
<1>3. IsFiniteSet(S)
  BY RangeOfIs, FS_Interval DEF UnitIds
<1>4. WindowSums(ranges, S, iter)
  <2>1. \E f : WindowSums(ranges, S, f)
    BY <1>2, <1>3, SumRecursion
  <2> QED BY <2>1, Zenon
<1>5. MapThenSumSet(LAMBDA u : Cardinality(Window(ranges, u)), UnitIds(ranges)) = iter[S]
  BY Zenon DEF MapThenSumSet, MapThenFoldSet, WindowSums, Some
<1>6. \A u \in S : IsFiniteSet(W[u]) /\ w[u] = Cardinality(W[u])
  BY <1>1, Zenon DEF UnitBytesOf
<1>7. Summing(S, w, iter)
  BY <1>2, <1>4
<1> HIDE DEF S, w, iter, W
<1>8. IsFiniteSet(Tagged(S, W)) /\ Cardinality(Tagged(S, W)) = iter[S]
  BY <1>3, <1>6, <1>7, SumCounts
<1> QED BY <1>1, <1>5, <1>8 DEF S, W

\* So have the ranges.
LEMMA ByteTotal ==
  ASSUME NEW ranges \in Seq(ProbeRange)
  PROVE  /\ IsFiniteSet(Tagged(1 .. Len(ranges), RangeBytesOf(ranges)))
         /\ MapThenSumSet(LAMBDA i : ranges[i].bytes, 1 .. Len(ranges))
              = Cardinality(Tagged(1 .. Len(ranges), RangeBytesOf(ranges)))
<1> DEFINE S == 1 .. Len(ranges)
           W == RangeBytesOf(ranges)
           w == [i \in S |-> ranges[i].bytes]
           iter == CHOOSE f : ByteSums(ranges, S, f)
<1>1. \A i \in S : IsFiniteSet(RangeBytes(ranges[i])) /\ Cardinality(RangeBytes(ranges[i])) = ranges[i].bytes
  <2> TAKE i \in S
  <2> DEFINE b == ranges[i].base
             m == ranges[i].bytes
  <2>1. b \in Nat /\ m \in Nat \ {0}
    <3>1. ranges[i] \in ProbeRange
      OBVIOUS
    <3> QED BY <3>1 DEF ProbeRange
  <2>2. RangeBytes(ranges[i]) = b .. ((b + m) - 1)
    <3>1. End(ranges[i]) = b + m
      BY DEF End
    <3>2. RangeBytes(ranges[i]) = b .. (End(ranges[i]) - 1)
      BY DEF RangeBytes
    <3> QED BY <3>1, <3>2, Zenon
  <2> HIDE DEF b, m
  <2>3. /\ IsFiniteSet(b .. ((b + m) - 1))
        /\ Cardinality(b .. ((b + m) - 1)) = IF b > (b + m) - 1 THEN 0 ELSE ((b + m) - 1) - b + 1
    BY <2>1, FS_Interval
  <2> QED BY <2>1, <2>2, <2>3 DEF m
<1>2. \A f : ByteSums(ranges, S, f) <=> Summing(S, w, f)
  <2> TAKE f
  <2>1. \A s \in SUBSET S :
          (IF s = {} THEN 0 ELSE ranges[Some(s)].bytes + f[s \ {Some(s)}])
            = (IF s = {} THEN 0 ELSE w[Some(s)] + f[s \ {Some(s)}])
    <3> TAKE s \in SUBSET S
    <3>1. s # {} => Some(s) \in S
      BY DEF Some
    <3> QED BY <3>1, Zenon
  <2> HIDE DEF S, w
  <2> QED BY <2>1, Zenon DEF ByteSums, Summing
<1>3. IsFiniteSet(S)
  BY FS_Interval
<1>4. ByteSums(ranges, S, iter)
  <2>1. \E f : ByteSums(ranges, S, f)
    BY <1>2, <1>3, SumRecursion
  <2> QED BY <2>1, Zenon
<1>5. MapThenSumSet(LAMBDA i : ranges[i].bytes, 1 .. Len(ranges)) = iter[S]
  BY Zenon DEF MapThenSumSet, MapThenFoldSet, ByteSums, Some
<1>6. \A i \in S : IsFiniteSet(W[i]) /\ w[i] = Cardinality(W[i])
  BY <1>1, Zenon DEF RangeBytesOf
<1>7. Summing(S, w, iter)
  BY <1>2, <1>4
<1> HIDE DEF S, w, iter, W
<1>8. IsFiniteSet(Tagged(S, W)) /\ Cardinality(Tagged(S, W)) = iter[S]
  BY <1>3, <1>6, <1>7, SumCounts
<1> QED BY <1>5, <1>8 DEF S, W

\* The pairs of a tagged union.
LEMMA InTagged ==
  ASSUME NEW S, NEW W
  PROVE  \A x, y : <<x, y>> \in Tagged(S, W) <=> x \in S /\ y \in W[x]
  BY DEF Tagged

\* The windows of the units share the bytes of the ranges among them.
LEMMA SurfaceIsShared ==
  ASSUME NEW ranges \in Seq(ProbeRange)
  PROVE  /\ \A u \in UnitIds(ranges) : Cardinality(Window(ranges, u)) \in 1 .. UnitBytes
         /\ MapThenSumSet(LAMBDA u : Cardinality(Window(ranges, u)), UnitIds(ranges))
              = MapThenSumSet(LAMBDA i : ranges[i].bytes, 1 .. Len(ranges))
<1> DEFINE A == Tagged(UnitIds(ranges), UnitBytesOf(ranges))
           B == Tagged(1 .. Len(ranges), RangeBytesOf(ranges))
           move == [p \in A |-> <<range_of(ranges, p[1]), p[2]>>]
           Low(u) == first_unit(ranges, range_of(ranges, u))
<1>1. \A u, x : <<u, x>> \in A <=> u \in UnitIds(ranges) /\ x \in Window(ranges, u)
  BY InTagged, Zenon DEF UnitBytesOf
<1>2. \A i, x : <<i, x>> \in B <=> i \in 1 .. Len(ranges) /\ x \in RangeBytes(ranges[i])
  <2> DEFINE N == 1 .. Len(ranges)
             W == RangeBytesOf(ranges)
  <2>1. \A i \in N : W[i] = RangeBytes(ranges[i])
    BY DEF RangeBytesOf
  <2> HIDE DEF N, W
  <2>2. \A i, x : <<i, x>> \in Tagged(N, W) <=> i \in N /\ x \in W[i]
    BY InTagged
  <2>3. \A i, x : <<i, x>> \in Tagged(N, W) <=> i \in N /\ x \in RangeBytes(ranges[i])
    BY <2>1, <2>2
  <2> QED BY <2>3 DEF N, W
<1>3. /\ \A p \in A : \E u, x : p = <<u, x>>
      /\ \A p \in B : \E i, x : p = <<i, x>>
  BY DEF Tagged
<1>4. \A u \in UnitIds(ranges) :
        /\ u \in Int /\ Low(u) \in Nat
        /\ range_of(ranges, u) \in 1 .. Len(ranges)
        /\ ranges[range_of(ranges, u)] \in ProbeRange
        /\ u - Low(u) \in 0 .. (units_overlapping(ranges[range_of(ranges, u)]) - 1)
        /\ Window(ranges, u) = UnitWindow(ranges[range_of(ranges, u)], u - Low(u))
        /\ Window(ranges, u) \subseteq RangeBytes(ranges[range_of(ranges, u)])
  <2> TAKE u \in UnitIds(ranges)
  <2> DEFINE i == range_of(ranges, u)
  <2>1. i \in 1 .. Len(ranges) /\ u - Low(u) \in UnitsIn(ranges)[i] /\ total_units(ranges) \in Nat
    BY RangeOfIs
  <2>2. Window(ranges, u) = UnitWindow(ranges[i], u - Low(u))
    BY WindowIs
  <2> HIDE DEF i
  <2>3. first_unit(ranges, i) \in Nat /\ ranges[i] \in ProbeRange
    BY <2>1, FirstUnitSteps
  <2>4. u \in Int
    BY <2>1 DEF UnitIds
  <2>5. u - Low(u) \in 0 .. (units_overlapping(ranges[i]) - 1)
    BY <2>1 DEF UnitsIn
  <2>6. UnitWindow(ranges[i], u - Low(u)) \subseteq RangeBytes(ranges[i])
    BY DEF UnitWindow
  <2> QED BY <2>1, <2>2, <2>3, <2>4, <2>5, <2>6 DEF i
<1>5. \A u, x : <<u, x>> \in A => move[<<u, x>>] = <<range_of(ranges, u), x>>
  <2> HIDE DEF A
  <2> QED OBVIOUS
<1> HIDE DEF A, B, move, Low
<1>6. \A p \in A : move[p] \in B
  <2> TAKE p \in A
  <2>1. PICK u, x : p = <<u, x>>
    BY <1>3
  <2>2. u \in UnitIds(ranges) /\ x \in Window(ranges, u)
    BY <1>1, <2>1
  <2>3. move[p] = <<range_of(ranges, u), x>>
    BY <1>5, <2>1
  <2> QED BY <1>2, <1>4, <2>2, <2>3
<1>7. \A p \in A, q \in A : move[p] = move[q] => p = q
  <2> TAKE p \in A, q \in A
  <2>1. PICK u, x : p = <<u, x>>
    BY <1>3
  <2>2. PICK v, y : q = <<v, y>>
    BY <1>3
  <2> HAVE move[p] = move[q]
  <2>3. /\ u \in UnitIds(ranges) /\ x \in Window(ranges, u)
        /\ v \in UnitIds(ranges) /\ y \in Window(ranges, v)
    BY <1>1, <2>1, <2>2
  <2>4. <<range_of(ranges, u), x>> = <<range_of(ranges, v), y>>
    BY <1>5, <2>1, <2>2
  <2>5. range_of(ranges, u) = range_of(ranges, v) /\ x = y /\ Low(u) = Low(v)
    BY <2>4 DEF Low
  <2> DEFINE range == ranges[range_of(ranges, u)]
             k == u - Low(u)
             m == v - Low(v)
  <2>6. /\ range \in ProbeRange /\ x \in RangeBytes(range)
        /\ x \in UnitWindow(range, k) /\ x \in UnitWindow(range, m)
    BY <1>4, <2>3, <2>5
  <2>7. /\ k \in 0 .. (units_overlapping(range) - 1) /\ m \in 0 .. (units_overlapping(range) - 1)
        /\ u \in Int /\ v \in Int /\ Low(u) \in Nat
    BY <1>4, <2>3, <2>5
  <2> HIDE DEF range
  <2>8. k = m
    <3>1. k \in Nat /\ m \in Nat
      <4>1. units_overlapping(range) \in Nat
        BY <2>6, RangeUnits
      <4> HIDE DEF k, m
      <4> QED BY <2>7, <4>1
    <3> HIDE DEF k, m
    <3> QED BY <2>6, <3>1, UnitOfByte
  <2>9. u = v
    BY <2>5, <2>7, <2>8
  <2> QED BY <2>1, <2>2, <2>5, <2>9
<1>8. \A q \in B : \E p \in A : move[p] = q
  <2> TAKE q \in B
  <2>1. PICK i, x : q = <<i, x>>
    BY <1>3
  <2>2. i \in 1 .. Len(ranges) /\ x \in RangeBytes(ranges[i])
    BY <1>2, <2>1
  <2>3. ranges[i] \in ProbeRange /\ first_unit(ranges, i) \in Nat
    BY <2>2, FirstUnitSteps
  <2>4. PICK k \in 0 .. (units_overlapping(ranges[i]) - 1) : x \in UnitWindow(ranges[i], k)
    BY <2>2, <2>3, UnitOfByte
  <2> DEFINE u == first_unit(ranges, i) + k
  <2>5. u \in UnitIds(ranges) /\ range_of(ranges, u) = i
    <3>1. k \in UnitsIn(ranges)[i]
      BY <2>2 DEF UnitsIn
    <3> QED BY <2>2, <3>1, RangeOfIs
  <2>6. k \in Int /\ u - first_unit(ranges, i) = k
    BY <2>3
  <2> HIDE DEF u
  <2>7. x \in Window(ranges, u)
    BY <1>4, <2>4, <2>5, <2>6 DEF Low
  <2>8. <<u, x>> \in A /\ move[<<u, x>>] = q
    BY <1>1, <1>5, <2>1, <2>5, <2>7
  <2> QED BY <2>8
<1>9. move \in Bijection(A, B)
  <2>1. move \in [A -> B]
    BY <1>6 DEF move
  <2> QED BY <1>7, <1>8, <2>1, Fun_IsBij
<1>10. IsFiniteSet(A) /\ IsFiniteSet(B)
  BY WindowTotal, ByteTotal DEF A, B
<1>11. Cardinality(A) = Cardinality(B)
  BY <1>9, <1>10, FS_Bijection DEF ExistsBijection
<1> QED BY <1>11, WindowTotal, ByteTotal, Zenon DEF A, B

\* What the proofs need of the layouts.
LEMMA LayoutsAreNumbered ==
  \A l \in Layouts :
    /\ total_units(l) \in Nat
    /\ \A unit \in UnitIds(l) : range_of(l, unit) \in 1 .. Len(l)
  BY ProbeAssumption, RangeOfIs

-----------------------------------------------------------------------------
(* What the loads say of one unit.                                         *)

\* The rule of residency_map.hpp for the loads L of a unit.
Rule(L, im) ==
  LET before == {x \in L : x.image <= im}
  IN IF before # {}
       THEN \E x \in before : x.hit /\ \A y \in before : y.image <= x.image
       ELSE \E x \in L : x.hit /\ \A y \in L : x.image <= y.image

\* What the builder would say if the pass ended now: cl are the closed periods, o
\* is where the unit's open one starts.
Says(o, cl, u, im) ==
  \/ \E i \in 1 .. Len(cl) : cl[i].unit = u /\ cl[i].start <= im /\ im <= cl[i].end
  \/ o # None /\ o <= im

\* A period does not start at a load that missed.
Started(L, start) == start > 0 => \E x \in L : x.image = start /\ x.hit

\* The last load, at image l, is the state of the unit.
LastTells(L, o, l) ==
  /\ L = {} => l = None
  /\ L # {} => \E x \in L : /\ x.image = l /\ (x.hit <=> o # None)
                            /\ \A y \in L : y.image <= l
  /\ l \in Nat \cup {None}
  /\ o # None => o \in Nat /\ o <= l /\ Started(L, o)

\* A closed period ends before a load that missed, and the next one starts later.
PastTells(L, o, l, cl, u) ==
  /\ \A i \in 1 .. Len(cl) : cl[i].unit = u =>
       /\ cl[i].start \in Nat /\ cl[i].end \in Nat /\ cl[i].start <= cl[i].end
       /\ cl[i].end < l /\ Started(L, cl[i].start)
       /\ \E x \in L : x.image = cl[i].end + 1 /\ ~x.hit
       /\ o # None => cl[i].end + 1 < o
  /\ \A i, j \in 1 .. Len(cl) : i < j /\ cl[i].unit = u /\ cl[j].unit = u =>
       cl[i].end + 1 < cl[j].start

OneLoad(L) == \A x, y \in L : x.image \in Nat /\ (x.image = y.image => x = y)

UnitIsRight(L, o, l, cl, u) ==
  /\ OneLoad(L) /\ LastTells(L, o, l) /\ PastTells(L, o, l, cl, u)
  /\ \A im \in Nat : Says(o, cl, u, im) <=> Rule(L, im)

IsSeq(s) == s \in Seq(ToSet(s))

-----------------------------------------------------------------------------
(* The inductive invariant.                                                *)

Running == pc \in {"construct", "boundary", "observe", "infer"}

Shape ==
  /\ layout \in Layouts /\ passes \in PassChoices /\ stride \in Nat \ {0}
  /\ pc \in {"construct", "boundary", "observe", "infer", "written", "threw"}
  /\ image \in Nat /\ sweeps \in Nat /\ cursor \in Nat /\ pass \in Nat
  /\ image <= Images
  /\ pc \in {"observe", "infer"} => image < Images
  /\ pc = "construct" => image = 0 /\ sweeps = 0 /\ seen = {}
  /\ DOMAIN device = Units /\ DOMAIN latency = Units
  /\ Running => /\ DOMAIN open_start = Units /\ DOMAIN last_seen = Units
                /\ IsSeq(closed) /\ \A i \in 1 .. Len(closed) : closed[i].unit \in Units
  /\ error # "observations of a unit must strictly increase"

Loads ==
  \A x \in seen :
    /\ x.unit \in Units /\ x.image \in Nat /\ x.image < Images
    /\ Running => x.image <= image
    /\ pc = "boundary" => x.image < image
    /\ x.reverse = (Alternate /\ StartParity(x.image) = 1)
    /\ \A y \in seen : x.unit = y.unit /\ x.image = y.image => x = y

\* Sweep j is made before image j * Every, over the units of its phase.
Scheduled ==
  /\ pc \in {"construct", "boundary"} =>
       image <= sweeps * Every /\ sweeps * Every < image + Every
  /\ pc \in {"observe", "infer"} =>
       image < sweeps * Every /\ sweeps * Every <= image + Every
  /\ Running => \A j \in 0 .. sweeps - 1 : \A u \in Units : u % stride = j % stride =>
       \E x \in LoadsOf(u) : x.image = j * Every

\* The loads of the sweep that is being observed, as the host holds them.
Scattered ==
  pc = "observe" =>
    /\ \A u \in Units : u % stride = cursor % stride <=> \E x \in LoadsOf(u) : x.image = image
    /\ \A x \in seen : x.image = image => (latency[x.unit] <=> x.hit)

\* The loads of a unit that the builder knows of.
Told(u) ==
  IF pc = "observe" /\ cursor <= u THEN {x \in LoadsOf(u) : x.image # image} ELSE LoadsOf(u)

Right ==
  Running => \A u \in Units : UnitIsRight(Told(u), open_start[u], last_seen[u], closed, u)

PeriodIsRight(L, t) ==
  /\ t.start \in Nat /\ t.end \in Nat /\ t.start <= t.end /\ t.end < Images
  /\ Started(L, t.start)
  /\ t.end + 1 < Images => \E x \in L : x.image = t.end + 1 /\ ~x.hit

Indexed ==
  pc = "written" =>
    /\ IsSeq(periods)
    /\ offsets[0] = 0 /\ offsets[total_units(layout)] = Len(periods)
    /\ \A u \in Units :
         /\ offsets[u] \in Nat /\ offsets[u + 1] \in Nat
         /\ offsets[u] <= offsets[u + 1] /\ offsets[u + 1] <= Len(periods)
         /\ \A k \in offsets[u] + 1 .. offsets[u + 1] : PeriodIsRight(LoadsOf(u), periods[k])
         /\ \A k, m \in offsets[u] + 1 .. offsets[u + 1] :
              k < m => periods[k].end + 1 < periods[m].start
         /\ \A im \in 0 .. Images - 1 : Resident(u, im) <=> Rule(LoadsOf(u), im)

ResidencyInv == Shape /\ Loads /\ Scheduled /\ Scattered /\ Right /\ Indexed

-----------------------------------------------------------------------------
(* One observation.                                                        *)

\* One element more.
LEMMA AppendIsSeq ==
  ASSUME NEW s, NEW e, IsSeq(s)
  PROVE  /\ IsSeq(Append(s, e)) /\ Len(Append(s, e)) = Len(s) + 1 /\ Len(s) \in Nat
         /\ \A i \in 1 .. Len(s) : Append(s, e)[i] = s[i]
         /\ Append(s, e)[Len(s) + 1] = e
<1>1. s \in Seq(ToSet(s)) /\ DOMAIN s = 1 .. Len(s) /\ Len(s) \in Nat
  BY DEF IsSeq
<1> DEFINE u == Append(s, e)
<1>2. /\ Len(u) = Len(s) + 1 /\ DOMAIN u = 1 .. Len(s) + 1
      /\ \A i \in 1 .. Len(s) : u[i] = s[i]
      /\ u[Len(s) + 1] = e
      /\ u \in Seq(ToSet(s) \cup {e})
  <2>1. s \in Seq(ToSet(s) \cup {e})
    BY <1>1
  <2> QED BY <1>1, <2>1
<1>3. u \in Seq(ToSet(u))
  <2> HIDE DEF u
  <2> QED BY <1>2 DEF ToSet
<1> QED BY <1>1, <1>2, <1>3 DEF IsSeq

\* A later load does not change what is said of earlier images.
LEMMA LaterLoad ==
  ASSUME NEW L, NEW x, NEW im \in Nat, \A y \in L : y.image \in Nat /\ y.image < x.image,
         x.image \in Nat
  PROVE  /\ im >= x.image => (Rule(L \cup {x}, im) <=> x.hit)
         /\ im < x.image /\ L # {} => (Rule(L \cup {x}, im) <=> Rule(L, im))
         /\ L = {} => (Rule(L \cup {x}, im) <=> x.hit)
<1> DEFINE M == L \cup {x}
<1>1. ASSUME im >= x.image PROVE Rule(M, im) <=> x.hit
  <2>1. {y \in M : y.image <= im} = M
    BY <1>1
  <2>2. Rule(M, im) <=> \E z \in M : z.hit /\ \A y \in M : y.image <= z.image
    BY <2>1 DEF Rule
  <2>3. \A z \in M : (\A y \in M : y.image <= z.image) <=> z = x
    OBVIOUS
  <2> HIDE DEF M
  <2>4. x \in M
    BY DEF M
  <2> QED BY <2>2, <2>3, <2>4
<1>2. ASSUME im < x.image, L # {} PROVE Rule(M, im) <=> Rule(L, im)
  <2> DEFINE B == {y \in L : y.image <= im}
  <2>1. {y \in M : y.image <= im} = B
    BY <1>2
  <2>2. Rule(M, im) <=> IF B # {} THEN \E z \in B : z.hit /\ \A y \in B : y.image <= z.image
                                  ELSE \E z \in M : z.hit /\ \A y \in M : z.image <= y.image
    BY <2>1 DEF Rule
  <2>3. Rule(L, im) <=> IF B # {} THEN \E z \in B : z.hit /\ \A y \in B : y.image <= z.image
                                  ELSE \E z \in L : z.hit /\ \A y \in L : z.image <= y.image
    BY DEF Rule
  <2>4. \A z \in M : (\A y \in M : z.image <= y.image) <=>
                       z \in L /\ (\A y \in L : z.image <= y.image)
    BY <1>2
  <2> HIDE DEF B, M
  <2>5. L \subseteq M
    BY DEF M
  <2> QED BY <2>2, <2>3, <2>4, <2>5
<1>3. ASSUME L = {} PROVE Rule(M, im) <=> x.hit
  <2>1. M = {x}
    BY <1>3
  <2> QED BY <2>1 DEF Rule
<1> QED BY <1>1, <1>2, <1>3

\* observe, of a unit whose loads so far are L.
LEMMA ObserveUnit ==
  ASSUME NEW L, NEW o, NEW l, NEW cl, NEW u, IsSeq(cl), UnitIsRight(L, o, l, cl, u),
         NEW x, x.image \in Nat, l < x.image,
         NEW o2, o2 = IF ~x.hit THEN None
                      ELSE IF o = None THEN IF l = None THEN 0 ELSE x.image ELSE o,
         NEW cl2, cl2 = IF x.hit \/ o = None THEN cl
                        ELSE Append(cl, [unit |-> u, start |-> o, end |-> x.image - 1])
  PROVE  UnitIsRight(L \cup {x}, o2, x.image, cl2, u)
<1> DEFINE M == L \cup {x}
           im0 == x.image
<1>1. /\ OneLoad(L) /\ LastTells(L, o, l) /\ PastTells(L, o, l, cl, u)
      /\ \A im \in Nat : Says(o, cl, u, im) <=> Rule(L, im)
  BY DEF UnitIsRight
<1>2. \A y \in L : y.image \in Nat /\ y.image <= l /\ y.image < im0
  BY <1>1 DEF OneLoad, LastTells
<1>3. OneLoad(M)
  BY <1>1, <1>2 DEF OneLoad
<1>4. /\ Len(cl) \in Nat /\ l \in Nat \cup {None} /\ l \in Int
      /\ im0 \in Nat /\ l < im0
  BY <1>1 DEF IsSeq, LastTells, None
<1>5. LastTells(M, o2, im0)
  <2>1. \E y \in M : y.image = im0 /\ (y.hit <=> o2 # None) /\ \A z \in M : z.image <= im0
    <3>1. x \in M /\ \A z \in M : z.image <= im0
      BY <1>2
    <3>2. x.hit <=> o2 # None
      BY <1>1 DEF LastTells, None
    <3> QED BY <3>1, <3>2
  <2>2. o2 # None => o2 \in Nat /\ o2 <= im0 /\ Started(M, o2)
    BY <1>1, <1>4 DEF LastTells, Started, None
  <2> QED BY <2>1, <2>2 DEF LastTells
<1>6. \A i \in 1 .. Len(cl) : cl[i].unit = u =>
        /\ cl[i].start \in Nat /\ cl[i].end \in Nat /\ cl[i].start <= cl[i].end
        /\ cl[i].end < l /\ Started(M, cl[i].start)
        /\ \E y \in M : y.image = cl[i].end + 1 /\ ~y.hit
        /\ o # None => cl[i].end + 1 < o
  BY <1>1 DEF PastTells, Started
<1>7. CASE x.hit \/ o = None
  <2>1. cl2 = cl
    BY <1>7
  <2>2. PastTells(M, o2, im0, cl2, u)
    <3>1. \A i \in 1 .. Len(cl) : cl[i].unit = u /\ o2 # None => cl[i].end + 1 < o2
      <4> SUFFICES ASSUME NEW i \in 1 .. Len(cl), cl[i].unit = u, o2 # None
                   PROVE  cl[i].end + 1 < o2
        OBVIOUS
      <4>1. cl[i].end \in Nat /\ cl[i].end < l /\ l # None
        BY <1>4, <1>6 DEF None
      <4>2. o2 = IF o = None THEN im0 ELSE o
        BY <4>1
      <4> QED BY <1>4, <1>6, <4>1, <4>2
    <3>2. \A i, j \in 1 .. Len(cl) : i < j /\ cl[i].unit = u /\ cl[j].unit = u =>
            cl[i].end + 1 < cl[j].start
      BY <1>1 DEF PastTells
    <3>3. \A i \in 1 .. Len(cl) : cl[i].unit = u => cl[i].end < im0
      BY <1>4, <1>6
    <3> HIDE DEF M, im0
    <3> QED BY <1>6, <2>1, <3>1, <3>2, <3>3 DEF PastTells
  <2>3. ASSUME NEW im \in Nat PROVE Says(o2, cl2, u, im) <=> Rule(M, im)
    <3>1. CASE im >= im0
      <4>1. Rule(M, im) <=> x.hit
        BY <1>2, <3>1, LaterLoad
      <4>2. ~(\E i \in 1 .. Len(cl) : cl[i].unit = u /\ cl[i].start <= im /\ im <= cl[i].end)
        BY <1>4, <1>6, <3>1
      <4>3. o2 # None /\ o2 <= im <=> x.hit
        BY <1>5, <3>1 DEF LastTells, None
      <4> QED BY <2>1, <4>1, <4>2, <4>3 DEF Says
    <3>2. CASE im < im0 /\ L # {}
      <4>1. Rule(M, im) <=> Says(o, cl, u, im)
        BY <1>1, <1>2, <3>2, LaterLoad
      <4>2. o2 # None /\ o2 <= im <=> o # None /\ o <= im
        <5>1. l \in Nat /\ l # None
          BY <1>1, <3>2 DEF LastTells, OneLoad, None
        <5>2. CASE o = None
          BY <1>4, <3>2, <5>1, <5>2
        <5>3. CASE o # None
          BY <1>7, <5>3
        <5> QED BY <5>2, <5>3
      <4> QED BY <2>1, <4>1, <4>2 DEF Says
    <3>3. CASE im < im0 /\ L = {}
      <4>1. l = None /\ o = None
        BY <1>1, <3>3 DEF LastTells, None
      <4>2. Rule(M, im) <=> x.hit
        BY <1>2, <3>3, LaterLoad
      <4>3. o2 # None /\ o2 <= im <=> x.hit
        BY <4>1 DEF None
      <4>4. ~(\E i \in 1 .. Len(cl) : cl[i].unit = u /\ cl[i].start <= im /\ im <= cl[i].end)
        BY <1>6, <4>1 DEF None
      <4> QED BY <2>1, <4>2, <4>3, <4>4 DEF Says
    <3> QED BY <3>1, <3>2, <3>3
  <2> QED BY <1>3, <1>5, <2>2, <2>3 DEF UnitIsRight
<1>8. CASE ~x.hit /\ o # None
  <2> DEFINE n == Len(cl)
             e == [unit |-> u, start |-> o, end |-> im0 - 1]
  <2>1. /\ Len(cl2) = n + 1 /\ \A i \in 1 .. n : cl2[i] = cl[i]
        /\ cl2[n + 1] = e /\ n \in Nat
    BY <1>8, AppendIsSeq
  <2>2. o2 = None /\ o \in Nat /\ o <= l /\ Started(L, o) /\ l \in Nat /\ im0 \in Nat /\ l < im0
    BY <1>1, <1>4, <1>8 DEF LastTells, None
  <2>3. e.unit = u /\ e.start = o /\ e.end = im0 - 1
    OBVIOUS
  <2> HIDE DEF e, n
  <2>4. \A i \in 1 .. n + 1 : i \in 1 .. n \/ i = n + 1
    BY <2>1
  <2>5. PastTells(M, o2, im0, cl2, u)
    <3>1. /\ e.start \in Nat /\ e.end \in Nat /\ e.start <= e.end /\ e.end < im0
          /\ Started(M, e.start)
          /\ \E y \in M : y.image = e.end + 1 /\ ~y.hit
      <4>1. e.start \in Nat /\ e.end \in Nat /\ e.start <= e.end /\ e.end < im0 /\ e.end + 1 = im0
        BY <2>2, <2>3
      <4>2. x \in M /\ x.image = e.end + 1 /\ ~x.hit
        BY <1>8, <4>1
      <4>3. Started(M, e.start)
        BY <2>2, <2>3 DEF Started
      <4> QED BY <4>1, <4>2, <4>3
    <3>2. \A i \in 1 .. n : cl[i].unit = u => cl[i].end < im0 /\ cl[i].end + 1 < e.start
      BY <1>6, <1>8, <2>2, <2>3 DEF n
    <3>3. \A i, j \in 1 .. n : i < j /\ cl[i].unit = u /\ cl[j].unit = u =>
            cl[i].end + 1 < cl[j].start
      BY <1>1 DEF PastTells, n
    <3>4. \A i \in 1 .. n : cl[i].unit = u =>
            /\ cl[i].start \in Nat /\ cl[i].end \in Nat /\ cl[i].start <= cl[i].end
            /\ Started(M, cl[i].start)
            /\ \E y \in M : y.image = cl[i].end + 1 /\ ~y.hit
      BY <1>6 DEF n
    <3> HIDE DEF M, im0
    <3>5. \A i \in 1 .. n + 1 : cl2[i].unit = u =>
            /\ cl2[i].start \in Nat /\ cl2[i].end \in Nat /\ cl2[i].start <= cl2[i].end
            /\ cl2[i].end < im0 /\ Started(M, cl2[i].start)
            /\ \E y \in M : y.image = cl2[i].end + 1 /\ ~y.hit
      <4> TAKE i \in 1 .. n + 1
      <4>1. CASE i \in 1 .. n
        BY <2>1, <3>2, <3>4, <4>1
      <4>2. CASE i = n + 1
        BY <2>1, <3>1, <4>2
      <4> QED BY <2>4, <4>1, <4>2
    <3>6. \A i, j \in 1 .. n + 1 : i < j /\ cl2[i].unit = u /\ cl2[j].unit = u =>
            cl2[i].end + 1 < cl2[j].start
      BY <2>1, <2>4, <3>2, <3>3
    <3> QED BY <2>1, <2>2, <3>5, <3>6 DEF PastTells
  <2>6. ASSUME NEW im \in Nat PROVE Says(o2, cl2, u, im) <=> Rule(M, im)
    <3>1. Says(o2, cl2, u, im) <=>
            \/ \E i \in 1 .. n : cl[i].unit = u /\ cl[i].start <= im /\ im <= cl[i].end
            \/ o <= im /\ im <= im0 - 1
      BY SMTT(40), <2>1, <2>2, <2>3, <2>4 DEF Says
    <3>2. CASE im >= im0
      <4>1. ~Rule(M, im)
        BY <1>2, <1>8, <3>2, LaterLoad
      <4>2. ~(\E i \in 1 .. n : cl[i].unit = u /\ cl[i].start <= im /\ im <= cl[i].end)
        BY <1>4, <1>6, <3>2 DEF n
      <4> QED BY <2>2, <3>1, <3>2, <4>1, <4>2
    <3>3. CASE im < im0
      <4>1. L # {}
        BY <1>1, <2>2 DEF LastTells, None
      <4>2. Rule(M, im) <=> Says(o, cl, u, im)
        BY <1>1, <1>2, <3>3, <4>1, LaterLoad
      <4>3. im <= im0 - 1
        BY <2>2, <3>3
      <4> QED BY <1>8, <3>1, <4>2, <4>3 DEF Says, n
    <3> QED BY <2>2, <3>2, <3>3
  <2> QED BY <1>3, <1>5, <2>5, <2>6 DEF UnitIsRight
<1> QED BY <1>7, <1>8

\* observe of another unit.
LEMMA ObserveOther ==
  ASSUME NEW L, NEW o, NEW l, NEW cl, NEW u, IsSeq(cl), UnitIsRight(L, o, l, cl, u),
         NEW e, e.unit # u
  PROVE  UnitIsRight(L, o, l, Append(cl, e), u)
<1> DEFINE n == Len(cl)
           c == Append(cl, e)
<1>1. Len(c) = n + 1 /\ n \in Nat /\ c[n + 1] = e /\ \A i \in 1 .. n : c[i] = cl[i]
  BY AppendIsSeq
<1> HIDE DEF c
<1>2. \A i \in 1 .. n + 1 : c[i].unit = u => i \in 1 .. n
  BY <1>1
<1>3. PastTells(L, o, l, c, u)
  BY <1>1, <1>2 DEF UnitIsRight, PastTells
<1>4. \A im : Says(o, c, u, im) <=> Says(o, cl, u, im)
  BY <1>1, <1>2 DEF Says
<1> QED BY <1>3, <1>4 DEF UnitIsRight, c

-----------------------------------------------------------------------------
(* Sorting: InOrder lists a set by how many of it are below.               *)

\* below[x] are the elements up to x, itself included.
IsOrder(S, below) ==
  /\ IsFiniteSet(S)
  /\ \A x \in S : x \in below[x] /\ below[x] \subseteq S
  /\ \A x, y \in S : /\ x \in below[y] \/ y \in below[x]
                     /\ x \in below[y] => below[x] \subseteq below[y]
                     /\ x \in below[y] /\ y \in below[x] => x = y

Ranks(S, below) == [x \in S |-> Cardinality(below[x])]

\* The number of elements below tells which of two is the lower one.
LEMMA RankTells ==
  ASSUME NEW S, NEW below, IsOrder(S, below)
  PROVE  /\ \A x \in S : Cardinality(below[x]) \in 1 .. Cardinality(S)
         /\ \A x, y \in S : Cardinality(below[x]) <= Cardinality(below[y]) <=> x \in below[y]
<1>1. \A x \in S : /\ IsFiniteSet(below[x]) /\ Cardinality(below[x]) \in Nat
                   /\ Cardinality(below[x]) <= Cardinality(S)
  BY FS_Subset, FS_CardinalityType DEF IsOrder
<1>2. \A x \in S : Cardinality(below[x]) # 0
  BY <1>1, FS_EmptySet DEF IsOrder
<1>3. Cardinality(S) \in Nat
  BY FS_CardinalityType DEF IsOrder
<1>4. \A x, y \in S : x \in below[y] => Cardinality(below[x]) <= Cardinality(below[y])
  BY <1>1, FS_Subset DEF IsOrder
<1>5. ASSUME NEW x \in S, NEW y \in S, x \in below[y], y \notin below[x]
      PROVE  Cardinality(below[x]) < Cardinality(below[y])
  <2>1. below[x] \subseteq below[y] /\ below[x] # below[y]
    BY <1>5 DEF IsOrder
  <2>2. Cardinality(below[x]) # Cardinality(below[y])
    BY <1>1, <2>1, FS_Subset
  <2> QED BY <1>1, <1>4, <1>5, <2>2
<1>6. ASSUME NEW x \in S, NEW y \in S
      PROVE  Cardinality(below[x]) <= Cardinality(below[y]) <=> x \in below[y]
  <2>1. CASE x \in below[y]
    BY <1>4, <2>1
  <2>2. CASE x \notin below[y]
    <3>1. y \in below[x]
      BY <2>2 DEF IsOrder
    <3> QED BY <1>1, <1>5, <2>2, <3>1
  <2> QED BY <2>1, <2>2
<1>7. \A x \in S : Cardinality(below[x]) \in 1 .. Cardinality(S)
  BY <1>1, <1>2, <1>3
<1> QED BY <1>6, <1>7

\* InOrder lists the set, each element once, the lower ones first.
LEMMA InOrderLists ==
  ASSUME NEW S, NEW below, IsOrder(S, below),
         NEW f, f = InOrder(Ranks(S, below))
  PROVE  /\ Cardinality(S) \in Nat
         /\ DOMAIN f = 1 .. Cardinality(S)
         /\ f \in [1 .. Cardinality(S) -> S]
         /\ \A k \in DOMAIN f : f[k] \in S /\ Cardinality(below[f[k]]) = k
         /\ \A x \in S : \E k \in DOMAIN f : f[k] = x
         /\ \A k, m \in DOMAIN f : k <= m <=> f[k] \in below[f[m]]
<1> DEFINE rank == Ranks(S, below)
           n == Cardinality(S)
<1>1. IsFiniteSet(S) /\ n \in Nat
  BY FS_CardinalityType DEF IsOrder
<1>2. rank \in [S -> 1 .. n] /\ DOMAIN rank = S
  BY RankTells DEF Ranks
<1>3. \A x, y \in S : rank[x] = rank[y] => x = y
  <2>1. \A x \in S : rank[x] = Cardinality(below[x]) /\ rank[x] \in Nat
    BY <1>2 DEF Ranks
  <2>2. \A x, y \in S : rank[x] = rank[y] => x \in below[y] /\ y \in below[x]
    BY <2>1, RankTells
  <2> QED BY <2>2 DEF IsOrder
<1>4. rank \in Injection(S, 1 .. n)
  BY <1>2, <1>3 DEF Injection, IsInjective
<1>5. IsFiniteSet(1 .. n) /\ Cardinality(1 .. n) = n
  BY <1>1, FS_Interval
<1>6. rank \in Surjection(S, 1 .. n)
  BY <1>1, <1>4, <1>5, FS_Injection
<1>7. \A k \in 1 .. n : \E x \in S : rank[x] = k
  BY <1>6 DEF Surjection
<1>8. f = [k \in 1 .. n |-> CHOOSE x \in S : rank[x] = k]
  BY <1>2 DEF InOrder
<1> HIDE DEF rank
<1>9. \A k \in 1 .. n : f[k] \in S /\ rank[f[k]] = k
  BY <1>7, <1>8
<1>10. DOMAIN f = 1 .. n
  BY <1>8
<1>11. \A x \in S : rank[x] \in 1 .. n /\ f[rank[x]] = x
  BY <1>2, <1>3, <1>9
<1>12. \A x \in S : rank[x] = Cardinality(below[x])
  BY DEF rank, Ranks
<1>13. f \in [1 .. n -> S]
  BY <1>8, <1>9
<1>14. \A k, m \in DOMAIN f : k <= m <=> f[k] \in below[f[m]]
  BY <1>9, <1>10, <1>12, RankTells
<1> QED BY <1>1, <1>9, <1>10, <1>11, <1>12, <1>13, <1>14

\* p lists the periods of tagged, and off where those of each unit are: in the order
\* in which they were closed, between the unit's two offsets.
IsIndex(tagged, p, off) ==
  /\ IsSeq(p) /\ Len(p) = Len(tagged) /\ Len(p) \in Nat
  /\ off[0] = 0 /\ off[total_units(layout)] = Len(p)
  /\ \A u \in 0 .. total_units(layout) : off[u] \in Nat /\ off[u] <= Len(p)
  /\ \A u \in Units : off[u] <= off[u + 1]
  /\ \A i \in 1 .. Len(tagged) : \E k \in 1 .. Len(p) : p[k] = tagged[i]
  /\ \A k \in 1 .. Len(p) : \E i \in 1 .. Len(tagged) : p[k] = tagged[i]
  /\ \A u \in Units : \A k \in 1 .. Len(p) :
       k \in off[u] + 1 .. off[u + 1] <=> p[k].unit = u
  /\ \A k, m \in 1 .. Len(p) : k < m /\ p[k].unit = p[m].unit =>
       \E i, j \in 1 .. Len(tagged) : i < j /\ p[k] = tagged[i] /\ p[m] = tagged[j]

\* The stable sort and its offsets.
LEMMA ByUnitIndexes ==
  ASSUME total_units(layout) \in Nat,
         NEW tagged, IsSeq(tagged), \A i \in 1 .. Len(tagged) : tagged[i].unit \in Units
  PROVE  IsIndex(tagged, ByUnit(tagged), Offsets(tagged))
<1> DEFINE n == Len(tagged)
           S == 1 .. n
           N == total_units(layout)
           Upto(j, i) == \/ tagged[j].unit < tagged[i].unit
                         \/ tagged[j].unit = tagged[i].unit /\ j <= i
           below == [i \in S |-> {j \in S : Upto(j, i)}]
           Lower(u) == {i \in S : tagged[i].unit < u}
           f == InOrder(Ranks(S, below))
           p == ByUnit(tagged)
           off == Offsets(tagged)
<1>1. n \in Nat /\ DOMAIN tagged = S /\ tagged \in Seq(ToSet(tagged))
  BY DEF IsSeq
<1>2. IsFiniteSet(S) /\ Cardinality(S) = n
  <2>1. n \in Nat
    BY <1>1
  <2> HIDE DEF n
  <2> QED BY <2>1, FS_Interval
<1>3. \A i \in S : tagged[i].unit \in Nat /\ tagged[i].unit < N
  BY DEF Units, UnitIds
<1>4. IsOrder(S, below)
  <2>1. \A i \in S : i \in below[i] /\ below[i] \subseteq S
    BY <1>1, <1>3
  <2>2. \A i, j \in S : i \in below[j] <=> Upto(i, j)
    OBVIOUS
  <2>3. \A i, j, k \in S : i \in below[j] /\ j \in below[k] => i \in below[k]
    <3> HIDE DEF below
    <3> QED BY SMTT(40), <1>1, <1>3, <2>2
  <2>4. \A i, j \in S : /\ i \in below[j] \/ j \in below[i]
                        /\ i \in below[j] /\ j \in below[i] => i = j
    <3> HIDE DEF below
    <3> QED BY <1>1, <1>3, <2>2
  <2> HIDE DEF below
  <2> QED BY <1>2, <2>1, <2>3, <2>4 DEF IsOrder
<1>5. /\ DOMAIN f = S /\ f \in [S -> S]
      /\ \A k \in S : f[k] \in S /\ Cardinality(below[f[k]]) = k
      /\ \A i \in S : \E k \in S : f[k] = i
      /\ \A k, m \in S : k <= m <=> f[k] \in below[f[m]]
  <2> HIDE DEF below, f
  <2>1. f = InOrder(Ranks(S, below))
    BY DEF f
  <2>2. /\ DOMAIN f = 1 .. Cardinality(S)
        /\ f \in [1 .. Cardinality(S) -> S]
        /\ \A k \in DOMAIN f : f[k] \in S /\ Cardinality(below[f[k]]) = k
        /\ \A x \in S : \E k \in DOMAIN f : f[k] = x
        /\ \A k, m \in DOMAIN f : k <= m <=> f[k] \in below[f[m]]
    <3> HIDE DEF S
    <3> QED BY <1>4, <2>1, InOrderLists
  <2>3. 1 .. Cardinality(S) = S
    BY <1>2
  <2> HIDE DEF S
  <2> QED BY <2>2, <2>3
<1>6. p = [k \in S |-> tagged[f[k]]]
  <2>1. Ranks(S, below) = [i \in S |-> Cardinality({j \in S :
                             \/ tagged[j].unit < tagged[i].unit
                             \/ tagged[j].unit = tagged[i].unit /\ j <= i})]
    BY DEF Ranks
  <2> HIDE DEF below
  <2> QED BY <1>1, <2>1 DEF ByUnit, p
<1>7. off = [u \in 0 .. N |-> Cardinality(Lower(u))]
  BY DEF Offsets
<1>8. \A i, j \in S : i \in below[j] <=> Upto(i, j)
  OBVIOUS
<1>9. \A u : Lower(u) \subseteq S /\ \A i \in S : i \in Lower(u) <=> tagged[i].unit < u
  OBVIOUS
<1>10. \A j \in S : below[j] \subseteq S
  OBVIOUS
<1> HIDE DEF below, Lower, f, p, off
<1>11. /\ IsSeq(p) /\ Len(p) = n /\ DOMAIN p = S
  <2>1. p \in [1 .. n -> ToSet(p)]
    BY <1>1, <1>5, <1>6 DEF ToSet
  <2>2. p \in Seq(ToSet(p))
    BY <1>1, <2>1
  <2> QED BY <1>1, <2>1, <2>2 DEF IsSeq
<1>12. \A u \in 0 .. N : /\ off[u] = Cardinality(Lower(u)) /\ off[u] \in Nat /\ off[u] <= n
                         /\ IsFiniteSet(Lower(u))
  BY <1>2, <1>7, <1>9, FS_Subset, FS_CardinalityType
<1>13. off[0] = 0
  <2>1. Lower(0) = {}
    BY <1>3, <1>9
  <2> QED BY <1>12, <2>1, FS_EmptySet
<1>14. off[N] = n
  <2>1. Lower(N) = S
    BY <1>3, <1>9
  <2> QED BY <1>2, <1>12, <2>1
<1>15. \A u \in Units : u \in 0 .. N /\ u + 1 \in 0 .. N /\ u \in Nat
  BY DEF Units, UnitIds
<1>16. \A u \in Units : off[u] <= off[u + 1]
  <2> SUFFICES ASSUME NEW u \in Units PROVE off[u] <= off[u + 1]
    OBVIOUS
  <2>1. Lower(u) \subseteq Lower(u + 1)
    BY <1>3, <1>9, <1>15
  <2> QED BY <1>12, <1>15, <2>1, FS_Subset
<1>17. ASSUME NEW u \in 0 .. N, NEW k \in S
       PROVE  k <= off[u] <=> tagged[f[k]].unit < u
  <2>1. f[k] \in S /\ Cardinality(below[f[k]]) = k
    BY <1>5
  <2>2. CASE tagged[f[k]].unit < u
    <3>1. ASSUME NEW i \in below[f[k]] PROVE i \in Lower(u)
      <4>1. i \in S /\ Upto(i, f[k])
        BY <1>8, <1>10, <2>1
      <4>2. tagged[i].unit < u
        BY <1>3, <2>1, <2>2, <4>1
      <4> QED BY <1>9, <4>1, <4>2
    <3>2. below[f[k]] \subseteq Lower(u)
      BY <3>1
    <3> QED BY <1>12, <2>1, <2>2, <3>2, FS_Subset
  <2>3. CASE ~(tagged[f[k]].unit < u)
    <3>1. Lower(u) \subseteq below[f[k]] /\ Lower(u) # below[f[k]]
      <4>1. Lower(u) \subseteq below[f[k]]
        BY <1>3, <1>8, <1>9, <2>1, <2>3, SMTT(30)
      <4>2. f[k] \in below[f[k]] /\ f[k] \notin Lower(u)
        BY <1>3, <1>8, <1>9, <2>1, <2>3
      <4> QED BY <4>1, <4>2
    <3>2. IsFiniteSet(below[f[k]])
      BY <1>2, <1>10, <2>1, FS_Subset
    <3>3. Cardinality(Lower(u)) <= k /\ Cardinality(Lower(u)) # k
      BY <2>1, <3>1, <3>2, FS_Subset
    <3> QED BY <1>12, <2>3, <3>3
  <2> QED BY <2>2, <2>3
<1>18. \A u \in Units : \A k \in S : k \in off[u] + 1 .. off[u + 1] <=> p[k].unit = u
  <2> SUFFICES ASSUME NEW u \in Units, NEW k \in S
               PROVE  k \in off[u] + 1 .. off[u + 1] <=> p[k].unit = u
    OBVIOUS
  <2>1. k \in off[u] + 1 .. off[u + 1] <=> k <= off[u + 1] /\ ~(k <= off[u])
    BY <1>12, <1>15
  <2>2. p[k] = tagged[f[k]] /\ f[k] \in S
    BY <1>5, <1>6
  <2>3. (k <= off[u] <=> p[k].unit < u) /\ (k <= off[u + 1] <=> p[k].unit < u + 1)
    BY <1>15, <1>17, <2>2
  <2> QED BY <1>3, <1>15, <2>1, <2>2, <2>3
<1>19. \A k, m \in S : k < m /\ p[k].unit = p[m].unit =>
         \E i, j \in S : i < j /\ p[k] = tagged[i] /\ p[m] = tagged[j]
  <2> SUFFICES ASSUME NEW k \in S, NEW m \in S, k < m, p[k].unit = p[m].unit
               PROVE  \E i, j \in S : i < j /\ p[k] = tagged[i] /\ p[m] = tagged[j]
    OBVIOUS
  <2>1. f[k] \in S /\ f[m] \in S /\ p[k] = tagged[f[k]] /\ p[m] = tagged[f[m]]
    BY <1>5, <1>6
  <2>2. f[k] \in below[f[m]] /\ f[m] \notin below[f[k]]
    <3>1. \A a, b \in S : a <= b <=> f[a] \in below[f[b]]
      BY <1>5
    <3>2. k <= m /\ ~(m <= k)
      BY <1>1
    <3> HIDE DEF S
    <3> QED BY <3>1, <3>2
  <2>3. f[k] < f[m]
    BY <1>1, <1>3, <1>8, <2>1, <2>2
  <2> QED BY <2>1, <2>3
<1>20. /\ \A i \in S : \E k \in S : p[k] = tagged[i]
       /\ \A k \in S : \E i \in S : p[k] = tagged[i]
  <2>1. /\ \A k \in S : p[k] = tagged[f[k]] /\ f[k] \in S
        /\ \A i \in S : \E k \in S : f[k] = i
    BY <1>5, <1>6
  <2> HIDE DEF S
  <2> QED BY <2>1
<1> QED BY <1>1, <1>11, <1>12, <1>13, <1>14, <1>16, <1>18, <1>19, <1>20 DEF p, off, IsIndex

\* Concatenation, of two sequences.
LEMMA ConcatIsSeq ==
  ASSUME NEW s, NEW t, IsSeq(s), IsSeq(t)
  PROVE  /\ IsSeq(s \o t) /\ Len(s \o t) = Len(s) + Len(t) /\ Len(s) \in Nat /\ Len(t) \in Nat
         /\ \A i \in 1 .. Len(s) : (s \o t)[i] = s[i]
         /\ \A i \in 1 .. Len(t) : (s \o t)[Len(s) + i] = t[i]
<1> DEFINE T == ToSet(s) \cup ToSet(t)
           u == s \o t
<1>1. s \in Seq(T) /\ t \in Seq(T) /\ Len(s) \in Nat /\ Len(t) \in Nat
  BY DEF IsSeq
<1> HIDE DEF T
<1>2. /\ u \in Seq(T) /\ Len(u) = Len(s) + Len(t)
      /\ \A i \in 1 .. Len(s) : u[i] = s[i]
      /\ \A i \in 1 .. Len(t) : u[Len(s) + i] = t[i]
  BY <1>1
<1> HIDE DEF u
<1>3. u \in Seq(ToSet(u))
  BY <1>2 DEF ToSet
<1> QED BY <1>1, <1>2, <1>3 DEF IsSeq, u

\* The period of a unit that is resident to the end.
ToTheEnd(u) == [unit |-> u, start |-> open_start[u], end |-> Images - 1]

\* finish adds one period for each unit that is still open.
LEMMA AllClosedAdds ==
  ASSUME total_units(layout) \in Nat, IsSeq(closed), NEW t, t = AllClosed
  PROVE  /\ IsSeq(t) /\ Len(closed) \in Nat /\ Len(t) \in Nat /\ Len(closed) <= Len(t)
         /\ \A i \in 1 .. Len(closed) : t[i] = closed[i]
         /\ \A i \in Len(closed) + 1 .. Len(t) : \E u \in OpenUnits : t[i] = ToTheEnd(u)
         /\ \A u \in OpenUnits : \E i \in Len(closed) + 1 .. Len(t) : t[i] = ToTheEnd(u)
         /\ \A i, j \in Len(closed) + 1 .. Len(t) : t[i].unit = t[j].unit => i = j
<1> DEFINE S == OpenUnits
           below == [u \in S |-> {v \in S : v <= u}]
           order == InOrder(Ranks(S, below))
           n == Cardinality(S)
           q == [k \in 1 .. n |-> ToTheEnd(order[k])]
           c == Len(closed)
<1>1. \A u \in S : u \in Nat
  BY DEF OpenUnits, Units, UnitIds
<1>2. IsFiniteSet(S)
  <2>1. IsFiniteSet(Units)
    BY FS_Interval DEF Units, UnitIds
  <2>2. S \in SUBSET Units
    BY DEF OpenUnits
  <2> QED BY <2>1, <2>2, FS_Subset
<1>3. IsOrder(S, below)
  BY <1>1, <1>2 DEF IsOrder
<1>4. /\ n \in Nat /\ DOMAIN order = 1 .. n /\ \A k \in 1 .. n : order[k] \in S
      /\ \A u \in S : \E k \in 1 .. n : order[k] = u
      /\ \A k, m \in 1 .. n : k <= m <=> order[k] \in below[order[m]]
  <2> HIDE DEF below, S, order
  <2>1. order = InOrder(Ranks(S, below))
    BY DEF order
  <2>2. /\ Cardinality(S) \in Nat /\ DOMAIN order = 1 .. Cardinality(S)
        /\ \A k \in DOMAIN order : order[k] \in S
        /\ \A x \in S : \E k \in DOMAIN order : order[k] = x
        /\ \A k, m \in DOMAIN order : k <= m <=> order[k] \in below[order[m]]
    BY <1>3, <2>1, InOrderLists
  <2> QED BY <2>2
<1>5. t = closed \o q
  <2>1. Ranks(S, below) = [u \in OpenUnits |-> Cardinality({v \in OpenUnits : v <= u})]
    BY DEF Ranks
  <2>2. q = [k \in DOMAIN order |->
               [unit |-> order[k], start |-> open_start[order[k]], end |-> Images - 1]]
    BY <1>4 DEF ToTheEnd
  <2> HIDE DEF below, q
  <2> QED BY <2>1, <2>2 DEF AllClosed
<1> HIDE DEF order, below
<1>6. IsSeq(q) /\ Len(q) = n /\ \A k \in 1 .. n : q[k] = ToTheEnd(order[k])
  <2>1. q \in [1 .. n -> ToSet(q)] /\ Len(q) = n
    BY <1>4 DEF ToSet
  <2>2. q \in Seq(ToSet(q))
    BY <1>4, <2>1
  <2>3. \A k \in 1 .. n : q[k] = ToTheEnd(order[k])
    OBVIOUS
  <2> HIDE DEF q, n
  <2> QED BY <2>1, <2>2, <2>3 DEF IsSeq
<1> HIDE DEF q
<1>7. /\ IsSeq(t) /\ c \in Nat /\ Len(t) = c + n
      /\ \A i \in 1 .. c : t[i] = closed[i]
      /\ \A k \in 1 .. n : t[c + k] = ToTheEnd(order[k])
  <2>1. /\ IsSeq(closed \o q) /\ Len(closed \o q) = Len(closed) + Len(q) /\ Len(closed) \in Nat
        /\ \A i \in 1 .. Len(closed) : (closed \o q)[i] = closed[i]
        /\ \A i \in 1 .. Len(q) : (closed \o q)[Len(closed) + i] = q[i]
    BY <1>6, ConcatIsSeq
  <2> HIDE DEF n
  <2> QED BY <1>5, <1>6, <2>1
<1>8. \A i \in c + 1 .. Len(t) : \E k \in 1 .. n : i = c + k /\ t[i] = ToTheEnd(order[k])
  <2> TAKE i \in c + 1 .. Len(t)
  <2> HIDE DEF c, n
  <2>1. i - c \in 1 .. n /\ i = c + (i - c)
    BY <1>4, <1>7
  <2> QED BY <1>7, <2>1
<1> HIDE DEF c, n, S
<1>9. \A i, j \in c + 1 .. Len(t) : t[i].unit = t[j].unit => i = j
  <2> SUFFICES ASSUME NEW i \in c + 1 .. Len(t), NEW j \in c + 1 .. Len(t), t[i].unit = t[j].unit
               PROVE  i = j
    OBVIOUS
  <2>1. PICK k \in 1 .. n : i = c + k /\ t[i] = ToTheEnd(order[k])
    BY <1>8
  <2>2. PICK m \in 1 .. n : j = c + m /\ t[j] = ToTheEnd(order[m])
    BY <1>8
  <2>3. order[k] = order[m]
    BY <2>1, <2>2 DEF ToTheEnd
  <2>4. order[k] \in below[order[m]] /\ order[m] \in below[order[k]]
    BY <1>4, <2>3
  <2>5. k = m
    BY <1>4, <2>4
  <2> QED BY <2>1, <2>2, <2>5
<1>10. \A u \in S : \E i \in c + 1 .. Len(t) : t[i] = ToTheEnd(u)
  <2> TAKE u \in S
  <2>1. PICK k \in 1 .. n : order[k] = u
    BY <1>4
  <2>2. c + k \in c + 1 .. Len(t)
    BY <1>4, <1>7
  <2> QED BY <1>7, <2>1, <2>2
<1>11. \A i \in c + 1 .. Len(t) : \E u \in S : t[i] = ToTheEnd(u)
  BY <1>4, <1>8
<1>12. Len(t) \in Nat /\ c <= Len(t)
  BY <1>4, <1>7
<1> QED BY <1>7, <1>9, <1>10, <1>11, <1>12 DEF c, S

\* The periods of a unit when the map is written.
LEMMA FinishUnit ==
  ASSUME total_units(layout) \in Nat, Images \in Nat \ {0}, IsSeq(closed),
         NEW u \in Units, NEW L, NEW l, UnitIsRight(L, open_start[u], l, closed, u),
         \A x \in L : x.image < Images
  PROVE  LET t == AllClosed
         IN  /\ \A i \in 1 .. Len(t) : t[i].unit = u => PeriodIsRight(L, t[i])
             /\ \A i, j \in 1 .. Len(t) :
                  i < j /\ t[i].unit = u /\ t[j].unit = u => t[i].end + 1 < t[j].start
             /\ \A im \in 0 .. Images - 1 :
                  Rule(L, im) <=>
                    \E i \in 1 .. Len(t) : t[i].unit = u /\ t[i].start <= im /\ im <= t[i].end
<1> DEFINE c == Len(closed)
           o == open_start[u]
           t == AllClosed
<1>0. t = AllClosed
  OBVIOUS
<1> HIDE DEF t
<1>1. /\ IsSeq(t) /\ c \in Nat /\ Len(t) \in Nat /\ c <= Len(t)
      /\ \A i \in 1 .. c : t[i] = closed[i]
      /\ \A i \in c + 1 .. Len(t) : \E v \in OpenUnits : t[i] = ToTheEnd(v)
      /\ \A v \in OpenUnits : \E i \in c + 1 .. Len(t) : t[i] = ToTheEnd(v)
      /\ \A i, j \in c + 1 .. Len(t) : t[i].unit = t[j].unit => i = j
  BY <1>0, AllClosedAdds
<1>2. /\ OneLoad(L) /\ LastTells(L, o, l) /\ PastTells(L, o, l, closed, u)
      /\ \A im \in Nat : Says(o, closed, u, im) <=> Rule(L, im)
  BY DEF UnitIsRight
<1>3. l \in Int /\ l < Images
  BY <1>2 DEF LastTells, None
<1>4. \A i \in 1 .. c : closed[i].unit = u =>
        PeriodIsRight(L, closed[i]) /\ (o # None => closed[i].end + 1 < o)
  BY <1>2, <1>3 DEF PastTells, PeriodIsRight
<1>5. \A i \in c + 1 .. Len(t) : t[i].unit = u =>
        /\ o # None /\ t[i].start = o /\ t[i].end = Images - 1 /\ PeriodIsRight(L, t[i])
  <2> SUFFICES ASSUME NEW i \in c + 1 .. Len(t), t[i].unit = u
               PROVE  /\ o # None /\ t[i].start = o /\ t[i].end = Images - 1
                      /\ PeriodIsRight(L, t[i])
    OBVIOUS
  <2>1. PICK v \in OpenUnits : t[i] = ToTheEnd(v)
    BY <1>1
  <2>2. v = u
    BY <2>1 DEF ToTheEnd
  <2>3. o # None /\ t[i].start = o /\ t[i].end = Images - 1
    BY <2>1, <2>2 DEF OpenUnits, StillOpen, ToTheEnd
  <2>4. o \in Nat /\ o <= l /\ Started(L, o)
    BY <1>2, <2>3 DEF LastTells
  <2> QED BY <1>3, <2>3, <2>4 DEF PeriodIsRight
<1>6. \A i \in 1 .. Len(t) : i \in 1 .. c \/ i \in c + 1 .. Len(t)
  BY <1>1
<1> HIDE DEF c
<1>7. \A i \in 1 .. Len(t) : t[i].unit = u => PeriodIsRight(L, t[i])
  BY <1>1, <1>4, <1>5, <1>6
<1>8. ASSUME NEW i \in 1 .. Len(t), NEW j \in 1 .. Len(t), i < j, t[i].unit = u, t[j].unit = u
      PROVE  t[i].end + 1 < t[j].start
  <2>1. CASE i \in 1 .. c /\ j \in 1 .. c
    BY <1>1, <1>2, <1>8, <2>1 DEF PastTells, c
  <2>2. CASE i \in 1 .. c /\ j \in c + 1 .. Len(t)
    BY <1>1, <1>4, <1>5, <1>8, <2>2
  <2>3. CASE i \in c + 1 .. Len(t) /\ j \in c + 1 .. Len(t)
    BY <1>1, <1>8, <2>3
  <2>4. ~(i \in c + 1 .. Len(t) /\ j \in 1 .. c)
    BY <1>1, <1>8
  <2> QED BY <1>6, <2>1, <2>2, <2>3, <2>4
<1>9. ASSUME NEW im \in 0 .. Images - 1
      PROVE  Rule(L, im) <=>
               \E i \in 1 .. Len(t) : t[i].unit = u /\ t[i].start <= im /\ im <= t[i].end
  <2>1. im \in Nat /\ im <= Images - 1
    OBVIOUS
  <2>2. Rule(L, im) <=> \/ \E i \in 1 .. c : closed[i].unit = u /\ closed[i].start <= im
                                                                /\ im <= closed[i].end
                        \/ o # None /\ o <= im
    BY <1>2, <2>1 DEF Says, c
  <2>3. ASSUME o # None PROVE \E i \in c + 1 .. Len(t) : t[i].unit = u
    <3>1. u \in OpenUnits
      BY <2>3 DEF OpenUnits, StillOpen
    <3>2. PICK i \in c + 1 .. Len(t) : t[i] = ToTheEnd(u)
      BY <1>1, <3>1
    <3> QED BY <3>2 DEF ToTheEnd
  <2>4. ASSUME Rule(L, im)
        PROVE  \E i \in 1 .. Len(t) : t[i].unit = u /\ t[i].start <= im /\ im <= t[i].end
    <3>1. CASE \E i \in 1 .. c : closed[i].unit = u /\ closed[i].start <= im
                                                   /\ im <= closed[i].end
      BY <1>1, <3>1
    <3>2. CASE o # None /\ o <= im
      <4>1. PICK i \in c + 1 .. Len(t) : t[i].unit = u
        BY <2>3, <3>2
      <4>2. t[i].start = o /\ t[i].end = Images - 1 /\ i \in 1 .. Len(t)
        BY <1>1, <1>5, <4>1
      <4> QED BY <2>1, <3>2, <4>1, <4>2
    <3> QED BY <2>2, <2>4, <3>1, <3>2
  <2>5. ASSUME NEW i \in 1 .. Len(t), t[i].unit = u, t[i].start <= im, im <= t[i].end
        PROVE  Rule(L, im)
    <3>1. CASE i \in 1 .. c
      BY <1>1, <2>2, <2>5, <3>1
    <3>2. CASE i \in c + 1 .. Len(t)
      BY <1>5, <2>2, <2>5, <3>2
    <3> QED BY <1>6, <3>1, <3>2
  <2> QED BY <2>4, <2>5
<1> QED BY <1>7, <1>8, <1>9 DEF t

-----------------------------------------------------------------------------
(* The units of a sweep, and its place in the schedule.                    *)


\* The kernel's k-th latency is that of the k-th unit of the phase, and every unit
\* of the phase has its place in the buffer.
LEMMA ProbedAre ==
  ASSUME total_units(layout) \in Nat, NEW s \in Nat \ {0}, NEW p \in 0 .. s - 1
  PROVE  /\ probed_n(p, s) \in Nat
         /\ \A k \in 0 .. probed_n(p, s) - 1 :
              /\ ProbedUnit(p, s, k) \in Units /\ ProbedUnit(p, s, k) % s = p
              /\ (ProbedUnit(p, s, k) - p) \div s = k
              /\ k \in Units
         /\ \A u \in Units : u % s = p =>
              \E k \in 0 .. probed_n(p, s) - 1 : u = ProbedUnit(p, s, k)
<1> DEFINE N == total_units(layout)
           n == probed_n(p, s)
<1>1. N \in Nat /\ p \in Nat /\ s \in Nat /\ s > 0
  OBVIOUS
<1> HIDE DEF N
<1>2. n \in Nat
  <2>1. CASE N > p
    <3>1. (N - p) + s - 1 \in Nat /\ N - p + s - 1 = (N - p) + s - 1
      BY <1>1, <2>1
    <3> QED BY <1>1, <2>1, <3>1, Division DEF probed_n, N
  <2>2. CASE ~(N > p)
    BY <2>2 DEF probed_n, N
  <2> QED BY <2>1, <2>2
<1>3. ASSUME NEW k \in Nat PROVE k < n <=> p + k * s < N
  <2>1. k * s \in Nat /\ k * s = s * k
    BY <1>1
  <2>2. CASE N > p
    <3> DEFINE a == N - p + s - 1
               q == a \div s
               r == a % s
    <3>1. a \in Nat /\ a = (N - p) + s - 1
      BY <1>1, <2>2
    <3>2. n = q
      BY <2>2 DEF probed_n, N
    <3> HIDE DEF a, n
    <3>3. q \in Nat /\ r \in 0 .. s - 1 /\ a = s * q + r
      BY <1>1, <3>1, Division
    <3> HIDE DEF q, r
    <3>4. ASSUME k < q PROVE s * k + s <= s * q
      <4>1. k + 1 <= q
        BY <3>3, <3>4
      <4>2. s * (k + 1) <= s * q
        BY <1>1, <3>3, <4>1
      <4>3. s * (k + 1) = s * k + s
        BY <1>1
      <4> QED BY <4>2, <4>3
    <3>5. ASSUME q <= k PROVE s * q <= s * k
      BY <1>1, <3>3, <3>5
    <3>6. s * q \in Nat
      BY <1>1, <3>3
    <3>7. k < q => p + s * k < N
      BY <1>1, <2>1, <3>1, <3>3, <3>4, <3>6
    <3>8. ~(k < q) => ~(p + s * k < N)
      BY <1>1, <2>1, <3>1, <3>3, <3>5, <3>6
    <3> QED BY <2>1, <3>2, <3>7, <3>8
  <2>3. CASE ~(N > p)
    <3>1. n = 0
      BY <2>3 DEF probed_n, N
    <3> HIDE DEF n
    <3> QED BY <1>1, <2>1, <2>3, <3>1
  <2> QED BY <2>2, <2>3
<1> HIDE DEF n
<1>4. Units = 0 .. N - 1
  BY DEF Units, UnitIds, N
<1>5. ASSUME NEW k \in 0 .. n - 1
      PROVE  /\ ProbedUnit(p, s, k) \in Units /\ ProbedUnit(p, s, k) % s = p
             /\ (ProbedUnit(p, s, k) - p) \div s = k
             /\ k \in Units
  <2>1. k \in Nat /\ k < n /\ k * s \in Nat /\ k * s = s * k
    BY <1>1, <1>2
  <2>2. p + k * s < N /\ p + k * s \in Nat
    BY <1>1, <1>3, <2>1
  <2>3. ProbedUnit(p, s, k) = p + k * s
    BY DEF ProbedUnit
  <2>4. (p + k * s) % s = p
    <3>1. p + k * s = s * k + p
      BY <1>1, <2>1
    <3> QED BY <1>1, <2>1, <2>2, <3>1, Division
  <2>5. ((p + k * s) - p) \div s = k
    <3>1. (p + k * s) - p = s * k + 0 /\ (p + k * s) - p \in Nat /\ 0 \in 0 .. s - 1
      BY <1>1, <2>1
    <3> QED BY <1>1, <2>1, <3>1, Division
  <2>6. k \in Units
    <3>1. k <= s * k
      BY <1>1, <2>1
    <3>2. k < N
      BY <1>1, <2>1, <2>2, <3>1
    <3> QED BY <1>1, <1>4, <2>1, <3>2
  <2>7. p + k * s \in Units
    BY <1>1, <1>4, <2>2
  <2> QED BY <2>3, <2>4, <2>5, <2>6, <2>7
<1>6. ASSUME NEW u \in Units, u % s = p
      PROVE  \E k \in 0 .. n - 1 : u = ProbedUnit(p, s, k)
  <2> DEFINE k == u \div s
  <2>1. u \in Nat /\ u < N
    BY <1>1, <1>4
  <2>2. k \in Nat /\ u = s * k + p
    BY <1>1, <1>6, <2>1, Division
  <2> HIDE DEF k
  <2>3. k * s = s * k /\ k * s \in Nat
    BY <1>1, <2>2
  <2>4. u = p + k * s
    BY <1>1, <2>2, <2>3
  <2>5. k < n
    BY <1>3, <2>1, <2>2, <2>4
  <2>6. k \in 0 .. n - 1
    BY <1>2, <2>2, <2>5
  <2> QED BY <2>4, <2>6 DEF ProbedUnit
<1> QED BY <1>2, <1>5, <1>6 DEF n

\* probe: after a sweep the host holds, for each unit of the phase, what its load
\* found.
LEMMA SweepScatters ==
  ASSUME total_units(layout) \in Nat, NEW s \in Nat \ {0}, NEW p \in 0 .. s - 1, NEW hits,
         DOMAIN device = Units
  PROVE  LET compact == Kernel(p, s, hits)
             host == Scatter(p, s, compact)
             probed == {ProbedUnit(p, s, k) : k \in 0 .. (probed_n(p, s) - 1)}
         IN  /\ DOMAIN compact = Units /\ DOMAIN host = Units
             /\ \A u : u \in probed <=> u \in Units /\ u % s = p
             /\ \A u \in probed : host[u] <=> u \in hits
<1> DEFINE n == probed_n(p, s)
           compact == Kernel(p, s, hits)
           host == Scatter(p, s, compact)
           probed == {ProbedUnit(p, s, k) : k \in 0 .. (probed_n(p, s) - 1)}
<1>1. /\ n \in Nat
      /\ \A k \in 0 .. n - 1 :
              /\ ProbedUnit(p, s, k) \in Units /\ ProbedUnit(p, s, k) % s = p
              /\ (ProbedUnit(p, s, k) - p) \div s = k
              /\ k \in Units
      /\ \A u \in Units : u % s = p => \E k \in 0 .. n - 1 : u = ProbedUnit(p, s, k)
  BY ProbedAre
<1>2. compact = [k \in Units |-> IF k < n THEN ProbedUnit(p, s, k) \in hits ELSE device[k]]
  BY DEF Kernel
<1>3. host = [u \in Units |-> IF \E k \in 0 .. n - 1 : u = ProbedUnit(p, s, k)
                                THEN compact[(u - p) \div s] ELSE latency[u]]
  BY DEF Scatter
<1>4. probed = {ProbedUnit(p, s, k) : k \in 0 .. n - 1}
  OBVIOUS
<1> HIDE DEF n, compact, host, probed
<1>5. ASSUME NEW k \in 0 .. n - 1
      PROVE  host[ProbedUnit(p, s, k)] <=> ProbedUnit(p, s, k) \in hits
  <2> DEFINE u == ProbedUnit(p, s, k)
  <2>1. u \in Units /\ (u - p) \div s = k /\ k \in Units /\ k < n
    BY <1>1
  <2>2. \E m \in 0 .. n - 1 : u = ProbedUnit(p, s, m)
    OBVIOUS
  <2> HIDE DEF u
  <2>3. host[u] = compact[k]
    BY <1>3, <2>1, <2>2
  <2>4. compact[k] = (ProbedUnit(p, s, k) \in hits)
    BY <1>2, <2>1
  <2> QED BY <2>3, <2>4 DEF u
<1>6. \A u : u \in probed <=> u \in Units /\ u % s = p
  BY <1>1, <1>4
<1>7. \A u \in probed : host[u] <=> u \in hits
  BY <1>4, <1>5
<1>8. DOMAIN compact = Units /\ DOMAIN host = Units
  BY <1>2, <1>3
<1> QED BY <1>6, <1>7, <1>8 DEF compact, host, probed

\* The sweep before image is the one of that image.
LEMMA SweepOfImage ==
  ASSUME NEW im \in Nat, NEW n \in Nat, NEW e \in Nat \ {0}, im <= n * e, n * e < im + e
  PROVE  /\ im % e = 0 => n * e = im /\ n = im \div e
         /\ im % e # 0 => im < n * e
<1>1. n * e = e * n /\ n * e \in Nat
  OBVIOUS
<1>2. im = e * (im \div e) + (im % e) /\ im % e \in 0 .. e - 1 /\ im \div e \in Nat
  BY Division
<1>3. ASSUME im % e = 0 PROVE n * e = im /\ n = im \div e
  <2> DEFINE q == im \div e
  <2>1. im = e * q /\ q \in Nat
    BY <1>2, <1>3
  <2> HIDE DEF q
  <2>2. n * e = e * n + 0 /\ im = e * q + 0 /\ 0 \in 0 .. e - 1
    BY <1>1, <2>1
  <2>3. ~(n < q)
    <3>1. ASSUME n < q PROVE FALSE
      <4>1. e * (n + 1) <= e * q
        BY <2>1, <3>1
      <4>2. e * (n + 1) = e * n + e
        OBVIOUS
      <4> QED BY <1>1, <2>1, <4>1, <4>2
    <3> QED BY <3>1
  <2>4. ~(q < n)
    <3>1. ASSUME q < n PROVE FALSE
      <4>1. e * (q + 1) <= e * n
        BY <2>1, <3>1
      <4>2. e * (q + 1) = e * q + e
        BY <2>1
      <4> QED BY <1>1, <2>1, <4>1, <4>2
    <3> QED BY <3>1
  <2>5. n = q
    BY <2>1, <2>3, <2>4
  <2> QED BY <1>1, <2>1, <2>5 DEF q
<1>4. ASSUME im % e # 0, im = n * e PROVE FALSE
  <2>1. im = e * n + 0 /\ 0 \in 0 .. e - 1
    BY <1>1, <1>4
  <2>2. im % e = 0
    BY <2>1, Division
  <2> QED BY <1>4, <2>2
<1> QED BY <1>1, <1>3, <1>4

\* Among as many sweeps as the stride there is one of every phase.
LEMMA EveryPhase ==
  ASSUME NEW m \in Nat, NEW s \in Nat \ {0}, s <= m, NEW r \in 0 .. s - 1
  PROVE  \E j \in m - s .. m - 1 : j \in Nat /\ j % s = r
<1> DEFINE q == m \div s
           t == m % s
<1>1. m = s * q + t /\ t \in 0 .. s - 1 /\ q \in Nat
  BY Division
<1> HIDE DEF q, t
<1>2. s * q \in Nat
  BY <1>1
<1>3. CASE r < t
  <2>1. s * q + r \in m - s .. m - 1 /\ s * q + r \in Nat
    BY <1>1, <1>2, <1>3
  <2>2. (s * q + r) % s = r
    BY <1>1, <2>1, Division
  <2> QED BY <2>1, <2>2
<1>4. CASE ~(r < t)
  <2>1. q # 0
    <3>1. q = 0 => s * q = 0
      OBVIOUS
    <3> QED BY <1>1, <1>2, <3>1
  <2>2. q - 1 \in Nat
    BY <1>1, <2>1
  <2>3. s * (q - 1) = s * q - s /\ s * (q - 1) \in Nat
    BY <1>1, <1>2, <2>2
  <2>4. s * (q - 1) + r \in m - s .. m - 1 /\ s * (q - 1) + r \in Nat
    BY <1>1, <1>2, <1>4, <2>3
  <2>5. (s * (q - 1) + r) % s = r
    BY <2>2, <2>4, Division
  <2> QED BY <2>4, <2>5
<1> QED BY <1>3, <1>4

\* A unit without a load.
LEMMA Unprobed ==
  ASSUME NEW u
  PROVE  UnitIsRight({}, None, None, <<>>, u) /\ IsSeq(<<>>) /\ Len(<<>>) = 0
<1>1. Len(<<>>) = 0 /\ IsSeq(<<>>)
  BY DEF IsSeq, ToSet
<1>2. \A im \in Nat : ~Rule({}, im)
  BY DEF Rule
<1> QED BY <1>1, <1>2 DEF UnitIsRight, OneLoad, LastTells, PastTells, Says, None

-----------------------------------------------------------------------------
(* The actions.                                                            *)

\* What the assumptions give of a layout.
LEMMA Basics ==
  ASSUME Shape
  PROVE  /\ total_units(layout) \in Nat /\ Images \in Nat \ {0} /\ Every \in Nat \ {0}
         /\ Units = 0 .. total_units(layout) - 1
         /\ \A u \in Units : u \in Nat /\ u < total_units(layout)
<1>1. total_units(layout) \in Nat
  BY LayoutsAreNumbered DEF Shape
<1>2. Images \in Nat \ {0} /\ Every \in Nat \ {0}
  BY ProbeAssumption
<1>3. Units = 0 .. total_units(layout) - 1
  BY DEF Units, UnitIds
<1>4. \A u \in Units : u \in Nat /\ u < total_units(layout)
  BY <1>1, <1>3
<1> QED BY <1>1, <1>2, <1>3, <1>4

\* The units are those of the layout.
LEMMA SameUnits ==
  ASSUME layout' = layout
  PROVE  Units' = Units
  BY DEF Units, UnitIds

\* Nothing has been probed.
LEMMA InitRight ==
  ASSUME Init
  PROVE  ResidencyInv
<1>1. \A l \in Layouts : total_units(l) \in Nat
  BY LayoutsAreNumbered
<1>2. Units \subseteq Nat
  BY <1>1 DEF Init, Units, UnitIds
<1>3. Len(<<>>) = 0 /\ IsSeq(<<>>)
  BY Unprobed
<1>4. Shape
  BY <1>3, ProbeAssumption DEF Init, Shape
<1>5. Loads /\ Scattered /\ Indexed
  BY DEF Init, Loads, Scattered, Indexed
<1>6. Scheduled
  <2>1. image = 0 /\ sweeps = 0 /\ pc = "construct"
    BY DEF Init
  <2>2. image <= sweeps * Every /\ sweeps * Every < image + Every
    BY <2>1, ProbeAssumption
  <2>3. 0 .. sweeps - 1 = {}
    BY <2>1
  <2> QED BY <2>1, <2>2, <2>3 DEF Scheduled
<1>7. Right
  <2> SUFFICES ASSUME NEW u \in Units
               PROVE  UnitIsRight(Told(u), open_start[u], last_seen[u], closed, u)
    BY DEF Right
  <2>1. Told(u) = {}
    BY DEF Init, Told, LoadsOf
  <2>2. open_start[u] = None /\ last_seen[u] = None /\ closed = <<>>
    BY DEF Init
  <2> QED BY <2>1, <2>2, Unprobed
<1> QED BY <1>4, <1>5, <1>6, <1>7 DEF ResidencyInv

\* Refuse and InferThrows end the pass.
LEMMA ThrowStep ==
  ASSUME ResidencyInv, Refuse \/ InferThrows
  PROVE  ResidencyInv'
<1>1. /\ UNCHANGED <<proberVars, pass, image, sweeps, cursor, builderVars, seen>>
      /\ pc' = "threw" /\ pc \in {"construct", "infer"}
      /\ error' # "observations of a unit must strictly increase"
  BY DEF Refuse, InferThrows, Throw
<1>2. UNCHANGED <<layout, passes, stride, device, latency>>
  BY <1>1 DEF proberVars
<1>3. Units' = Units
  BY <1>2, SameUnits
<1>4. Shape'
  BY <1>1, <1>2, <1>3 DEF ResidencyInv, Shape, Running
<1>5. Loads'
  BY <1>1, <1>2, <1>3 DEF ResidencyInv, Loads, Running, StartParity
<1>6. Scheduled' /\ Scattered' /\ Right' /\ Indexed'
  BY <1>1 DEF Scheduled, Scattered, Right, Indexed, Running
<1> QED BY <1>4, <1>5, <1>6 DEF ResidencyInv

\* The constructor: no load has been made.
LEMMA ConstructStep ==
  ASSUME ResidencyInv, ConstructFixed \/ ConstructAuto
  PROVE  ResidencyInv'
<1>1. /\ UNCHANGED <<layout, passes, latency, pass, image, sweeps, cursor, builderVars, seen>>
      /\ error' = error /\ pc = "construct" /\ pc' = "boundary"
  BY DEF ConstructFixed, ConstructAuto
<1>2. UNCHANGED <<open_start, last_seen, closed, offsets, periods>>
  BY <1>1 DEF builderVars
<1>3. Units' = Units
  BY <1>1, SameUnits
<1>4. stride' \in Nat \ {0}
  <2>1. CASE ConstructFixed
    BY <2>1, ProbeAssumption DEF ConstructFixed
  <2>2. CASE ConstructAuto
    <3>1. stride' = 1 \/ stride' = MidStride \/ stride' = LargeStride
      BY <2>2 DEF ConstructAuto
    <3> QED BY <3>1, ProbeAssumption
  <2> QED BY <2>1, <2>2
<1>5. DOMAIN device' = Units
  <2>1. DOMAIN device = Units
    BY DEF ResidencyInv, Shape
  <2>2. CASE ConstructFixed
    BY <2>1, <2>2 DEF ConstructFixed
  <2>3. CASE ConstructAuto
    <3>1. PICK hits : device' = Kernel(0, PresweepStride, hits)
      BY <2>3 DEF ConstructAuto
    <3> QED BY <2>1, <3>1 DEF Kernel
  <2> QED BY <2>2, <2>3
<1>6. seen = {} /\ image = 0 /\ sweeps = 0
  BY <1>1 DEF ResidencyInv, Shape
<1>7. Shape'
  BY <1>1, <1>2, <1>3, <1>4, <1>5 DEF ResidencyInv, Shape, Running
<1>8. Loads'
  BY <1>1, <1>6 DEF Loads
<1>9. Scheduled'
  <2>1. image <= sweeps * Every /\ sweeps * Every < image + Every
    BY <1>6, ProbeAssumption
  <2>2. 0 .. sweeps - 1 = {}
    BY <1>6
  <2> QED BY <1>1, <2>1, <2>2 DEF Scheduled
<1>10. Scattered' /\ Indexed'
  BY <1>1 DEF Scattered, Indexed
<1>11. Right'
  <2>1. \A u \in Units : Told(u)' = Told(u)
    BY <1>1 DEF Told, LoadsOf
  <2> QED BY <1>1, <1>2, <1>3, <2>1 DEF ResidencyInv, Right, Running
<1> QED BY <1>7, <1>8, <1>9, <1>10, <1>11 DEF ResidencyInv

\* The image is not swept before, or it has been.
LEMMA NoSweepStep ==
  ASSUME ResidencyInv, NoSweep
  PROVE  ResidencyInv'
<1>1. /\ UNCHANGED <<proberVars, pass, image, sweeps, cursor, builderVars, seen, error>>
      /\ pc = "boundary" /\ pc' = "infer" /\ image < Images /\ image % Every # 0
  BY DEF NoSweep
<1>2. UNCHANGED <<layout, passes, stride, device, latency,
                  open_start, last_seen, closed, offsets, periods>>
  BY <1>1 DEF proberVars, builderVars
<1>3. Units' = Units
  BY <1>2, SameUnits
<1>4. Shape'
  BY <1>1, <1>2, <1>3 DEF ResidencyInv, Shape, Running
<1>5. Loads'
  <2>1. \A x \in seen : x.image \in Nat /\ x.image < image
    BY <1>1 DEF ResidencyInv, Loads
  <2>2. image \in Nat
    BY DEF ResidencyInv, Shape
  <2>3. \A x \in seen : x.image <= image
    BY <2>1, <2>2
  <2> QED BY <1>1, <1>2, <1>3, <2>3 DEF ResidencyInv, Loads, Running, StartParity
<1>6. Scheduled'
  <2>1. image \in Nat /\ sweeps \in Nat /\ Every \in Nat \ {0}
    BY Basics DEF ResidencyInv, Shape
  <2>2. image <= sweeps * Every /\ sweeps * Every < image + Every
    BY <1>1 DEF ResidencyInv, Scheduled
  <2>3. image < sweeps * Every
    BY <1>1, <2>1, <2>2, SweepOfImage
  <2>4. sweeps * Every <= image + Every
    BY <2>1, <2>2
  <2>5. \A u \in Units : LoadsOf(u)' = LoadsOf(u)
    BY <1>1 DEF LoadsOf
  <2> QED BY <1>1, <1>2, <1>3, <2>3, <2>4, <2>5 DEF ResidencyInv, Scheduled, Running
<1>7. Scattered' /\ Indexed'
  BY <1>1 DEF Scattered, Indexed
<1>8. Right'
  <2>1. \A u \in Units : Told(u)' = Told(u)
    BY <1>1 DEF Told, LoadsOf
  <2> QED BY <1>1, <1>2, <1>3, <2>1 DEF ResidencyInv, Right, Running
<1> QED BY <1>4, <1>5, <1>6, <1>7, <1>8 DEF ResidencyInv

\* All units of the phase have been observed.
LEMMA ObservedStep ==
  ASSUME ResidencyInv, Observed
  PROVE  ResidencyInv'
<1>1. /\ UNCHANGED <<proberVars, pass, image, sweeps, cursor, builderVars, seen, error>>
      /\ pc = "observe" /\ pc' = "infer" /\ cursor \notin Units
  BY DEF Observed
<1>2. UNCHANGED <<layout, passes, stride, device, latency,
                  open_start, last_seen, closed, offsets, periods>>
  BY <1>1 DEF proberVars, builderVars
<1>3. Units' = Units
  BY <1>2, SameUnits
<1>4. Shape'
  BY <1>1, <1>2, <1>3 DEF ResidencyInv, Shape, Running
<1>5. Loads'
  BY <1>1, <1>2, <1>3 DEF ResidencyInv, Loads, Running, StartParity
<1>6. Scheduled'
  <2>1. \A u \in Units : LoadsOf(u)' = LoadsOf(u)
    BY <1>1 DEF LoadsOf
  <2> QED BY <1>1, <1>2, <1>3, <2>1 DEF ResidencyInv, Scheduled, Running
<1>7. Scattered' /\ Indexed'
  BY <1>1 DEF Scattered, Indexed
<1>8. Right'
  <2>1. ASSUME NEW u \in Units PROVE Told(u)' = Told(u)
    <3>1. /\ cursor \in Nat /\ Units = 0 .. total_units(layout) - 1
          /\ total_units(layout) \in Nat /\ u \in Nat /\ u < total_units(layout)
      BY Basics DEF ResidencyInv, Shape
    <3>2. ~(cursor <= u)
      BY <1>1, <3>1
    <3> QED BY <1>1, <3>2 DEF Told, LoadsOf
  <2> QED BY <1>1, <1>2, <1>3, <2>1 DEF ResidencyInv, Right, Running
<1> QED BY <1>4, <1>5, <1>6, <1>7, <1>8 DEF ResidencyInv

\* The next image.
LEMMA InferStep ==
  ASSUME ResidencyInv, Infer
  PROVE  ResidencyInv'
<1>1. /\ UNCHANGED <<proberVars, pass, sweeps, cursor, builderVars, seen, error>>
      /\ pc = "infer" /\ pc' = "boundary" /\ image' = image + 1
  BY DEF Infer
<1>2. UNCHANGED <<layout, passes, stride, device, latency,
                  open_start, last_seen, closed, offsets, periods>>
  BY <1>1 DEF proberVars, builderVars
<1>3. Units' = Units
  BY <1>2, SameUnits
<1>4. image \in Nat /\ image < Images /\ Images \in Nat /\ sweeps \in Nat /\ Every \in Nat \ {0}
  BY <1>1, Basics DEF ResidencyInv, Shape
<1>5. Shape'
  <2>1. image' \in Nat /\ image' <= Images
    BY <1>1, <1>4
  <2> QED BY <1>1, <1>2, <1>3, <2>1 DEF ResidencyInv, Shape, Running
<1>6. Loads'
  <2>1. \A x \in seen : x.image \in Nat /\ x.image <= image
    BY <1>1 DEF ResidencyInv, Loads, Running
  <2>2. \A x \in seen : x.image < image' /\ x.image <= image'
    BY <1>1, <1>4, <2>1
  <2> QED BY <1>1, <1>2, <1>3, <2>2 DEF ResidencyInv, Loads, StartParity
<1>7. Scheduled'
  <2>1. image < sweeps * Every /\ sweeps * Every <= image + Every
    BY <1>1 DEF ResidencyInv, Scheduled
  <2>2. sweeps * Every \in Nat
    BY <1>4
  <2>3. image' <= sweeps * Every /\ sweeps * Every < image' + Every
    BY <1>1, <1>4, <2>1, <2>2
  <2>4. \A u \in Units : LoadsOf(u)' = LoadsOf(u)
    BY <1>1 DEF LoadsOf
  <2> QED BY <1>1, <1>2, <1>3, <2>3, <2>4 DEF ResidencyInv, Scheduled, Running
<1>8. Scattered' /\ Indexed'
  BY <1>1 DEF Scattered, Indexed
<1>9. Right'
  <2>1. \A u \in Units : Told(u)' = Told(u)
    BY <1>1 DEF Told, LoadsOf
  <2> QED BY <1>1, <1>2, <1>3, <2>1 DEF ResidencyInv, Right, Running
<1> QED BY <1>5, <1>6, <1>7, <1>8, <1>9 DEF ResidencyInv

\* A sweep before an image: the host holds what the kernel found, and the builder
\* has not been told yet.
LEMMA SweepStep ==
  ASSUME ResidencyInv, Sweep
  PROVE  ResidencyInv'
<1> DEFINE p == Phase(sweeps)
           back == Direction(sweeps)
           probed == {ProbedUnit(p, stride, k) : k \in 0 .. (probed_n(p, stride) - 1)}
           N == total_units(layout)
<1>1. /\ pc = "boundary" /\ pc' = "observe" /\ image < Images /\ image % Every = 0
      /\ sweeps' = sweeps + 1
      /\ UNCHANGED <<layout, passes, stride, pass, image, builderVars, error>>
  BY DEF Sweep
<1>2. UNCHANGED <<open_start, last_seen, closed, offsets, periods>>
  BY <1>1 DEF builderVars
<1>3. Units' = Units
  BY <1>1, SameUnits
<1>4. /\ Shape /\ Loads /\ Scheduled /\ Right
  BY DEF ResidencyInv
<1>5. /\ N \in Nat /\ Every \in Nat \ {0} /\ image \in Nat /\ sweeps \in Nat /\ Images \in Nat
      /\ stride \in Nat \ {0}
      /\ \A u \in Units : u \in Nat /\ u < N
  BY <1>4, Basics DEF Shape
<1>6. p \in 0 .. stride - 1 /\ p \in Nat
  BY <1>5, Division DEF Phase
<1>7. PICK hits :
        /\ device' = Kernel(p, stride, hits)
        /\ latency' = Scatter(p, stride, Kernel(p, stride, hits))
        /\ seen' = seen \cup {[unit |-> u, image |-> image, hit |-> u \in hits,
                               reverse |-> back] : u \in probed}
        /\ cursor' = p
  BY DEF Sweep
<1>8. /\ DOMAIN device' = Units /\ DOMAIN latency' = Units
      /\ \A u : u \in probed <=> u \in Units /\ u % stride = p
      /\ \A u \in probed : latency'[u] <=> u \in hits
  <2>1. DOMAIN device = Units
    BY <1>4 DEF Shape
  <2> HIDE DEF p
  <2> QED BY <1>5, <1>6, <1>7, <2>1, SweepScatters
<1>9. sweeps * Every = image /\ sweeps = image \div Every
  BY <1>1, <1>4, <1>5, SweepOfImage DEF Scheduled
<1>10. back = (Alternate /\ StartParity(image) = 1)
  BY <1>9 DEF Direction, StartParity
<1> DEFINE Load(u) == [unit |-> u, image |-> image, hit |-> u \in hits, reverse |-> back]
<1>11. seen' = seen \cup {Load(u) : u \in probed}
  BY <1>7
<1>12. \A u : /\ Load(u).unit = u /\ Load(u).image = image /\ Load(u).reverse = back
              /\ (Load(u).hit <=> u \in hits)
  OBVIOUS
<1> HIDE DEF p, probed, back, Load, N
<1>13. \A x \in seen : x.unit \in Units /\ x.image \in Nat /\ x.image < image
  BY <1>1, <1>4 DEF Loads
<1>14. \A x \in seen' : x \in seen \/ \E u \in probed : x = Load(u)
  BY <1>11
<1>15. Shape'
  <2>1. sweeps' \in Nat /\ cursor' \in Nat /\ image' \in Nat /\ image' <= Images
    BY <1>1, <1>5, <1>6, <1>7
  <2> QED BY <1>1, <1>2, <1>3, <1>4, <1>8, <2>1 DEF Shape, Running
<1>16. Loads'
  <2>1. ASSUME NEW x \in seen'
        PROVE  /\ x.unit \in Units /\ x.image \in Nat /\ x.image < Images /\ x.image <= image
               /\ x.reverse = (Alternate /\ StartParity(x.image) = 1)
    <3>1. CASE x \in seen
      BY <1>1, <1>4, <1>5, <1>13, <3>1 DEF Loads
    <3>2. CASE \E u \in probed : x = Load(u)
      BY <1>1, <1>5, <1>8, <1>10, <1>12, <3>2
    <3> QED BY <1>14, <3>1, <3>2
  <2>2. ASSUME NEW x \in seen', NEW y \in seen', x.unit = y.unit, x.image = y.image PROVE x = y
    <3>1. CASE x \in seen /\ y \in seen
      BY <1>4, <2>2, <3>1 DEF Loads
    <3>2. CASE x \notin seen \/ y \notin seen
      <4>1. x.image = image
        BY <1>12, <1>14, <2>2, <3>2
      <4>2. x \notin seen /\ y \notin seen
        <5>1. \A z \in seen : z.image # image
          BY <1>5, <1>13
        <5> QED BY <2>2, <4>1, <5>1
      <4> QED BY <1>12, <1>14, <2>2, <4>2
    <3> QED BY <3>1, <3>2
  <2>3. \A i : StartParity(i)' = StartParity(i)
    BY <1>1 DEF StartParity
  <2> QED BY <1>1, <1>3, <2>1, <2>2, <2>3 DEF Loads, Running
<1>17. ASSUME NEW u \in Units
       PROVE  LoadsOf(u)' = IF u \in probed THEN LoadsOf(u) \cup {Load(u)} ELSE LoadsOf(u)
  BY <1>11, <1>12 DEF LoadsOf
<1>18. \A u \in Units : \A x \in LoadsOf(u) : x \in seen /\ x.unit = u /\ x.image # image
  BY <1>5, <1>13 DEF LoadsOf
<1>19. Scheduled'
  <2>1. image < sweeps' * Every /\ sweeps' * Every <= image + Every
    <3>1. (sweeps + 1) * Every = sweeps * Every + Every
      BY <1>5
    <3> QED BY <1>1, <1>5, <1>9, <3>1
  <2>2. ASSUME NEW j \in 0 .. sweeps' - 1, NEW u \in Units, u % stride = j % stride
        PROVE  \E x \in LoadsOf(u)' : x.image = j * Every
    <3>1. CASE j \in 0 .. sweeps - 1
      <4>1. \E x \in LoadsOf(u) : x.image = j * Every
        BY <1>1, <1>4, <2>2, <3>1 DEF Scheduled, Running
      <4> QED BY <1>17, <4>1
    <3>2. CASE j = sweeps
      <4>1. u \in probed
        BY <1>8, <2>2, <3>2 DEF p, Phase
      <4>2. Load(u) \in LoadsOf(u)'
        BY <1>17, <4>1
      <4> QED BY <1>9, <1>12, <3>2, <4>2
    <3>3. j \in 0 .. sweeps - 1 \/ j = sweeps
      BY <1>1, <1>5
    <3> QED BY <3>1, <3>2, <3>3
  <2> QED BY <1>1, <1>3, <2>1, <2>2 DEF Scheduled
<1>20. p % stride = p
  BY <1>5, <1>6
<1>21. Scattered'
  <2>1. ASSUME NEW u \in Units
        PROVE  u % stride = p % stride <=> \E x \in LoadsOf(u)' : x.image = image
    <3>1. CASE u \in probed
      <4>1. Load(u) \in LoadsOf(u)'
        BY <1>17, <3>1
      <4> QED BY <1>8, <1>12, <1>20, <3>1, <4>1
    <3>2. CASE u \notin probed
      BY <1>8, <1>17, <1>18, <1>20, <3>2
    <3> QED BY <3>1, <3>2
  <2>2. ASSUME NEW x \in seen', x.image = image PROVE latency'[x.unit] <=> x.hit
    <3>1. x \notin seen
      BY <1>5, <1>13, <2>2
    <3>2. PICK u \in probed : x = Load(u)
      BY <1>14, <3>1
    <3> QED BY <1>8, <1>12, <3>2
  <2> QED BY <1>1, <1>3, <1>7, <2>1, <2>2 DEF Scattered
<1>22. Right'
  <2>1. ASSUME NEW u \in Units PROVE Told(u)' = LoadsOf(u)
    <3>1. Told(u)' = IF p <= u THEN {x \in LoadsOf(u)' : x.image # image} ELSE LoadsOf(u)'
      BY <1>1, <1>7 DEF Told
    <3>2. CASE u \in probed
      <4>1. p <= u
        <5>1. u \in Nat /\ u = stride * (u \div stride) + (u % stride) /\ u \div stride \in Nat
          BY <1>5, Division
        <5>2. u % stride = p
          BY <1>8, <3>2
        <5>3. stride * (u \div stride) \in Nat
          BY <1>5, <5>1
        <5> QED BY <1>6, <5>1, <5>2, <5>3
      <4>2. LoadsOf(u)' = LoadsOf(u) \cup {Load(u)}
        BY <1>17, <3>2
      <4> QED BY <1>12, <1>18, <3>1, <4>1, <4>2
    <3>3. CASE u \notin probed
      BY <1>17, <1>18, <3>1, <3>3
    <3> QED BY <3>2, <3>3
  <2>2. \A u \in Units : Told(u) = LoadsOf(u)
    BY <1>1 DEF Told
  <2> QED BY <1>1, <1>2, <1>3, <1>4, <2>1, <2>2 DEF Right, Running
<1>23. Indexed'
  BY <1>1 DEF Indexed
<1> QED BY <1>15, <1>16, <1>19, <1>21, <1>22, <1>23 DEF ResidencyInv

\* The cursor stays in its phase.
LEMMA SamePhase ==
  ASSUME NEW a \in Nat, NEW s \in Nat \ {0}
  PROVE  (a + s) % s = a % s
<1> DEFINE q == a \div s
           r == a % s
           b == a + s
           q1 == q + 1
<1>1. a = s * q + r /\ q \in Nat /\ r \in 0 .. s - 1
  BY Division
<1> HIDE DEF q, r
<1>2. s * q1 = s * q + s /\ s * q \in Nat /\ q1 \in Nat
  BY <1>1
<1> HIDE DEF q1
<1>3. b = s * q1 + r /\ b \in Nat
  BY <1>1, <1>2
<1> HIDE DEF b
<1>4. r = b % s
  BY <1>1, <1>2, <1>3, Division
<1> QED BY <1>4 DEF b, r

\* observe, of the unit under the cursor, is never told of an image twice.
LEMMA ObserveStep ==
  ASSUME ResidencyInv, Observe
  PROVE  ResidencyInv'
<1> DEFINE N == total_units(layout)
           c == cursor
<1>1. /\ pc = "observe" /\ c \in Units
      /\ UNCHANGED <<proberVars, pass, image, sweeps, seen>>
  BY DEF Observe
<1>2. UNCHANGED <<layout, passes, stride, device, latency>>
  BY <1>1 DEF proberVars
<1>3. Units' = Units
  BY <1>2, SameUnits
<1>4. /\ Shape /\ Loads /\ Scheduled /\ Scattered /\ Right
  BY DEF ResidencyInv
<1>5. /\ N \in Nat /\ image \in Nat /\ stride \in Nat \ {0} /\ c \in Nat
      /\ \A u \in Units : u \in Nat /\ u < N
  BY <1>4, Basics DEF Shape
<1>6. /\ DOMAIN open_start = Units /\ DOMAIN last_seen = Units
      /\ IsSeq(closed) /\ \A i \in 1 .. Len(closed) : closed[i].unit \in Units
  BY <1>1, <1>4 DEF Shape, Running
<1>7. \A u \in Units : UnitIsRight(Told(u), open_start[u], last_seen[u], closed, u)
  BY <1>1, <1>4 DEF Right, Running
<1>8. \A x \in seen : x.image \in Nat /\ x.image <= image
  BY <1>1, <1>4 DEF Loads, Running
<1>9. Told(c) = {x \in LoadsOf(c) : x.image # image}
  BY <1>1, <1>5 DEF Told
<1>10. PICK x \in LoadsOf(c) : x.image = image
  BY <1>1, <1>4 DEF Scattered
<1>11. x \in seen /\ x.unit = c /\ (latency[c] <=> x.hit)
  BY <1>1, <1>4, <1>10 DEF LoadsOf, Scattered
<1>12. LoadsOf(c) = Told(c) \cup {x}
  BY <1>4, <1>9, <1>10, <1>11 DEF LoadsOf, Loads
<1>13. last_seen[c] < image
  <2>1. LastTells(Told(c), open_start[c], last_seen[c])
    BY <1>1, <1>7 DEF UnitIsRight
  <2>2. \A y \in Told(c) : y.image \in Nat /\ y.image < image
    BY <1>5, <1>8, <1>9 DEF LoadsOf
  <2> QED BY <1>5, <2>1, <2>2 DEF LastTells, None
<1>14. last_seen[c] \in Int
  BY <1>1, <1>7 DEF UnitIsRight, LastTells, None
<1> DEFINE o == open_start[c]
           e == [unit |-> c, start |-> o, end |-> Closes]
<1>15. /\ last_seen' = [last_seen EXCEPT ![c] = image]
       /\ open_start' = [open_start EXCEPT ![c] =
            IF ~latency[c] THEN None ELSE IF o = None THEN Opens(c) ELSE o]
       /\ closed' = IF latency[c] \/ o = None THEN closed ELSE Append(closed, e)
       /\ c' = c + stride
       /\ UNCHANGED <<offsets, periods, pc, error>>
  <2>1. ~(image <= last_seen[cursor])
    BY <1>5, <1>13, <1>14
  <2> QED BY <2>1 DEF Observe
<1>16. IsSeq(closed') /\ \A i \in 1 .. Len(closed') : closed'[i].unit \in Units
  <2>1. CASE latency[c] \/ o = None
    BY <1>6, <1>15, <2>1
  <2>2. CASE ~(latency[c] \/ o = None)
    <3>1. closed' = Append(closed, e) /\ e.unit = c
      BY <1>15, <2>2
    <3> HIDE DEF e
    <3>2. /\ IsSeq(closed') /\ Len(closed') = Len(closed) + 1 /\ Len(closed) \in Nat
          /\ \A i \in 1 .. Len(closed) : closed'[i] = closed[i]
          /\ closed'[Len(closed) + 1] = e
      BY <1>6, <3>1, AppendIsSeq
    <3>3. \A i \in 1 .. Len(closed') : i \in 1 .. Len(closed) \/ i = Len(closed) + 1
      BY <3>2
    <3> QED BY <1>1, <1>6, <3>1, <3>2, <3>3
  <2> QED BY <2>1, <2>2
<1>17. c' \in Nat
  BY <1>5, <1>15
<1>18. DOMAIN open_start' = Units /\ DOMAIN last_seen' = Units
  BY <1>6, <1>15
<1>19. Shape'
  BY <1>1, <1>2, <1>3, <1>4, <1>15, <1>16, <1>17, <1>18 DEF Shape, Running
<1>20. Loads'
  BY <1>1, <1>2, <1>3, <1>4, <1>15 DEF Loads, Running, StartParity
<1>21. \A u : LoadsOf(u)' = LoadsOf(u)
  BY <1>1 DEF LoadsOf
<1>22. Scheduled'
  BY <1>1, <1>2, <1>3, <1>4, <1>15, <1>21 DEF Scheduled, Running
<1>23. (c + stride) % stride = c % stride
  BY <1>5, SamePhase
<1>24. Scattered'
  BY <1>1, <1>2, <1>3, <1>4, <1>15, <1>21, <1>23 DEF Scattered
<1>25. Right'
  <2>1. ASSUME NEW u \in Units
        PROVE  UnitIsRight(Told(u)', open_start'[u], last_seen'[u], closed', u)
    <3>1. Told(u)' = IF c + stride <= u THEN {y \in LoadsOf(u) : y.image # image}
                                        ELSE LoadsOf(u)
      BY <1>1, <1>15, <1>21 DEF Told
    <3>2. CASE u = c
      <4>1. Told(u)' = Told(c) \cup {x}
        BY <1>5, <1>12, <3>1, <3>2
      <4>2. open_start'[c] = IF ~x.hit THEN None
                             ELSE IF o = None THEN IF last_seen[c] = None THEN 0 ELSE x.image
                             ELSE o
        BY <1>1, <1>6, <1>10, <1>11, <1>15 DEF Opens
      <4>3. closed' = IF x.hit \/ o = None THEN closed
                      ELSE Append(closed, [unit |-> c, start |-> o, end |-> x.image - 1])
        BY <1>10, <1>11, <1>15 DEF Closes
      <4>4. last_seen'[c] = x.image
        BY <1>1, <1>6, <1>10, <1>15
      <4>5. x.image \in Nat /\ last_seen[c] < x.image
        BY <1>5, <1>10, <1>13
      <4>6. UnitIsRight(Told(c), o, last_seen[c], closed, c)
        BY <1>1, <1>7
      <4> HIDE DEF c, o
      <4>7. UnitIsRight(Told(c) \cup {x}, open_start'[c], x.image, closed', c)
        BY <1>6, <4>2, <4>3, <4>5, <4>6, ObserveUnit
      <4> QED BY <3>2, <4>1, <4>4, <4>7
    <3>3. CASE u # c
      <4>1. Told(u)' = Told(u)
        <5>1. Told(u) = IF c <= u THEN {y \in LoadsOf(u) : y.image # image} ELSE LoadsOf(u)
          BY <1>1 DEF Told
        <5>2. CASE c + stride <= u
          <6>1. c <= u
            BY <1>5, <5>2
          <6> QED BY <3>1, <5>1, <5>2, <6>1
        <5>3. CASE ~(c + stride <= u) /\ c <= u
          <6>1. u % stride # c % stride
            <7>1. ASSUME u % stride = c % stride PROVE FALSE
              <8> DEFINE q == c \div stride
                         t == u \div stride
                         r == c % stride
              <8>1. /\ c = stride * q + r /\ q \in Nat /\ r \in 0 .. stride - 1
                    /\ u = stride * t + r /\ t \in Nat
                BY <1>5, <7>1, Division
              <8> HIDE DEF q, t, r
              <8>2. stride * q \in Nat /\ stride * t \in Nat
                BY <1>5, <8>1
              <8>3. c < u /\ u < c + stride
                BY <1>5, <3>3, <5>3
              <8>4. q < t
                <9>1. ASSUME t <= q PROVE stride * t <= stride * q
                  BY <1>5, <8>1, <9>1
                <9>2. ~(t <= q)
                  BY <8>1, <8>2, <8>3, <9>1
                <9> QED BY <8>1, <9>2
              <8>5. stride * (q + 1) <= stride * t
                BY <1>5, <8>1, <8>4
              <8>6. stride * (q + 1) = stride * q + stride
                BY <1>5, <8>1
              <8> QED BY <1>5, <8>1, <8>2, <8>3, <8>5, <8>6
            <7> QED BY <7>1
          <6>2. \A y \in LoadsOf(u) : y.image # image
            BY <1>1, <1>4, <6>1 DEF Scattered
          <6> QED BY <3>1, <5>1, <5>3, <6>2
        <5>4. CASE ~(c <= u)
          <6>1. ~(c + stride <= u)
            BY <1>5, <5>4
          <6> QED BY <3>1, <5>1, <5>4, <6>1
        <5> QED BY <5>2, <5>3, <5>4
      <4>2. open_start'[u] = open_start[u] /\ last_seen'[u] = last_seen[u]
        BY <1>6, <1>15, <3>3
      <4>3. UnitIsRight(Told(u), open_start[u], last_seen[u], closed, u)
        BY <1>7
      <4>4. CASE latency[c] \/ o = None
        BY <1>15, <4>1, <4>2, <4>3, <4>4
      <4>5. CASE ~(latency[c] \/ o = None)
        <5>1. closed' = Append(closed, e) /\ e.unit # u
          BY <1>15, <3>3, <4>5
        <5> HIDE DEF e
        <5>2. UnitIsRight(Told(u), open_start[u], last_seen[u], Append(closed, e), u)
          BY <1>6, <4>3, <5>1, ObserveOther
        <5> QED BY <4>1, <4>2, <5>1, <5>2
      <4> QED BY <4>4, <4>5
    <3> QED BY <3>2, <3>3
  <2> QED BY <1>3, <2>1 DEF Right
<1>26. Indexed'
  BY <1>1, <1>15 DEF Indexed
<1> QED BY <1>19, <1>20, <1>22, <1>24, <1>25, <1>26 DEF ResidencyInv

\* The map is written.
LEMMA FinishStep ==
  ASSUME ResidencyInv, Finish
  PROVE  ResidencyInv'
<1> DEFINE t == AllClosed
           N == total_units(layout)
<1>1. /\ pc = "boundary" /\ pc' = "written" /\ image = Images
      /\ periods' = ByUnit(t) /\ offsets' = Offsets(t)
      /\ UNCHANGED <<proberVars, pass, image, sweeps, cursor, seen, error>>
  BY DEF Finish
<1>2. UNCHANGED <<layout, passes, stride, device, latency>>
  BY <1>1 DEF proberVars
<1>3. Units' = Units /\ (total_units(layout))' = N
  BY <1>2, SameUnits
<1>4. /\ Shape /\ Loads /\ Right
  BY DEF ResidencyInv
<1>5. /\ N \in Nat /\ Images \in Nat \ {0} /\ Units = 0 .. N - 1
      /\ \A u \in Units : u \in Nat /\ u < N
  BY <1>4, Basics
<1>6. /\ IsSeq(closed) /\ \A i \in 1 .. Len(closed) : closed[i].unit \in Units
  BY <1>1, <1>4 DEF Shape, Running
<1>7. ASSUME NEW u \in Units
      PROVE  /\ \A i \in 1 .. Len(t) : t[i].unit = u => PeriodIsRight(LoadsOf(u), t[i])
             /\ \A i, j \in 1 .. Len(t) :
                  i < j /\ t[i].unit = u /\ t[j].unit = u => t[i].end + 1 < t[j].start
             /\ \A im \in 0 .. Images - 1 :
                  Rule(LoadsOf(u), im) <=>
                    \E i \in 1 .. Len(t) : t[i].unit = u /\ t[i].start <= im /\ im <= t[i].end
  <2>1. Told(u) = LoadsOf(u)
    BY <1>1 DEF Told
  <2>2. UnitIsRight(LoadsOf(u), open_start[u], last_seen[u], closed, u)
    BY <1>1, <1>4, <2>1 DEF Right, Running
  <2>3. \A x \in LoadsOf(u) : x.image < Images
    BY <1>4 DEF Loads, LoadsOf
  <2> QED BY <1>5, <1>6, <2>2, <2>3, FinishUnit
<1>8. IsSeq(t) /\ \A i \in 1 .. Len(t) : t[i].unit \in Units
  <2> HIDE DEF t
  <2>1. /\ IsSeq(t) /\ Len(closed) \in Nat /\ Len(t) \in Nat /\ Len(closed) <= Len(t)
        /\ \A i \in 1 .. Len(closed) : t[i] = closed[i]
        /\ \A i \in Len(closed) + 1 .. Len(t) : \E u \in OpenUnits : t[i] = ToTheEnd(u)
    <3>1. t = AllClosed
      BY DEF t
    <3> QED BY <1>5, <1>6, <3>1, AllClosedAdds
  <2>2. \A u \in OpenUnits : u \in Units /\ ToTheEnd(u).unit = u
    BY DEF OpenUnits, ToTheEnd
  <2>3. \A i \in 1 .. Len(t) : i \in 1 .. Len(closed) \/ i \in Len(closed) + 1 .. Len(t)
    BY <2>1
  <2> QED BY <1>6, <2>1, <2>2, <2>3
<1> DEFINE p == periods'
           off == offsets'
<1>9. /\ IsSeq(p) /\ Len(p) = Len(t) /\ Len(p) \in Nat
      /\ off[0] = 0 /\ off[N] = Len(p)
      /\ \A u \in 0 .. N : off[u] \in Nat /\ off[u] <= Len(p)
      /\ \A u \in Units : off[u] <= off[u + 1]
      /\ \A i \in 1 .. Len(t) : \E k \in 1 .. Len(p) : p[k] = t[i]
      /\ \A k \in 1 .. Len(p) : \E i \in 1 .. Len(t) : p[k] = t[i]
      /\ \A u \in Units : \A k \in 1 .. Len(p) :
           k \in off[u] + 1 .. off[u + 1] <=> p[k].unit = u
      /\ \A k, m \in 1 .. Len(p) : k < m /\ p[k].unit = p[m].unit =>
           \E i, j \in 1 .. Len(t) : i < j /\ p[k] = t[i] /\ p[m] = t[j]
  <2>1. IsIndex(t, p, off)
    <3> HIDE DEF t
    <3> QED BY <1>1, <1>5, <1>8, ByUnitIndexes
  <2> HIDE DEF p, off, t
  <2> QED BY <2>1 DEF IsIndex
<1> HIDE DEF t
<1>10. \A u : LoadsOf(u)' = LoadsOf(u)
  BY <1>1 DEF LoadsOf
<1>11. Shape'
  BY <1>1, <1>2, <1>3, <1>4 DEF Shape, Running
<1>12. Loads'
  BY <1>1, <1>2, <1>3, <1>4 DEF Loads, Running, StartParity
<1>13. Scheduled' /\ Scattered' /\ Right'
  BY <1>1 DEF Scheduled, Scattered, Right, Running
<1>14. ASSUME NEW u \in Units
       PROVE  /\ off[u] \in Nat /\ off[u + 1] \in Nat
              /\ off[u] <= off[u + 1] /\ off[u + 1] <= Len(p)
              /\ \A k \in off[u] + 1 .. off[u + 1] : PeriodIsRight(LoadsOf(u), p[k])
              /\ \A k, m \in off[u] + 1 .. off[u + 1] : k < m => p[k].end + 1 < p[m].start
              /\ \A im \in 0 .. Images - 1 :
                   Rule(LoadsOf(u), im) <=> \E k \in off[u] + 1 .. off[u + 1] :
                                              p[k].start <= im /\ im <= p[k].end
  <2> HIDE DEF p, off, N
  <2>1. u \in 0 .. N /\ u + 1 \in 0 .. N
    BY <1>5
  <2>2. off[u] \in Nat /\ off[u + 1] \in Nat /\ off[u] <= off[u + 1] /\ off[u + 1] <= Len(p)
    BY <1>9, <2>1
  <2>3. \A k \in off[u] + 1 .. off[u + 1] : k \in 1 .. Len(p) /\ p[k].unit = u
    <3> TAKE k \in off[u] + 1 .. off[u + 1]
    <3>1. k \in 1 .. Len(p)
      BY <1>9, <2>2
    <3> QED BY <1>9, <3>1
  <2>4. \A k \in off[u] + 1 .. off[u + 1] : PeriodIsRight(LoadsOf(u), p[k])
    <3> TAKE k \in off[u] + 1 .. off[u + 1]
    <3>1. PICK i \in 1 .. Len(t) : p[k] = t[i]
      BY <1>9, <2>3
    <3> QED BY <1>7, <2>3, <3>1
  <2>5. ASSUME NEW k \in off[u] + 1 .. off[u + 1], NEW m \in off[u] + 1 .. off[u + 1], k < m
        PROVE  p[k].end + 1 < p[m].start
    <3>1. PICK i \in 1 .. Len(t), j \in 1 .. Len(t) : i < j /\ p[k] = t[i] /\ p[m] = t[j]
      <4>1. \A a, b \in 1 .. Len(p) : a < b /\ p[a].unit = p[b].unit =>
              \E i, j \in 1 .. Len(t) : i < j /\ p[a] = t[i] /\ p[b] = t[j]
        BY <1>9
      <4>2. k \in 1 .. Len(p) /\ m \in 1 .. Len(p) /\ p[k].unit = p[m].unit
        BY <2>3
      <4> QED BY <2>5, <4>1, <4>2
    <3> QED BY <1>7, <2>3, <3>1
  <2>6. ASSUME NEW im \in 0 .. Images - 1
        PROVE  Rule(LoadsOf(u), im) <=> \E k \in off[u] + 1 .. off[u + 1] :
                                          p[k].start <= im /\ im <= p[k].end
    <3>1. ASSUME NEW i \in 1 .. Len(t), t[i].unit = u, t[i].start <= im, im <= t[i].end
          PROVE  \E k \in off[u] + 1 .. off[u + 1] : p[k].start <= im /\ im <= p[k].end
      <4>1. PICK k \in 1 .. Len(p) : p[k] = t[i]
        BY <1>9
      <4>2. k \in off[u] + 1 .. off[u + 1]
        BY <1>9, <3>1, <4>1
      <4> QED BY <3>1, <4>1, <4>2
    <3>2. ASSUME NEW k \in off[u] + 1 .. off[u + 1], p[k].start <= im, im <= p[k].end
          PROVE  \E i \in 1 .. Len(t) : t[i].unit = u /\ t[i].start <= im /\ im <= t[i].end
      <4>1. PICK i \in 1 .. Len(t) : p[k] = t[i]
        BY <1>9, <2>3
      <4> QED BY <2>3, <3>2, <4>1
    <3> QED BY <1>7, <3>1, <3>2
  <2> QED BY <2>2, <2>4, <2>5, <2>6
<1>15. Indexed'
  <2> SUFFICES ASSUME NEW u \in Units
               PROVE  /\ off[u] \in Nat /\ off[u + 1] \in Nat
                      /\ off[u] <= off[u + 1] /\ off[u + 1] <= Len(p)
                      /\ \A k \in off[u] + 1 .. off[u + 1] : PeriodIsRight(LoadsOf(u), p[k])
                      /\ \A k, m \in off[u] + 1 .. off[u + 1] : k < m => p[k].end + 1 < p[m].start
                      /\ \A im \in 0 .. Images - 1 : Resident(u, im)' <=> Rule(LoadsOf(u), im)
    BY <1>3, <1>9, <1>10 DEF Indexed
  <2> QED BY <1>14 DEF Resident
<1> QED BY <1>11, <1>12, <1>13, <1>15 DEF ResidencyInv

\* A pass of its own: no load, no period.
LEMMA NextPassStep ==
  ASSUME ResidencyInv, NextPass
  PROVE  ResidencyInv'
<1>1. /\ pc' = "boundary" /\ pass' = pass + 1 /\ image' = 0 /\ sweeps' = 0 /\ seen' = {}
      /\ UNCHANGED <<proberVars, cursor, error>>
      /\ open_start' = [u \in Units |-> None] /\ last_seen' = [u \in Units |-> None]
      /\ closed' = <<>>
  BY DEF NextPass, NewBuilder
<1>2. UNCHANGED <<layout, passes, stride, device, latency>>
  BY <1>1 DEF proberVars
<1>3. Units' = Units
  BY <1>2, SameUnits
<1>4. Len(<<>>) = 0 /\ IsSeq(<<>>)
  BY Unprobed
<1>5. Shape'
  <2>1. Shape
    BY DEF ResidencyInv
  <2>2. pass \in Nat /\ Images \in Nat
    BY <2>1, Basics DEF Shape
  <2>3. pass' \in Nat /\ image' \in Nat /\ sweeps' \in Nat /\ image' <= Images
    BY <1>1, <2>2
  <2>4. /\ DOMAIN open_start' = Units /\ DOMAIN last_seen' = Units
        /\ IsSeq(closed') /\ \A i \in 1 .. Len(closed') : closed'[i].unit \in Units
    BY <1>1, <1>4
  <2> QED BY <1>1, <1>2, <1>3, <2>1, <2>3, <2>4 DEF Shape, Running
<1>6. Loads' /\ Scattered' /\ Indexed'
  BY <1>1 DEF Loads, Scattered, Indexed
<1>7. Scheduled'
  <2>1. image' <= sweeps' * Every /\ sweeps' * Every < image' + Every
    BY <1>1, ProbeAssumption
  <2>2. 0 .. sweeps' - 1 = {}
    BY <1>1
  <2> QED BY <1>1, <2>1, <2>2 DEF Scheduled
<1>8. Right'
  <2> SUFFICES ASSUME NEW u \in Units
               PROVE  UnitIsRight(Told(u)', open_start'[u], last_seen'[u], closed', u)
    BY <1>3 DEF Right
  <2>1. Told(u)' = {}
    BY <1>1 DEF Told, LoadsOf
  <2>2. open_start'[u] = None /\ last_seen'[u] = None /\ closed' = <<>>
    BY <1>1
  <2> QED BY <2>1, <2>2, Unprobed
<1> QED BY <1>5, <1>6, <1>7, <1>8 DEF ResidencyInv

\* Every step of the probe pass.
LEMMA ProbingStep ==
  ASSUME ResidencyInv, Probing
  PROVE  ResidencyInv'
<1>1. \/ Refuse \/ InferThrows
      \/ ConstructFixed \/ ConstructAuto
      \/ Sweep \/ NoSweep \/ Observe \/ Observed
      \/ Infer \/ Finish \/ NextPass
  BY DEF Probing
<1> QED
  BY <1>1, ThrowStep, ConstructStep, SweepStep, NoSweepStep, ObserveStep, ObservedStep,
     InferStep, FinishStep, NextPassStep

\* And none.
LEMMA ProbeStutter ==
  ASSUME ResidencyInv, UNCHANGED vars
  PROVE  ResidencyInv'
<1>1. /\ UNCHANGED <<layout, passes, stride, device, latency, phase, last_reverse, pass, image>>
      /\ UNCHANGED <<sweeps, cursor, open_start, last_seen, closed, offsets, periods, seen, pc,
                     error>>
  BY DEF vars, proberVars, builderVars
<1>2. Units' = Units
  BY <1>1, SameUnits
<1>3. \A u : LoadsOf(u)' = LoadsOf(u) /\ Told(u)' = Told(u)
  BY <1>1 DEF LoadsOf, Told
<1>4. Shape'
  BY <1>1, <1>2 DEF ResidencyInv, Shape, Running
<1>5. Loads'
  BY <1>1, <1>2 DEF ResidencyInv, Loads, Running, StartParity
<1>6. Scheduled'
  BY <1>1, <1>2, <1>3 DEF ResidencyInv, Scheduled, Running
<1>7. Scattered'
  BY <1>1, <1>2, <1>3 DEF ResidencyInv, Scattered
<1>8. Right'
  BY <1>1, <1>2, <1>3 DEF ResidencyInv, Right, Running
<1>9. Indexed'
  BY <1>1, <1>2, <1>3 DEF ResidencyInv, Indexed, Resident
<1> QED BY <1>4, <1>5, <1>6, <1>7, <1>8, <1>9 DEF ResidencyInv

-----------------------------------------------------------------------------
(* What the readers of a written map find.                                 *)

\* The periods of a unit as the reader slices them.
LEMMA OwnPeriods ==
  ASSUME ResidencyInv, pc = "written", NEW u \in Units
  PROVE  /\ Len(PeriodsOf(u)) \in Nat
         /\ DOMAIN PeriodsOf(u) = 1 .. Len(PeriodsOf(u))
         /\ \A i \in 1 .. Len(PeriodsOf(u)) :
              /\ offsets[u] + i \in offsets[u] + 1 .. offsets[u + 1]
              /\ PeriodsOf(u)[i] = periods[offsets[u] + i]
<1>1. /\ IsSeq(periods) /\ offsets[u] \in Nat /\ offsets[u + 1] \in Nat
      /\ offsets[u] <= offsets[u + 1] /\ offsets[u + 1] <= Len(periods)
  BY DEF ResidencyInv, Indexed
<1> DEFINE a == offsets[u]
           b == offsets[u + 1]
           own == SubSeq(periods, a + 1, b)
<1>2. a \in Nat /\ b \in Nat /\ a <= b /\ b <= Len(periods) /\ periods \in Seq(ToSet(periods))
  BY <1>1 DEF IsSeq
<1> HIDE DEF a, b
<1>3. /\ Len(own) = b - a /\ DOMAIN own = 1 .. b - a
      /\ \A i \in 1 .. b - a : own[i] = periods[a + i]
  BY <1>2
<1> HIDE DEF own
<1>4. Len(own) \in Nat /\ \A i \in 1 .. Len(own) : a + i \in a + 1 .. b
  BY <1>2, <1>3
<1>5. PeriodsOf(u) = own
  BY DEF PeriodsOf, own, a, b
<1> QED BY <1>3, <1>4, <1>5 DEF a, b

\* The rule of the header and the one of the map agree.
LEMMA MapTells ==
  ASSUME ResidencyInv, pc = "written", NEW u \in Units, NEW im \in 0 .. (Images - 1)
  PROVE  Resident(u, im) <=> ProbedResident(u, im)
<1>1. ProbedResident(u, im) <=> Rule(LoadsOf(u), im)
  BY DEF ProbedResident, Rule
<1> QED BY <1>1 DEF ResidencyInv, Indexed

\* A load that missed is the end.
LEMMA MissTells ==
  ASSUME ResidencyInv, NEW u \in Units, NEW x \in LoadsOf(u), ~x.hit
  PROVE  ~ProbedResident(u, x.image)
<1>1. \A y \in LoadsOf(u) : y \in seen /\ y.unit = u /\ y.image \in Nat
  BY DEF LoadsOf, ResidencyInv, Loads
<1>2. \A y \in LoadsOf(u) : y.image = x.image => y = x
  BY <1>1 DEF ResidencyInv, Loads
<1> DEFINE before == {y \in LoadsOf(u) : y.image <= x.image}
<1>3. x \in before
  BY <1>1
<1>4. ASSUME NEW y \in before, y.hit, \A z \in before : z.image <= y.image PROVE FALSE
  <2>1. x.image <= y.image /\ y.image <= x.image /\ y \in LoadsOf(u)
    BY <1>3, <1>4
  <2>2. y.image = x.image
    BY <1>1, <2>1
  <2> QED BY <1>2, <1>4, <2>1, <2>2
<1>5. ProbedResident(u, x.image) <=>
        \E y \in before : y.hit /\ \A z \in before : z.image <= y.image
  BY <1>3 DEF ProbedResident
<1> QED BY <1>4, <1>5

\* The map of a written pass.
LEMMA MapIsTrue ==
  ASSUME ResidencyInv
  PROVE  MapMatchesProbes /\ (Written => PeriodsInOrder /\ DirectionTold)
<1>1. MapMatchesProbes
  BY MapTells DEF MapMatchesProbes, Written
<1>2. ASSUME pc = "written" PROVE PeriodsInOrder
  <2>1. \A u \in Units : \A k \in offsets[u] + 1 .. offsets[u + 1] :
          LET t == periods[k]
          IN t.start \in Nat /\ t.end \in Nat /\ t.start <= t.end /\ t.end < Images
    BY <1>2 DEF ResidencyInv, Indexed, PeriodIsRight
  <2>2. ASSUME NEW u \in Units
        PROVE  LET own == PeriodsOf(u)
               IN \A i \in 1 .. Len(own) :
                    /\ 0 <= own[i].start /\ own[i].start <= own[i].end
                    /\ own[i].end < Images
                    /\ i > 1 => own[i].start > own[i - 1].end + 1
    <3> DEFINE own == PeriodsOf(u)
               a == offsets[u]
               b == offsets[u + 1]
    <3>1. /\ Len(own) \in Nat
          /\ \A i \in 1 .. Len(own) : a + i \in a + 1 .. b /\ own[i] = periods[a + i]
      BY <1>2, OwnPeriods
    <3>2. \A k, m \in a + 1 .. b : k < m => periods[k].end + 1 < periods[m].start
      BY <1>2 DEF ResidencyInv, Indexed
    <3>3. \A k \in a + 1 .. b : /\ periods[k].start \in Nat /\ periods[k].end \in Nat
                                /\ periods[k].start <= periods[k].end /\ periods[k].end < Images
      BY <2>1
    <3>4. a \in Nat
      BY <1>2 DEF ResidencyInv, Indexed
    <3> HIDE DEF own, a, b
    <3>5. ASSUME NEW i \in 1 .. Len(own), i > 1 PROVE own[i].start > own[i - 1].end + 1
      <4>1. i - 1 \in 1 .. Len(own) /\ a + (i - 1) < a + i
        BY <3>1, <3>4, <3>5
      <4>2. own[i] = periods[a + i] /\ own[i - 1] = periods[a + (i - 1)]
        BY <3>1, <4>1
      <4>3. a + i \in a + 1 .. b /\ a + (i - 1) \in a + 1 .. b
        BY <3>1, <4>1
      <4>4. periods[a + (i - 1)].end + 1 < periods[a + i].start
        BY <3>2, <4>1, <4>3
      <4> QED BY <3>3, <4>2, <4>3, <4>4
    <3>6. \A i \in 1 .. Len(own) : 0 <= own[i].start /\ own[i].start <= own[i].end
                                   /\ own[i].end < Images
      BY <3>1, <3>3
    <3> QED BY <3>5, <3>6 DEF own
  <2>3. /\ offsets[0] = 0 /\ offsets[total_units(layout)] = Len(periods)
        /\ \A u \in Units : offsets[u] <= offsets[u + 1]
    BY <1>2 DEF ResidencyInv, Indexed
  <2> QED BY <2>2, <2>3 DEF PeriodsInOrder
<1>3. ASSUME pc = "written", NEW u \in Units, NEW i \in 1 .. Len(PeriodsOf(u)),
             PeriodsOf(u)[i].start > 0
      PROVE  \E load \in LoadsOf(u) :
               /\ load.image = PeriodsOf(u)[i].start /\ load.hit
               /\ load.reverse = (Alternate /\ StartParity(PeriodsOf(u)[i].start) = 1)
  <2> DEFINE t == PeriodsOf(u)[i]
  <2>1. PeriodIsRight(LoadsOf(u), t)
    BY <1>3, OwnPeriods DEF ResidencyInv, Indexed
  <2>2. PICK x \in LoadsOf(u) : x.image = t.start /\ x.hit
    BY <1>3, <2>1 DEF PeriodIsRight, Started
  <2>3. x.reverse = (Alternate /\ StartParity(x.image) = 1)
    BY DEF LoadsOf, ResidencyInv, Loads
  <2> QED BY <2>2, <2>3
<1>4. pc = "written" => DirectionTold
  BY <1>3 DEF DirectionTold
<1> QED BY <1>1, <1>2, <1>4 DEF Written

\* While the images are inferred.
LEMMA OnSchedule ==
  ASSUME ResidencyInv
  PROVE  SweepsOnSchedule
<1> DEFINE e == Every
           s == stride
           n == sweeps
<1>1. /\ Shape /\ Loads /\ Scheduled
  BY DEF ResidencyInv
<1>2. /\ e \in Nat \ {0} /\ s \in Nat \ {0} /\ n \in Nat /\ image \in Nat
      /\ \A u \in Units : u \in Nat
  BY <1>1, Basics DEF Shape
<1>3. error # "observations of a unit must strictly increase"
  BY <1>1 DEF Shape
<1>4. ASSUME pc = "infer", image + 1 >= Every * stride, NEW u \in Units
      PROVE  \E load \in LoadsOf(u) : load.image > image - Every * stride
  <2>1. image < n * e /\ \A j \in 0 .. n - 1 : u % s = j % s =>
                           \E x \in LoadsOf(u) : x.image = j * e
    BY <1>1, <1>4 DEF Scheduled, Running
  <2>2. image + 1 >= e * s /\ n * e = e * n
    BY <1>2, <1>4
  <2>3. e * n \in Nat /\ e * s \in Nat
    BY <1>2
  <2>4. e * s <= e * n
    BY <1>2, <2>1, <2>2, <2>3
  <2> HIDE DEF e, s, n
  <2>5. s <= n
    <3>1. ASSUME n < s PROVE FALSE
      <4>1. e * (n + 1) <= e * s
        BY <1>2, <3>1
      <4>2. e * (n + 1) = e * n + e
        BY <1>2
      <4> QED BY <1>2, <2>3, <2>4, <4>1, <4>2
    <3> QED BY <1>2, <3>1
  <2>6. u % s \in 0 .. s - 1
    BY <1>2, Division
  <2>7. PICK j \in n - s .. n - 1 : j \in Nat /\ j % s = u % s
    BY ZenonT(40), <1>2, <2>5, <2>6, EveryPhase
  <2>8. PICK x \in LoadsOf(u) : x.image = j * e
    BY <2>1, <2>7
  <2>9. j * e > image - e * s
    <3>1. e * n <= e * (j + s)
      BY <1>2, <2>7
    <3>2. e * (j + s) = e * j + e * s /\ e * j = j * e /\ j * e \in Nat
      BY <1>2, <2>7
    <3> QED BY <1>2, <2>1, <2>2, <2>3, <3>1, <3>2
  <2> QED BY <2>8, <2>9 DEF e, s
<1> QED BY <1>3, <1>4 DEF SweepsOnSchedule

-----------------------------------------------------------------------------
(* The sites of the trial.                                                 *)

Classified == \A i \in 1 .. Len(layout) : layout[i].cls \in Classes

SameCell(s, t) == s.address = t.address /\ s.bit = t.bit

\* Sites are drawn from the map of a campaign, which stays, and never two for the
\* same cell and image.
SitesRight ==
  /\ spc \in {"idle", "draw", "sampled", "refused"}
  /\ spc # "idle" => pc = "written" /\ passes = 1
  /\ spc = "draw" \/ sites # <<>> => Classified
  /\ spc = "idle" => sites = <<>>
  /\ IsSeq(sites)
  /\ \A k \in 1 .. Len(sites) : sites[k] \in Drawn
  /\ \A j, k \in 1 .. Len(sites) : j < k /\ SameCell(sites[j], sites[k]) =>
       \/ sites[k].last_image < sites[j].start_image
       \/ sites[k].start_image > sites[j].last_image

SamplerInv == ResidencyInv /\ SitesRight

\* What is drawn is a place in the map.
LEMMA DrawnIs ==
  ASSUME NEW s \in Drawn
  PROVE  /\ s.unit \in Units /\ s.period \in ToSet(PeriodsOf(s.unit))
         /\ s.start_image \in s.period.start .. s.period.end
         /\ s.address \in Window(layout, s.unit)
         /\ s.last_image = LastImage(s.unit, s.start_image, s.period)
         /\ s.cache_class = Class(s.unit)
<1>1. PICK u \in Exposed : \E period \in ToSet(PeriodsOf(u)) :
        \E start \in period.start .. period.end, byte \in DrawableBytes(u), b \in Bits :
          s = [unit |-> u, period |-> period, address |-> byte, bit |-> b, start_image |-> start,
               last_image |-> LastImage(u, start, period), cache_class |-> Class(u)]
  BY DEF Drawn
<1>2. PICK period \in ToSet(PeriodsOf(u)) :
        \E start \in period.start .. period.end, byte \in DrawableBytes(u), b \in Bits :
          s = [unit |-> u, period |-> period, address |-> byte, bit |-> b, start_image |-> start,
               last_image |-> LastImage(u, start, period), cache_class |-> Class(u)]
  BY <1>1
<1>3. PICK start \in period.start .. period.end, byte \in DrawableBytes(u), b \in Bits :
        s = [unit |-> u, period |-> period, address |-> byte, bit |-> b, start_image |-> start,
             last_image |-> LastImage(u, start, period), cache_class |-> Class(u)]
  BY <1>2
<1>4. /\ s.unit = u /\ s.period = period /\ s.address = byte /\ s.start_image = start
      /\ s.last_image = LastImage(u, start, period) /\ s.cache_class = Class(u)
  BY <1>3
<1>5. u \in Units /\ byte \in Window(layout, u)
  BY DEF Exposed, DrawableBytes
<1> QED BY <1>4, <1>5

\* And the map says of it what the loads did.
LEMMA DrawnLives ==
  ASSUME ResidencyInv, pc = "written", Classified, NEW s \in Drawn
  PROVE  /\ Class(s.unit) \in Classes
         /\ s.start_image \in Nat /\ s.last_image \in Nat
         /\ s.start_image <= s.last_image /\ s.last_image <= s.period.end
         /\ s.last_image < Images
         /\ \A im \in s.start_image .. s.last_image : ProbedResident(s.unit, im)
         /\ s.period.end + 1 < Images => ~ProbedResident(s.unit, s.period.end + 1)
<1> DEFINE u == s.unit
           t == s.period
<1>1. /\ u \in Units /\ t \in ToSet(PeriodsOf(u)) /\ s.start_image \in t.start .. t.end
      /\ s.last_image = IF Class(u) = "read_only" THEN t.end ELSE s.start_image
  BY DrawnIs DEF LastImage
<1>2. PICK k \in offsets[u] + 1 .. offsets[u + 1] : t = periods[k]
  <2>1. PICK i \in 1 .. Len(PeriodsOf(u)) : t = PeriodsOf(u)[i]
    BY <1>1, OwnPeriods DEF ToSet
  <2> QED BY <1>1, <2>1, OwnPeriods
<1>3. PeriodIsRight(LoadsOf(u), t)
  BY <1>1, <1>2 DEF ResidencyInv, Indexed
<1>4. t.start \in Nat /\ t.end \in Nat /\ t.start <= t.end /\ t.end < Images
  BY <1>3 DEF PeriodIsRight
<1>5. Class(u) \in Classes
  <2>1. range_of(layout, u) \in 1 .. Len(layout)
    BY <1>1, LayoutsAreNumbered DEF ResidencyInv, Shape, Units
  <2> QED BY <2>1 DEF Classified, Class
<1> HIDE DEF u, t
<1>6. /\ s.start_image \in Nat /\ s.last_image \in Nat
      /\ t.start <= s.start_image /\ s.start_image <= s.last_image /\ s.last_image <= t.end
      /\ s.last_image < Images
  <2>1. CASE Class(u) = "read_only"
    <3>1. s.last_image = t.end
      BY <1>1, <2>1
    <3> QED BY <1>1, <1>4, <3>1, Basics DEF ResidencyInv
  <2>2. CASE Class(u) # "read_only"
    <3>1. s.last_image = s.start_image
      BY <1>1, <2>2
    <3> QED BY <1>1, <1>4, <3>1, Basics DEF ResidencyInv
  <2> QED BY <2>1, <2>2
<1>7. ASSUME NEW im \in s.start_image .. s.last_image PROVE ProbedResident(u, im)
  <2>1. Images \in Nat
    BY Basics DEF ResidencyInv
  <2>2. im \in 0 .. Images - 1 /\ t.start <= im /\ im <= t.end
    BY <1>4, <1>6, <2>1
  <2>3. Resident(u, im)
    BY <1>2, <2>2 DEF Resident
  <2> QED BY <1>1, <2>2, <2>3, MapTells
<1>8. ASSUME t.end + 1 < Images PROVE ~ProbedResident(u, t.end + 1)
  <2>1. PICK x \in LoadsOf(u) : x.image = t.end + 1 /\ ~x.hit
    BY <1>3, <1>8 DEF PeriodIsRight
  <2> QED BY <1>1, <2>1, MissTells
<1> QED BY <1>5, <1>6, <1>7, <1>8 DEF u, t

\* Once sites are drawn the map stays.
LEMMA MapStays ==
  ASSUME ResidencyInv, SitesRight, Probing
  PROVE  spc = "idle"
<1> SUFFICES ASSUME spc # "idle" PROVE FALSE
  OBVIOUS
<1>1. pc = "written" /\ passes = 1 /\ pass \in Nat
  BY DEF SitesRight, ResidencyInv, Shape
<1>2. NextPass
  BY <1>1 DEF Probing, Refuse, ConstructFixed, ConstructAuto, Sweep, NoSweep, Observe, Observed,
     Infer, InferThrows, Finish
<1> QED BY <1>1, <1>2 DEF NextPass

\* No site before the map.
LEMMA SamplerInitRight ==
  ASSUME SamplerInit
  PROVE  SamplerInv
<1>1. ResidencyInv
  BY InitRight DEF SamplerInit
<1>2. IsSeq(<<>>) /\ Len(<<>>) = 0
  BY Unprobed
<1>3. spc = "idle" /\ sites = <<>>
  BY DEF SamplerInit
<1>4. SitesRight
  BY <1>2, <1>3 DEF SitesRight
<1> QED BY <1>1, <1>4 DEF SamplerInv

\* The sites when the map does not change.
LEMMA SameDrawn ==
  ASSUME UNCHANGED vars
  PROVE  /\ Drawn' = Drawn /\ (Classified <=> Classified') /\ UNCHANGED <<pc, passes>>
<1>1. UNCHANGED <<layout, passes, offsets, periods, pc>>
  BY DEF vars, proberVars, builderVars
<1>2. \A u : PeriodsOf(u)' = PeriodsOf(u) /\ Class(u)' = Class(u)
  BY <1>1 DEF PeriodsOf, Class
<1>3. \A u : DrawableBytes(u)' = DrawableBytes(u)
  BY <1>1 DEF DrawableBytes
<1>4. Units' = Units
  BY <1>1, SameUnits
<1>5. Exposed' = Exposed
  BY <1>2, <1>4 DEF Exposed
<1>6. \A u, start, period : LastImage(u, start, period)' = LastImage(u, start, period)
  BY <1>2 DEF LastImage
<1>7. Drawn' = Drawn
  BY <1>2, <1>3, <1>5, <1>6 DEF Drawn
<1>8. Classified <=> Classified'
  BY <1>1 DEF Classified
<1> QED BY <1>1, <1>7, <1>8

\* sample_trial: the new site is none of the earlier ones' cells while they live.
LEMMA DrawStep ==
  ASSUME SitesRight, Draw
  PROVE  SitesRight'
<1>1. PICK site \in Drawn : ~Overlapping(site) /\ sites' = Append(sites, site)
  BY DEF Draw
<1>2. spc = "draw" /\ UNCHANGED vars /\ spc' = spc
  BY DEF Draw
<1>3. Drawn' = Drawn /\ (Classified <=> Classified') /\ UNCHANGED <<pc, passes>>
  BY <1>2, SameDrawn
<1> DEFINE n == Len(sites)
<1>4. /\ IsSeq(sites') /\ Len(sites') = n + 1 /\ n \in Nat
      /\ \A k \in 1 .. n : sites'[k] = sites[k]
      /\ sites'[n + 1] = site
  BY <1>1, AppendIsSeq DEF SitesRight
<1>5. \A k \in 1 .. n + 1 : k \in 1 .. n \/ k = n + 1
  BY <1>4
<1>6. \A k \in 1 .. n : SameCell(sites[k], site) =>
        site.last_image < sites[k].start_image \/ site.start_image > sites[k].last_image
  BY <1>1 DEF Overlapping, SameCell
<1>7. \A k \in 1 .. n : sites[k] \in Drawn
  BY DEF SitesRight
<1>8. \A j, k \in 1 .. n : j < k /\ SameCell(sites[j], sites[k]) =>
        \/ sites[k].last_image < sites[j].start_image
        \/ sites[k].start_image > sites[j].last_image
  BY DEF SitesRight
<1> HIDE DEF n
<1>9. \A k \in 1 .. Len(sites') : sites'[k] \in Drawn
  BY <1>4, <1>5, <1>7
<1>10. ASSUME NEW j \in 1 .. Len(sites'), NEW k \in 1 .. Len(sites'), j < k,
              SameCell(sites'[j], sites'[k])
       PROVE  \/ sites'[k].last_image < sites'[j].start_image
              \/ sites'[k].start_image > sites'[j].last_image
  <2>1. j \in 1 .. n
    BY <1>4, <1>5, <1>10
  <2>2. CASE k \in 1 .. n
    BY <1>4, <1>8, <1>10, <2>1, <2>2
  <2>3. CASE k = n + 1
    BY <1>4, <1>6, <1>10, <2>1, <2>3
  <2> QED BY <1>4, <1>5, <2>2, <2>3
<1>11. Classified /\ pc = "written" /\ passes = 1
  BY <1>2 DEF SitesRight
<1> QED BY <1>2, <1>3, <1>4, <1>9, <1>10, <1>11 DEF SitesRight, SameCell

\* The other steps leave the sites as they are.
LEMMA SameSites ==
  ASSUME SitesRight, Drawn' = Drawn, Classified <=> Classified', sites' = sites
  PROVE  /\ IsSeq(sites')
         /\ \A k \in 1 .. Len(sites') : sites'[k] \in Drawn'
         /\ \A j, k \in 1 .. Len(sites') : j < k /\ SameCell(sites'[j], sites'[k]) =>
              \/ sites'[k].last_image < sites'[j].start_image
              \/ sites'[k].start_image > sites'[j].last_image
         /\ sites' # <<>> => Classified'
  BY DEF SitesRight

\* Every step of the probe pass and of the orchestrator.
LEMMA SamplerStep ==
  ASSUME SamplerInv, [SamplerNext]_allVars
  PROVE  SamplerInv'
<1>1. ResidencyInv /\ SitesRight
  BY DEF SamplerInv
<1>2. CASE Probing /\ UNCHANGED samplerVars
  <2>1. ResidencyInv'
    BY <1>1, <1>2, ProbingStep
  <2>2. spc = "idle" /\ sites = <<>>
    BY <1>1, <1>2, MapStays DEF SitesRight
  <2>3. spc' = "idle" /\ sites' = <<>>
    BY <1>2, <2>2 DEF samplerVars
  <2>4. IsSeq(<<>>) /\ Len(<<>>) = 0
    BY Unprobed
  <2>5. SitesRight'
    BY <2>3, <2>4 DEF SitesRight
  <2> QED BY <2>1, <2>5 DEF SamplerInv
<1>3. CASE UNCHANGED vars /\ sites' = sites
             /\ \/ spc' = spc
                \/ spc' \in {"refused", "sampled"} /\ (spc = "draw" \/ MapReady)
                \/ LoadMap
  <2>1. ResidencyInv'
    BY <1>1, <1>3, ProbeStutter
  <2>2. Drawn' = Drawn /\ (Classified <=> Classified') /\ UNCHANGED <<pc, passes>>
    BY <1>3, SameDrawn
  <2>3. /\ IsSeq(sites')
        /\ \A k \in 1 .. Len(sites') : sites'[k] \in Drawn'
        /\ \A j, k \in 1 .. Len(sites') : j < k /\ SameCell(sites'[j], sites'[k]) =>
              \/ sites'[k].last_image < sites'[j].start_image
              \/ sites'[k].start_image > sites'[j].last_image
        /\ sites' # <<>> => Classified'
    BY <1>1, <1>3, <2>2, SameSites
  <2>4. /\ spc' \in {"idle", "draw", "sampled", "refused"}
        /\ spc' # "idle" => pc' = "written" /\ passes' = 1
        /\ spc' = "draw" => Classified'
        /\ spc' = "idle" => sites' = <<>>
    <3>1. CASE spc' = spc
      BY <1>1, <1>3, <2>2, <3>1 DEF SitesRight
    <3>2. CASE spc' \in {"refused", "sampled"} /\ (spc = "draw" \/ MapReady)
      BY <1>1, <2>2, <3>2 DEF SitesRight, MapReady
    <3>3. CASE LoadMap
      BY <2>2, <3>3 DEF LoadMap, MapReady, MapRefused, Classified
    <3> QED BY <1>3, <3>1, <3>2, <3>3
  <2>5. SitesRight'
    BY <2>3, <2>4 DEF SitesRight
  <2> QED BY <2>1, <2>5 DEF SamplerInv
<1>4. CASE Draw
  <2>1. UNCHANGED vars
    BY <1>4 DEF Draw
  <2> QED BY <1>1, <1>4, <2>1, ProbeStutter, DrawStep DEF SamplerInv
<1>5. CASE FileRefused \/ LoadRefused \/ SelfCheckFails
  BY <1>3, <1>5 DEF FileRefused, LoadRefused, SelfCheckFails
<1>6. CASE LoadMap
  BY <1>3, <1>6 DEF LoadMap
<1>7. CASE Redraw
  BY <1>3, <1>7 DEF Redraw
<1>8. CASE Verify
  BY <1>3, <1>8 DEF Verify
<1>9. CASE Stop \/ UNCHANGED allVars
  BY <1>3, <1>9 DEF Stop, allVars, samplerVars
<1> QED BY <1>2, <1>4, <1>5, <1>6, <1>7, <1>8, <1>9 DEF SamplerNext

\* The invariant that everything below rests on.
THEOREM MapInvariant == SamplerSpec => []SamplerInv
<1>1. SamplerInit => SamplerInv
  BY SamplerInitRight
<1>2. SamplerInv /\ [SamplerNext]_allVars => SamplerInv'
  BY SamplerStep
<1> QED BY <1>1, <1>2, PTL DEF SamplerSpec

-----------------------------------------------------------------------------
(* The theorems.                                                           *)

\* The written map says of every unit and image what the loads of the kernel said,
\* for any stride, period of the sweeps and outcome of the loads.
THEOREM MapFollowsLoads == SamplerSpec => []MapMatchesProbes
<1>1. SamplerInv => MapMatchesProbes
  BY MapIsTrue DEF SamplerInv
<1> QED BY <1>1, MapInvariant, PTL

\* load_map never refuses a written map: the index and the periods are in order, each
\* unit has bytes of its own, and all of them together are the bytes of the ranges;
\* and the direction of a period's first sweep follows from its first image.
THEOREM MapIsAccepted == SamplerSpec => []MapAccepted
<1>1. ASSUME SamplerInv PROVE MapAccepted
  <2>1. Written => PeriodsInOrder /\ DirectionTold
    BY <1>1, MapIsTrue DEF SamplerInv
  <2>2. layout \in Seq(ProbeRange)
    BY <1>1, ProbeAssumption DEF SamplerInv, ResidencyInv, Shape
  <2>3. SurfaceCovered
    BY <2>2, SurfaceIsShared, Zenon DEF SurfaceCovered, Units
  <2> QED BY <2>1, <2>3 DEF MapAccepted, load_map
<1> QED BY <1>1, MapInvariant, PTL

\* observe never throws, and when an image is inferred every unit has been probed
\* within the last Every * stride images.
THEOREM ProbedInTime == SamplerSpec => []SweepsOnSchedule
<1>1. SamplerInv => SweepsOnSchedule
  BY OnSchedule DEF SamplerInv
<1> QED BY <1>1, MapInvariant, PTL

\* A cache fault is a fault of something that is in the cache.
THEOREM FaultsAreInTheCache == SamplerSpec => []FlipsWhileResident
<1>1. ASSUME SamplerInv PROVE FlipsWhileResident
  <2> SUFFICES ASSUME NEW k \in 1 .. Len(sites)
               PROVE  LET site == sites[k] IN
                      /\ site.address \in Window(layout, site.unit)
                      /\ \A im \in site.start_image .. site.last_image :
                           ProbedResident(site.unit, im)
                      /\ IF Class(site.unit) = "engine_written"
                           THEN site.last_image = site.start_image
                           ELSE site.last_image + 1 < Images =>
                                  ~ProbedResident(site.unit, site.last_image + 1)
    BY DEF FlipsWhileResident
  <2> DEFINE site == sites[k]
  <2>1. SitesRight /\ ResidencyInv
    BY <1>1 DEF SamplerInv
  <2>2. sites # <<>>
    <3>1. Len(<<>>) = 0
      BY Unprobed
    <3> QED BY <3>1
  <2>3. pc = "written" /\ Classified /\ site \in Drawn
    BY <2>1, <2>2 DEF SitesRight
  <2> HIDE DEF site
  <2>4. /\ site.address \in Window(layout, site.unit)
        /\ site.last_image = LastImage(site.unit, site.start_image, site.period)
    BY <2>3, DrawnIs
  <2>5. /\ Class(site.unit) \in Classes
        /\ \A im \in site.start_image .. site.last_image : ProbedResident(site.unit, im)
        /\ site.period.end + 1 < Images => ~ProbedResident(site.unit, site.period.end + 1)
    BY <2>1, <2>3, DrawnLives
  <2>6. CASE Class(site.unit) = "engine_written"
    <3>1. site.last_image = site.start_image
      BY <2>4, <2>6 DEF LastImage
    <3> QED BY <2>4, <2>5, <2>6, <3>1 DEF site
  <2>7. CASE Class(site.unit) = "read_only"
    <3>1. site.last_image = site.period.end
      BY <2>4, <2>7 DEF LastImage
    <3> QED BY <2>4, <2>5, <2>7, <3>1 DEF site
  <2> QED BY <2>5, <2>6, <2>7 DEF Classes
<1> QED BY <1>1, MapInvariant, PTL

\* The independent verification and the runner accept every trial the sampler draws.
THEOREM TrialsAccepted == SamplerSpec => []SampleAccepted
<1>1. ASSUME SamplerInv, spc = "draw", Len(sites) = n_cache
      PROVE  verify_cache_work /\ read_cache_work
  <2>1. SitesRight /\ ResidencyInv /\ pc = "written" /\ Classified
    BY <1>1 DEF SamplerInv, SitesRight
  <2>2. ASSUME NEW k \in 1 .. Len(sites)
        PROVE  LET site == sites[k]
                   range == layout[range_of(layout, site.unit)]
               IN /\ site.period \in ToSet(PeriodsOf(site.unit))
                  /\ site.period.start <= site.start_image
                  /\ site.start_image <= site.period.end
                  /\ site.last_image =
                       IF range.cls = "read_only" THEN site.period.end ELSE site.start_image
                  /\ site.cache_class = range.cls
                  /\ range.base <= site.address /\ site.address < End(range)
                  /\ site.cache_class \in Classes
                  /\ site.start_image <= site.last_image
                  /\ site.last_image < Images
    <3> DEFINE site == sites[k]
    <3>1. site \in Drawn
      BY <2>1 DEF SitesRight
    <3> HIDE DEF site
    <3>2. /\ site.period \in ToSet(PeriodsOf(site.unit))
          /\ site.start_image \in site.period.start .. site.period.end
          /\ site.address \in Window(layout, site.unit)
          /\ site.last_image = LastImage(site.unit, site.start_image, site.period)
          /\ site.cache_class = Class(site.unit)
      BY <3>1, DrawnIs
    <3>3. /\ Class(site.unit) \in Classes
          /\ site.start_image <= site.last_image /\ site.last_image < Images
      BY <2>1, <3>1, DrawnLives
    <3> DEFINE range == layout[range_of(layout, site.unit)]
    <3>4. range.base <= site.address /\ site.address < End(range)
      BY <3>2 DEF Window
    <3>5. Class(site.unit) = range.cls
      BY DEF Class
    <3> HIDE DEF range
    <3>6. site.period.start <= site.start_image /\ site.start_image <= site.period.end
      BY <3>2
    <3> QED BY <3>2, <3>3, <3>4, <3>5, <3>6 DEF LastImage, site, range
  <2>3. \A k \in 1 .. Len(sites) : \A j \in 1 .. (k - 1) :
          sites[j].address = sites[k].address /\ sites[j].bit = sites[k].bit =>
            \/ sites[k].last_image < sites[j].start_image
            \/ sites[k].start_image > sites[j].last_image
    <3> TAKE k \in 1 .. Len(sites)
    <3> TAKE j \in 1 .. (k - 1)
    <3>1. Len(sites) \in Nat
      BY <2>1 DEF SitesRight, IsSeq
    <3>2. j \in 1 .. Len(sites) /\ j < k
      BY <3>1
    <3> QED BY <2>1, <3>2 DEF SitesRight, SameCell
  <2>4. verify_cache_work
    BY <1>1, <2>2, <2>3 DEF verify_cache_work
  <2>5. read_cache_work
    BY <2>2 DEF read_cache_work
  <2> QED BY <2>4, <2>5
<1>2. SamplerInv => SampleAccepted
  BY <1>1 DEF SampleAccepted
<1> QED BY <1>2, MapInvariant, PTL
=============================================================================
