---------------------------- MODULE DramFaultsProofs ---------------------------
(***************************************************************************)
(* Proofs about the memory table (BankTable) and the sampler that places   *)
(* flips over it (DramFaults), for any memory, any runs and any number of  *)
(* pages, as the assumptions of the modules describe them.                 *)
(*                                                                         *)
(* TableInv says that a table is what its runs merge to, and every run     *)
(* what its plan measures.  All that the gates and the answers promise     *)
(* follows from it: EdgesAre says which reads an edge stands for, VotesAre *)
(* when a vote decides, and TrueStructures that banks, rows and components *)
(* joined from true edges are banks, rows and components of the memory.    *)
(* PatternInv and SitesInv follow the bits that the sampler reserves,      *)
(* LabelsInv the anchors that its mates were drawn from; that a mate keeps *)
(* the bank of a base anywhere on the page (MateConflicts) rests on the    *)
(* bits of sums and symmetric differences (SetBit, FromBitsIs).            *)
(*                                                                         *)
(* The lemmas about folds (ClassesRecursion, FlattenRecursion) unfold the  *)
(* union-find and the flattening of the plans one element at a time, and   *)
(* later proofs only use what follows by a least counterexample.           *)
(***************************************************************************)
EXTENDS DramFaults, FiniteSetTheorems, FunctionTheorems, SequenceTheorems,
        WellFoundedInduction, TLAPS

-----------------------------------------------------------------------------
(* Powers of two, and the pages of an address.                             *)

\* The powers of two count the subsets of an interval.
LEMMA PowerType == ASSUME NEW n \in Nat PROVE 2 ^ n \in Nat \ {0}
<1>1. IsFiniteSet(1 .. n) /\ Cardinality(1 .. n) = n
  BY FS_Interval
<1>2. IsFiniteSet(SUBSET (1 .. n)) /\ Cardinality(SUBSET (1 .. n)) = 2 ^ n
  BY <1>1, FS_SUBSET
<1>3. {} \in SUBSET (1 .. n)
  OBVIOUS
<1>4. Cardinality(SUBSET (1 .. n)) \in Nat
  BY <1>2, FS_CardinalityType
<1>5. Cardinality(SUBSET (1 .. n)) # 0
  BY <1>2, <1>3, FS_EmptySet
<1> QED
  BY <1>2, <1>4, <1>5

\* The next power of two is the double of this one.
LEMMA PowerDoubles == ASSUME NEW n \in Nat PROVE 2 ^ (n + 1) = 2 * 2 ^ n
<1> DEFINE Low == SUBSET (1 .. n)
           High == {T \in SUBSET (1 .. n + 1) : n + 1 \in T}
           f == [T \in Low |-> T \cup {n + 1}]
<1>1. /\ IsFiniteSet(1 .. n) /\ Cardinality(1 .. n) = n
      /\ IsFiniteSet(1 .. n + 1) /\ Cardinality(1 .. n + 1) = n + 1
  BY FS_Interval
<1>2. IsFiniteSet(Low) /\ Cardinality(Low) = 2 ^ n
  BY <1>1, FS_SUBSET
<1>3. Cardinality(SUBSET (1 .. n + 1)) = 2 ^ (n + 1)
  BY <1>1, FS_SUBSET
<1>4. f \in Bijection(Low, High)
  <2>1. \A T \in Low : f[T] \in High
    OBVIOUS
  <2>2. \A T \in Low, U \in Low : f[T] = f[U] => T = U
    <3> SUFFICES ASSUME NEW T \in Low, NEW U \in Low, f[T] = f[U] PROVE T = U
      OBVIOUS
    <3>1. n + 1 \notin T /\ n + 1 \notin U
      OBVIOUS
    <3>2. T \cup {n + 1} = U \cup {n + 1}
      OBVIOUS
    <3>3. T = (T \cup {n + 1}) \ {n + 1} /\ U = (U \cup {n + 1}) \ {n + 1}
      BY <3>1, Zenon
    <3> QED
      BY <3>2, <3>3
  <2>3. \A U \in High : U \ {n + 1} \in Low /\ f[U \ {n + 1}] = U
    <3> SUFFICES ASSUME NEW U \in High PROVE U \ {n + 1} \in Low /\ f[U \ {n + 1}] = U
      OBVIOUS
    <3>1. U \ {n + 1} \in Low
      OBVIOUS
    <3> QED
      BY <3>1
  <2> QED
    BY <2>1, <2>2, <2>3, Fun_IsBij
<1>5. IsFiniteSet(High) /\ Cardinality(High) = 2 ^ n
  BY <1>2, <1>4, FS_Bijection DEF ExistsBijection
<1>6. SUBSET (1 .. n + 1) = Low \cup High /\ Low \cap High = {}
  <2>1. ASSUME NEW T \in SUBSET (1 .. n + 1), n + 1 \notin T PROVE T \in Low
    BY <2>1
  <2>2. Low \subseteq SUBSET (1 .. n + 1)
    OBVIOUS
  <2> QED
    BY <2>1, <2>2
<1>7. Cardinality(Low \cup High) = Cardinality(Low) + Cardinality(High) - Cardinality(Low \cap High)
  BY <1>2, <1>5, FS_Union
<1>8. 2 ^ (n + 1) = 2 ^ n + 2 ^ n
  <2> DEFINE power == 2 ^ n
  <2>1. power \in Nat
    BY PowerType
  <2>2. Cardinality(Low \cap High) = 0
    BY <1>6, FS_EmptySet
  <2>3. 2 ^ (n + 1) = Cardinality(Low \cup High)
    BY <1>3, <1>6
  <2> HIDE DEF Low, High
  <2>4. Cardinality(Low \cup High) = power + power - 0
    BY <1>2, <1>5, <1>7, <2>2
  <2> QED
    BY <2>1, <2>3, <2>4
<1> QED
  BY <1>8, PowerType

\* The bytes of a page are a number of at least one.
LEMMA PageBytesType == PageBytes \in Nat \ {0}
BY PowerType, TimingAssumption DEF PageBytes

\* An address is its page and an offset in the page.
LEMMA PageSplit ==
  ASSUME NEW x \in Nat
  PROVE  /\ in_page(x) \in 0 .. PageBytes - 1
         /\ page_of(x) \in Nat /\ x = page_of(x) + in_page(x)
         /\ in_page(page_of(x)) = 0 /\ page_of(page_of(x)) = page_of(x)
<1> DEFINE P == PageBytes
           q == x \div P
<1>1. P \in Nat \ {0}
  BY PageBytesType
<1> HIDE DEF P
<1>2. q \in Nat /\ x = (P * q) + (x % P) /\ (x % P) \in 0 .. P - 1
  BY <1>1
<1>3. x - (x % P) = P * q
  BY <1>1, <1>2
<1>4. (P * q) % P = 0
  BY <1>1, <1>2
<1>5. P * q \in Nat
  BY <1>1, <1>2
<1> QED
  BY <1>1, <1>2, <1>3, <1>4, <1>5 DEF page_of, in_page, P

\* An offset below PageBytes stays in the page.
LEMMA OffsetInPage ==
  ASSUME NEW page \in Nat, in_page(page) = 0, NEW i \in 0 .. PageBytes - 1
  PROVE  page_of(page) = page /\ page_of(page + i) = page /\ in_page(page + i) = i
<1> DEFINE P == PageBytes
           q == page \div P
<1>1. P \in Nat \ {0}
  BY PageBytesType
<1>2. i \in 0 .. P - 1 /\ page % P = 0
  BY DEF in_page
<1> HIDE DEF P
<1>3. q \in Nat /\ page = P * q
  BY <1>1, <1>2
<1>4. ((P * q) + i) % P = i
  BY <1>1, <1>2, <1>3
<1> QED
  BY <1>1, <1>2, <1>3, <1>4 DEF page_of, in_page, P

-----------------------------------------------------------------------------
(* What FlattenSeq and Classes compute.                                    *)

\* A nonempty set of naturals has a least element.
LEMMA LeastValue ==
  ASSUME NEW S \in SUBSET Nat, S # {}
  PROVE  \E n \in S : \A m \in S : n <= m
<1>1. PICK n \in S : \A m \in S : ~(<<m, n>> \in OpToRel(<, Nat))
  BY WFMin, NatLessThanWellFounded, Zenon
<1>2. \A m \in S : ~(m < n)
  BY <1>1 DEF OpToRel
<1> QED
  BY <1>2

\* The recursion of FlattenSeq defines a function.
LEMMA FlattenRecursion ==
  ASSUME NEW ss, NEW n \in Nat
  PROVE  \E f : f = [i \in 1 .. n |-> IF i = 1 THEN ss[i] ELSE f[i - 1] \o ss[i]]
<1> DEFINE Rec(f, k) == f = [i \in 1 .. k |-> IF i = 1 THEN ss[i] ELSE f[i - 1] \o ss[i]]
           Exists(k) == \E f : Rec(f, k)
           Bad == {k \in Nat : ~Exists(k)}
<1>1. SUFFICES ASSUME Bad # {} PROVE FALSE
  OBVIOUS
<1> HIDE DEF Exists
<1>2. PICK k \in Bad : \A m \in Bad : k <= m
  BY <1>1, LeastValue
<1>3. k # 0
  <2>1. Rec([i \in 1 .. 0 |-> 0], 0)
    OBVIOUS
  <2> QED
    BY <2>1, <1>2 DEF Exists
<1>4. PICK f : Rec(f, k - 1)
  <2>1. k - 1 \in Nat /\ ~(k <= k - 1)
    BY <1>3
  <2>2. Exists(k - 1)
    BY <1>2, <2>1
  <2> QED
    BY <2>2 DEF Exists
<1> DEFINE g == [i \in 1 .. k |-> IF i = 1 THEN ss[i] ELSE f[i - 1] \o ss[i]]
<1>5. \A i \in 1 .. k - 1 : g[i] = f[i]
  <2> SUFFICES ASSUME NEW i \in 1 .. k - 1 PROVE g[i] = f[i]
    OBVIOUS
  <2>1. f[i] = IF i = 1 THEN ss[i] ELSE f[i - 1] \o ss[i]
    BY <1>4
  <2>2. i \in 1 .. k
    BY <1>3
  <2> QED
    BY <2>1, <2>2
<1>6. Rec(g, k)
  <2>1. \A i \in 1 .. k : i # 1 => i - 1 \in 1 .. k - 1
    BY <1>3
  <2>2. \A i \in 1 .. k : (IF i = 1 THEN ss[i] ELSE f[i - 1] \o ss[i])
                            = (IF i = 1 THEN ss[i] ELSE g[i - 1] \o ss[i])
    BY <2>1, <1>5
  <2> QED
    BY <2>2, Zenon
<1>7. Exists(k)
  BY <1>6 DEF Exists
<1> QED
  BY <1>7

\* The elements of a concatenation.
LEMMA ConcatSet ==
  ASSUME NEW A, NEW s \in Seq(A), NEW t \in Seq(A)
  PROVE  \A x : x \in ToSet(s \o t) <=> x \in ToSet(s) \/ x \in ToSet(t)
<1>1. /\ Len(s \o t) = Len(s) + Len(t)
      /\ \A i \in 1 .. Len(s) + Len(t) :
           (s \o t)[i] = IF i <= Len(s) THEN s[i] ELSE t[i - Len(s)]
  BY ConcatProperties
<1>2. \A i \in 1 .. Len(t) : /\ i + Len(s) \in 1 .. Len(s) + Len(t)
                             /\ ~(i + Len(s) <= Len(s)) /\ (i + Len(s)) - Len(s) = i
  OBVIOUS
<1>3. s \o t \in Seq(A)
  BY ConcatProperties
<1>4. DOMAIN (s \o t) = 1 .. Len(s) + Len(t) /\ DOMAIN s = 1 .. Len(s) /\ DOMAIN t = 1 .. Len(t)
  BY <1>1, <1>3
<1> QED
  BY <1>1, <1>2, <1>4, SMTT(30) DEF ToSet

\* Flattening a sequence of sequences keeps what each of them has, and adds
\* nothing.
LEMMA FlattenJoins ==
  ASSUME NEW A, NEW n \in Nat, NEW ss \in [1 .. n -> Seq(A)]
  PROVE  /\ FlattenSeq(ss) \in Seq(A)
         /\ \A x : x \in ToSet(FlattenSeq(ss)) <=> \E i \in 1 .. n : x \in ToSet(ss[i])
<1>0. Len(ss) = n
  OBVIOUS
<1>1. CASE n = 0
  <2>1. FlattenSeq(ss) = <<>>
    BY <1>0, <1>1 DEF FlattenSeq
  <2> QED
    BY <2>1, <1>1 DEF ToSet
<1>2. CASE n # 0
  <2> DEFINE Rec(f) == f = [i \in 1 .. n |-> IF i = 1 THEN ss[i] ELSE f[i - 1] \o ss[i]]
             flat == CHOOSE f : Rec(f)
  <2>1. Rec(flat)
    <3>1. \E f : Rec(f)
      BY FlattenRecursion
    <3> QED
      BY <3>1, Zenon
  <2>2. FlattenSeq(ss) = flat[n]
    BY <1>0, <1>2 DEF FlattenSeq
  <2> HIDE DEF flat
  <2> DEFINE Good(k) == /\ flat[k] \in Seq(A)
                        /\ \A x : x \in ToSet(flat[k]) <=> \E i \in 1 .. k : x \in ToSet(ss[i])
             Bad == {k \in 1 .. n : ~Good(k)}
  <2>3. SUFFICES ASSUME Bad # {} PROVE FALSE
    <3>1. n \in 1 .. n
      BY <1>2
    <3>2. Bad = {} => Good(n)
      BY <3>1, Zenon
    <3> QED
      BY <3>2, <2>2
  <2> HIDE DEF Good
  <2>4. PICK k \in Bad : \A m \in Bad : k <= m
    <3>1. Bad \in SUBSET Nat
      OBVIOUS
    <3> HIDE DEF Bad
    <3> QED
      BY <2>3, <3>1, LeastValue
  <2>5. k # 1
    <3>1. flat[1] = ss[1]
      BY <2>1, <1>2
    <3>2. Good(1)
      BY <3>1, <1>2 DEF Good
    <3> QED
      BY <3>2
  <2>6. Good(k - 1) /\ k - 1 \in 1 .. n
    BY <2>4, <2>5
  <2>7. flat[k] = flat[k - 1] \o ss[k]
    BY <2>1, <2>5
  <2>8. ss[k] \in Seq(A)
    OBVIOUS
  <2>9. \A x : x \in ToSet(flat[k]) <=> x \in ToSet(flat[k - 1]) \/ x \in ToSet(ss[k])
    BY <2>6, <2>7, <2>8, ConcatSet DEF Good
  <2>10. 1 .. k = 1 .. k - 1 \cup {k}
    OBVIOUS
  <2>11. flat[k] \in Seq(A)
    BY <2>6, <2>7, <2>8, ConcatProperties DEF Good
  <2>12. \A x : x \in ToSet(flat[k - 1]) <=> \E i \in 1 .. k - 1 : x \in ToSet(ss[i])
    BY <2>6 DEF Good
  <2> QED
    BY <2>4, <2>9, <2>10, <2>11, <2>12 DEF Good
<1> QED
  BY <1>1, <1>2

\* Of the finite sets that violate something one is smallest.
LEMMA SmallestSet ==
  ASSUME NEW E, IsFiniteSet(E), NEW Bad \in SUBSET (SUBSET E), Bad # {}
  PROVE  \E s \in Bad : \A t \in SUBSET E : Cardinality(t) < Cardinality(s) => t \notin Bad
<1> DEFINE sizes == {Cardinality(s) : s \in Bad}
<1>1. \A s \in SUBSET E : Cardinality(s) \in Nat
  BY FS_Subset, FS_CardinalityType
<1>2. sizes \in SUBSET Nat /\ sizes # {}
  BY <1>1
<1> HIDE DEF sizes
<1>3. PICK n \in sizes : \A m \in sizes : n <= m
  BY <1>2, LeastValue
<1>4. PICK s \in Bad : n = Cardinality(s)
  BY DEF sizes
<1>5. \A t \in Bad : Cardinality(s) <= Cardinality(t)
  BY <1>3, <1>4 DEF sizes
<1> QED
  BY <1>1, <1>4, <1>5

\* The joining of the classes of an edge, as Classes does it.
Joined(e, partition) ==
  LET lhs == CHOOSE c \in partition : e[1] \in c
      rhs == CHOOSE c \in partition : e[2] \in c
  IN (partition \ {lhs, rhs}) \cup {lhs \cup rhs}

\* The element of a set that a fold takes.
Some(s) == CHOOSE x \in s : TRUE

\* f is the recursion of Classes.
Joining(items, edges, f) ==
  f = [s \in SUBSET edges |-> IF s = {} THEN {{i} : i \in items}
                              ELSE Joined(Some(s), f[s \ {Some(s)}])]

\* There is such a function.
LEMMA ClassesRecursion ==
  ASSUME NEW items, NEW edges, IsFiniteSet(edges)
  PROVE  \E f : Joining(items, edges, f)
<1> DEFINE Upto(k) == {s \in SUBSET edges : Cardinality(s) <= k}
           base == {{i} : i \in items}
           Rec(f, k) == f = [s \in Upto(k) |->
                               IF s = {} THEN base
                               ELSE Joined(Some(s), f[s \ {Some(s)}])]
           Exists(k) == \E f : Rec(f, k)
           Bad == {k \in Nat : ~Exists(k)}
<1> HIDE DEF base
<1>1. \A s \in SUBSET edges : /\ IsFiniteSet(s) /\ Cardinality(s) \in Nat
                              /\ Cardinality(s) <= Cardinality(edges)
                              /\ s # {} => /\ s \ {Some(s)} \in SUBSET edges
                                           /\ Cardinality(s \ {Some(s)}) = Cardinality(s) - 1
  <2> TAKE s \in SUBSET edges
  <2>1. IsFiniteSet(s) /\ Cardinality(s) \in Nat /\ Cardinality(s) <= Cardinality(edges)
    BY FS_Subset, FS_CardinalityType
  <2>2. s # {} => Some(s) \in s
    BY DEF Some
  <2> QED
    BY <2>1, <2>2, FS_RemoveElement
<1>2. \A k \in Nat : Exists(k)
  <2> SUFFICES ASSUME Bad # {} PROVE FALSE
    OBVIOUS
  <2> HIDE DEF Exists
  <2>1. PICK k \in Bad : \A m \in Bad : k <= m
    BY LeastValue
  <2>0. k \in Nat
    OBVIOUS
  <2>2. \E f : k # 0 => Rec(f, k - 1)
    <3>1. CASE k # 0
      <4>1. k - 1 \in Nat /\ ~(k <= k - 1)
        BY <3>1
      <4>2. Exists(k - 1)
        BY <2>1, <4>1
      <4> QED
        BY <4>2 DEF Exists
    <3> QED
      BY <3>1
  <2>3. PICK f : k # 0 => Rec(f, k - 1)
    BY <2>2
  <2> DEFINE g == [s \in Upto(k) |-> IF s = {} THEN base
                                     ELSE Joined(Some(s), f[s \ {Some(s)}])]
  <2>4. \A s \in Upto(k) : s # {} => k # 0 /\ s \ {Some(s)} \in Upto(k - 1)
    <3> TAKE s \in Upto(k)
    <3> HAVE s # {}
    <3>1. Cardinality(s) # 0
      BY <1>1, FS_EmptySet
    <3> QED
      BY <1>1, <3>1
  <2>5. \A s \in Upto(k - 1) : k # 0 => s \in Upto(k) /\ g[s] = f[s]
    <3> TAKE s \in Upto(k - 1)
    <3> HAVE k # 0
    <3>1. s \in Upto(k)
      <4>1. s \in SUBSET edges /\ Cardinality(s) <= k - 1 /\ Cardinality(s) \in Nat
        BY <1>1
      <4> QED
        BY <2>0, <4>1
    <3>2. f[s] = IF s = {} THEN base ELSE Joined(Some(s), f[s \ {Some(s)}])
      BY <2>3, Zenon
    <3> QED
      BY <3>1, <3>2, Zenon
  <2>6. \A s \in Upto(k) :
          (IF s = {} THEN base ELSE Joined(Some(s), f[s \ {Some(s)}]))
            = (IF s = {} THEN base ELSE Joined(Some(s), g[s \ {Some(s)}]))
    <3> HIDE DEF g, Upto
    <3> QED
      BY <2>4, <2>5, Zenon
  <2>7. Rec(g, k)
    BY <2>6, Zenon
  <2>8. Exists(k)
    BY <2>7, Zenon DEF Exists
  <2> QED
    BY <2>8
<1>3. Cardinality(edges) \in Nat
  BY FS_CardinalityType
<1>4. Upto(Cardinality(edges)) = SUBSET edges
  BY <1>1
<1>5. PICK f : Rec(f, Cardinality(edges))
  BY <1>2, <1>3
<1>6. Joining(items, edges, f)
  BY <1>4, <1>5 DEF base, Joining
<1> QED
  BY <1>6

\* Classes is that function at the set of all edges.
LEMMA ClassesUnfold ==
  ASSUME NEW items, NEW edges, IsFiniteSet(edges)
  PROVE  \E f : Joining(items, edges, f) /\ Classes(items, edges) = f[edges]
<1> DEFINE iter == CHOOSE f : Joining(items, edges, f)
<1>1. Joining(items, edges, iter)
  BY ClassesRecursion, Zenon
<1>2. Classes(items, edges) = iter[edges]
  BY Zenon DEF Classes, FoldSet, MapThenFoldSet, Joining, Joined, Some
<1> QED
  BY <1>1, <1>2

\* Disjoint nonempty classes that cover the items, and a class with both ends.
Partition(p, items) ==
  /\ UNION p = items
  /\ \A c \in p : c # {}
  /\ \A c \in p, d \in p : c \cap d # {} => c = d

Joins(p, e) == \E c \in p : e[1] \in c /\ e[2] \in c

\* No class has two values of v.
Uniform(p, v) == \A c \in p : \A x \in c, y \in c : v[x] = v[y]

\* Joining the ends of an edge keeps a partition, the joins made before it, and
\* every value that both ends share.
LEMMA JoinedKeeps ==
  ASSUME NEW items, NEW p, Partition(p, items), NEW e, e[1] \in items, e[2] \in items,
         NEW v, Uniform(p, v), v[e[1]] = v[e[2]]
  PROVE  /\ Partition(Joined(e, p), items) /\ Uniform(Joined(e, p), v)
         /\ Joins(Joined(e, p), e)
         /\ \A d : Joins(p, d) => Joins(Joined(e, p), d)
<1> DEFINE lhs == CHOOSE c \in p : e[1] \in c
           rhs == CHOOSE c \in p : e[2] \in c
           q == (p \ {lhs, rhs}) \cup {lhs \cup rhs}
<1>1. lhs \in p /\ e[1] \in lhs /\ rhs \in p /\ e[2] \in rhs
  BY DEF Partition
<1>2. Joined(e, p) = q
  BY DEF Joined
<1> HIDE DEF lhs, rhs
<1>3. \A c \in p : c = lhs \/ c = rhs \/ c \in q
  OBVIOUS
<1>4. lhs \cup rhs \in q
  OBVIOUS
<1>5. \A c \in q : c = lhs \cup rhs \/ (c \in p /\ c # lhs /\ c # rhs)
  OBVIOUS
<1> HIDE DEF q
<1>6. Partition(q, items)
  <2>1. UNION q = items
    <3>1. ASSUME NEW x \in items PROVE x \in UNION q
      <4>1. PICK c \in p : x \in c
        BY DEF Partition
      <4> QED
        BY <1>3, <1>4, <4>1
    <3>2. ASSUME NEW x \in UNION q PROVE x \in items
      BY <1>1, <1>5 DEF Partition
    <3> QED
      BY <3>1, <3>2
  <2>2. \A c \in q : c # {}
    BY <1>1, <1>5 DEF Partition
  <2>3. \A c \in q, d \in q : c \cap d # {} => c = d
    <3> SUFFICES ASSUME NEW c \in q, NEW d \in q, NEW x, x \in c, x \in d PROVE c = d
      OBVIOUS
    <3>1. \A b \in p : x \in b /\ x \in lhs => b = lhs
      BY <1>1 DEF Partition
    <3>2. \A b \in p : x \in b /\ x \in rhs => b = rhs
      BY <1>1 DEF Partition
    <3>3. c \in p /\ d \in p => c = d
      BY DEF Partition
    <3> QED
      BY <1>5, <3>1, <3>2, <3>3
  <2> QED
    BY <2>1, <2>2, <2>3 DEF Partition
<1>7. Uniform(q, v)
  <2>1. \A x \in lhs \cup rhs : v[x] = v[e[1]]
    BY <1>1 DEF Uniform
  <2> QED
    BY <1>5, <2>1 DEF Uniform
<1>8. Joins(q, e)
  BY <1>1, <1>4 DEF Joins
<1>9. \A d : Joins(p, d) => Joins(q, d)
  <2> SUFFICES ASSUME NEW d, NEW c \in p, d[1] \in c, d[2] \in c PROVE Joins(q, d)
    BY DEF Joins
  <2> QED
    BY <1>3, <1>4 DEF Joins
<1> QED
  BY <1>2, <1>6, <1>7, <1>8, <1>9

\* UnionFind: a partition of the items that joins the ends of every edge, and
\* nothing that the edges do not force together.
LEMMA ClassesPartition ==
  ASSUME NEW items, NEW edges, IsFiniteSet(edges),
         \A e \in edges : e[1] \in items /\ e[2] \in items,
         NEW v, \A e \in edges : v[e[1]] = v[e[2]]
  PROVE  /\ Partition(Classes(items, edges), items)
         /\ Uniform(Classes(items, edges), v)
         /\ \A e \in edges : Joins(Classes(items, edges), e)
<1>1. PICK f : Joining(items, edges, f) /\ Classes(items, edges) = f[edges]
  BY ClassesUnfold
<1> DEFINE Good(s) == /\ Partition(f[s], items) /\ Uniform(f[s], v)
                      /\ \A e \in s : Joins(f[s], e)
           Bad == {s \in SUBSET edges : ~Good(s)}
<1>2. \A s \in SUBSET edges : f[s] = IF s = {} THEN {{i} : i \in items}
                                     ELSE Joined(Some(s), f[s \ {Some(s)}])
  BY <1>1, Zenon DEF Joining
<1>3. SUFFICES ASSUME Bad # {} PROVE FALSE
  <2>1. Bad = {} => Good(edges)
    BY Zenon
  <2> QED
    BY <1>1, <2>1
<1> HIDE DEF Good
<1>4. PICK s \in Bad : \A t \in SUBSET edges : Cardinality(t) < Cardinality(s) => t \notin Bad
  <2>1. Bad \in SUBSET (SUBSET edges)
    OBVIOUS
  <2> HIDE DEF Bad
  <2> QED
    BY <1>3, <2>1, SmallestSet
<1>5. CASE s = {}
  <2>1. f[s] = {{i} : i \in items}
    BY <1>2, <1>5
  <2>2. Partition(f[s], items) /\ Uniform(f[s], v)
    BY <2>1 DEF Partition, Uniform
  <2> QED
    BY <1>5, <2>2 DEF Good
<1>6. CASE s # {}
  <2> DEFINE e == Some(s)
             t == s \ {e}
  <2>1. e \in s
    BY <1>6 DEF Some
  <2>2. IsFiniteSet(s) /\ Cardinality(s) \in Nat
    BY FS_Subset, FS_CardinalityType
  <2>3. t \in SUBSET edges /\ Cardinality(t) = Cardinality(s) - 1
    BY <2>1, <2>2, FS_RemoveElement
  <2> HIDE DEF e
  <2>4. Good(t)
    BY <1>4, <2>2, <2>3
  <2>5. f[s] = Joined(e, f[t])
    BY <1>2, <1>6 DEF e
  <2> HIDE DEF t
  <2>6. /\ Partition(f[s], items) /\ Uniform(f[s], v) /\ Joins(f[s], e)
        /\ \A d : Joins(f[t], d) => Joins(f[s], d)
    BY <2>1, <2>4, <2>5, JoinedKeeps DEF Good
  <2>7. \A d \in s : Joins(f[s], d)
    <3> TAKE d \in s
    <3>1. d = e \/ d \in t
      BY DEF t
    <3>2. d \in t => Joins(f[t], d)
      BY <2>4 DEF Good
    <3> QED
      BY <2>6, <3>1, <3>2
  <2>8. Good(s)
    BY <2>6, <2>7 DEF Good
  <2> QED
    BY <2>8
<1> QED
  BY <1>5, <1>6

-----------------------------------------------------------------------------
(* The pairs of a run.                                                     *)

\* Pages are natural numbers that begin a page.
LEMMA PagesType ==
  ASSUME NEW page \in Pages
  PROVE  page \in Nat /\ in_page(page) = 0 /\ page_of(page) = page
<1>1. page \in Nat /\ in_page(page) = 0
  BY PowerType, TimingAssumption DEF Pages, Addresses
<1> QED
  BY <1>1, PageBytesType, OffsetInPage

\* The in-page offsets that a run measures lie in the page.
LEMMA OffsetsType ==
  /\ AnchorCandidates \in Seq(Nat) /\ BankLattice \in Seq(Nat)
  /\ Anchor \in 1 .. PageBytes - 1 /\ ColumnProbe \in 1 .. PageBytes - 1
  /\ ToSet(AnchorCandidates) \subseteq 1 .. PageBytes - 1
  /\ ToSet(BankLattice) \subseteq 1 .. PageBytes - 1
<1>1. /\ AnchorCandidates \in Seq(Nat)
      /\ Anchor \in 1 .. PageBytes - 1 /\ ColumnProbe \in 1 .. PageBytes - 1
      /\ ToSet(AnchorCandidates) \subseteq 1 .. PageBytes - 1
  BY PlanAssumption
<1> DEFINE probe == IF ColumnProbe \in ToSet(AnchorCandidates) THEN <<>> ELSE <<ColumnProbe>>
<1>2. probe \in Seq(Nat) /\ ToSet(probe) \subseteq {ColumnProbe}
  BY <1>1, PageBytesType DEF ToSet
<1>3. BankLattice = AnchorCandidates \o probe
  BY DEF BankLattice
<1> HIDE DEF probe
<1>4. BankLattice \in Seq(Nat)
  BY <1>1, <1>2, <1>3, ConcatProperties
<1>5. \A x \in ToSet(BankLattice) : x \in ToSet(AnchorCandidates) \/ x \in ToSet(probe)
  BY <1>1, <1>2, <1>3, ConcatSet
<1> QED
  BY <1>1, <1>2, <1>4, <1>5

\* ss holds what F makes of the elements of seq.
MadeOf(A, B, seq, F, ss) ==
  /\ seq \in Seq(B) /\ F \in [B -> Seq(A)]
  /\ ss \in [1 .. Len(seq) -> Seq(A)] /\ \A i \in 1 .. Len(seq) : ss[i] = F[seq[i]]

\* flat holds what F makes of the elements of seq.
Gathers(A, flat, seq, F) ==
  /\ flat \in Seq(A)
  /\ \A x : x \in ToSet(flat) <=> \E b \in ToSet(seq) : x \in ToSet(F[b])

\* OverSeq joins what it makes of the elements of a sequence.
LEMMA OverSeqJoins ==
  ASSUME NEW A, NEW B, NEW seq, NEW F, NEW ss, MadeOf(A, B, seq, F, ss)
  PROVE  Gathers(A, FlattenSeq(ss), seq, F)
<1>1. Len(seq) \in Nat /\ DOMAIN seq = 1 .. Len(seq)
  BY DEF MadeOf
<1>2. /\ FlattenSeq(ss) \in Seq(A)
      /\ \A x : x \in ToSet(FlattenSeq(ss)) <=> \E i \in 1 .. Len(seq) : x \in ToSet(ss[i])
  BY <1>1, FlattenJoins DEF MadeOf
<1>3. ASSUME NEW x, NEW i \in 1 .. Len(seq), x \in ToSet(ss[i])
      PROVE  \E b \in ToSet(seq) : x \in ToSet(F[b])
  <2>1. seq[i] \in ToSet(seq)
    BY <1>1 DEF ToSet
  <2> QED
    BY <1>3, <2>1 DEF MadeOf
<1>4. ASSUME NEW x, NEW b \in ToSet(seq), x \in ToSet(F[b])
      PROVE  \E i \in 1 .. Len(seq) : x \in ToSet(ss[i])
  <2>1. PICK i \in 1 .. Len(seq) : seq[i] = b
    BY <1>1 DEF ToSet
  <2> QED
    BY <1>4, <2>1 DEF MadeOf
<1> QED
  BY <1>2, <1>3, <1>4 DEF Gathers

\* Pairs of addresses.
Pairs == Nat \X Nat

\* Every page is swept against the anchor candidates.
LEMMA AnchorPairsAre ==
  ASSUME NEW bases \in Seq(Pages)
  PROVE  /\ AnchorPairs(bases) \in Seq(Pairs)
         /\ \A at : at \in ToSet(AnchorPairs(bases)) <=>
              \E base \in ToSet(bases) : \E low \in ToSet(AnchorCandidates) :
                at = <<base, base + low>>
<1> DEFINE Sweep(base) == [c \in DOMAIN AnchorCandidates |-> <<base, base + AnchorCandidates[c]>>]
           F == [base \in Pages |-> Sweep(base)]
           ss == [i \in DOMAIN bases |-> Sweep(bases[i])]
<1>1. \A base \in Pages : /\ F[base] \in Seq(Pairs)
                          /\ \A at : at \in ToSet(F[base]) <=>
                               \E low \in ToSet(AnchorCandidates) : at = <<base, base + low>>
  <2> TAKE base \in Pages
  <2>1. base \in Nat /\ AnchorCandidates \in Seq(Nat)
    BY PagesType, OffsetsType
  <2>2. \A c \in DOMAIN AnchorCandidates : AnchorCandidates[c] \in Nat
    BY <2>1
  <2>3. F[base] \in Seq(Pairs)
    BY <2>1, <2>2, SMTT(30) DEF Pairs
  <2> QED
    BY <2>3 DEF ToSet
<1> HIDE DEF Sweep
<1>2. F \in [Pages -> Seq(Pairs)]
  BY <1>1
<1>3. MadeOf(Pairs, Pages, bases, F, ss)
  <2>1. \A i \in 1 .. Len(bases) : bases[i] \in Pages /\ ss[i] = F[bases[i]]
    OBVIOUS
  <2>2. DOMAIN ss = 1 .. Len(bases) /\ ss = [i \in 1 .. Len(bases) |-> ss[i]]
    OBVIOUS
  <2> HIDE DEF F, ss
  <2>3. ss \in [1 .. Len(bases) -> Seq(Pairs)]
    BY <1>2, <2>1, <2>2
  <2> QED
    BY <1>2, <2>1, <2>3 DEF MadeOf
<1> HIDE DEF F, ss
<1>4. Gathers(Pairs, FlattenSeq(ss), bases, F)
  BY <1>2, <1>3, OverSeqJoins
<1>5. AnchorPairs(bases) = FlattenSeq(ss)
  BY DEF AnchorPairs, OverSeq, ss, Sweep
<1>6. \A base \in ToSet(bases) : base \in Pages
  BY DEF ToSet
<1> QED
  BY <1>1, <1>4, <1>5, <1>6 DEF Gathers

\* Every page is measured against every representative but itself.
LEMMA ClassifyPairsAre ==
  ASSUME NEW bases \in Seq(Pages), NEW reps \in Seq(Pages)
  PROVE  /\ ClassifyPairs(bases, reps) \in Seq(Pairs)
         /\ \A at : at \in ToSet(ClassifyPairs(bases, reps)) <=>
              \E base \in ToSet(bases) : \E rep \in ToSet(reps) :
                rep # base /\ at = <<base, rep>>
<1> DEFINE G(base) == [rep \in Pages |-> IF rep = base THEN <<>> ELSE <<<<base, rep>>>>]
           tt(base) == [r \in DOMAIN reps |-> IF reps[r] = base THEN <<>> ELSE <<<<base, reps[r]>>>>]
           F == [base \in Pages |-> FlattenSeq(tt(base))]
           ss == [i \in DOMAIN bases |-> FlattenSeq(tt(bases[i]))]
<1>1. \A base \in Pages : /\ F[base] \in Seq(Pairs)
                          /\ \A at : at \in ToSet(F[base]) <=>
                               \E rep \in ToSet(reps) : rep # base /\ at = <<base, rep>>
  <2> TAKE base \in Pages
  <2>1. \A rep \in Pages : /\ G(base)[rep] \in Seq(Pairs)
                           /\ \A at : at \in ToSet(G(base)[rep]) <=> rep # base /\ at = <<base, rep>>
    <3> TAKE rep \in Pages
    <3>1. <<base, rep>> \in Pairs
      BY PagesType DEF Pairs
    <3>2. CASE rep = base
      BY <3>2 DEF ToSet
    <3>3. CASE rep # base
      BY <3>1, <3>3 DEF ToSet
    <3> QED
      BY <3>2, <3>3
  <2>2. G(base) \in [Pages -> Seq(Pairs)]
    BY <2>1
  <2>3. MadeOf(Pairs, Pages, reps, G(base), tt(base))
    <3>1. \A r \in 1 .. Len(reps) : reps[r] \in Pages /\ tt(base)[r] = G(base)[reps[r]]
      OBVIOUS
    <3>2. tt(base) = [r \in 1 .. Len(reps) |-> tt(base)[r]]
      OBVIOUS
    <3> HIDE DEF G, tt
    <3>3. tt(base) \in [1 .. Len(reps) -> Seq(Pairs)]
      BY <2>2, <3>1, <3>2
    <3> QED
      BY <2>2, <3>1, <3>3 DEF MadeOf
  <2> HIDE DEF G, tt
  <2>4. Gathers(Pairs, FlattenSeq(tt(base)), reps, G(base))
    BY <2>2, <2>3, OverSeqJoins
  <2>5. \A rep \in ToSet(reps) : rep \in Pages
    BY DEF ToSet
  <2> QED
    BY <2>1, <2>4, <2>5 DEF Gathers
<1> HIDE DEF G, tt
<1>2. F \in [Pages -> Seq(Pairs)]
  BY <1>1
<1>3. MadeOf(Pairs, Pages, bases, F, ss)
  <2>1. \A i \in 1 .. Len(bases) : bases[i] \in Pages /\ ss[i] = F[bases[i]]
    OBVIOUS
  <2>2. DOMAIN ss = 1 .. Len(bases) /\ ss = [i \in 1 .. Len(bases) |-> ss[i]]
    OBVIOUS
  <2> HIDE DEF F, ss
  <2>3. ss \in [1 .. Len(bases) -> Seq(Pairs)]
    BY <1>2, <2>1, <2>2
  <2> QED
    BY <1>2, <2>1, <2>3 DEF MadeOf
<1>4. ClassifyPairs(bases, reps) = FlattenSeq(ss)
  BY DEF ClassifyPairs, OverSeq, ss, tt
<1> HIDE DEF F, ss
<1>5. Gathers(Pairs, FlattenSeq(ss), bases, F)
  BY <1>2, <1>3, OverSeqJoins
<1>6. \A base \in ToSet(bases) : base \in Pages
  BY DEF ToSet
<1> QED
  BY <1>1, <1>4, <1>5, <1>6 DEF Gathers

\* A mapped page is measured at pairs of its own offsets.
LEMMA BankPairsAre ==
  ASSUME NEW bases \in Seq(Pages)
  PROVE  /\ BankPairs(bases) \in Seq(Pairs)
         /\ \A at \in ToSet(BankPairs(bases)) :
              \E base \in ToSet(bases) : \E i \in {0, Anchor} : \E low \in ToSet(BankLattice) :
                at = <<base + i, base + low>>
<1> DEFINE Probe(base, low) == <<<<base, base + low>>>>
                                \o IF low = Anchor THEN <<>> ELSE <<<<base + Anchor, base + low>>>>
           G(base) == [low \in Nat |-> Probe(base, low)]
           tt(base) == [k \in DOMAIN BankLattice |-> Probe(base, BankLattice[k])]
           F == [base \in Pages |-> FlattenSeq(tt(base))]
           ss == [i \in DOMAIN bases |-> FlattenSeq(tt(bases[i]))]
           In(base, low, at) == \E i \in {0, Anchor} : at = <<base + i, base + low>>
<1>1. \A base \in Pages :
        /\ F[base] \in Seq(Pairs)
        /\ \A at \in ToSet(F[base]) : \E low \in ToSet(BankLattice) : In(base, low, at)
  <2> TAKE base \in Pages
  <2>1. \A low \in Nat : /\ G(base)[low] \in Seq(Pairs)
                         /\ \A at \in ToSet(G(base)[low]) : In(base, low, at)
    <3> TAKE low \in Nat
    <3> DEFINE one == <<<<base, base + low>>>>
               two == IF low = Anchor THEN <<>> ELSE <<<<base + Anchor, base + low>>>>
    <3>1. base \in Nat /\ Anchor \in Nat
      BY PagesType, OffsetsType
    <3>2. one \in Seq(Pairs) /\ two \in Seq(Pairs)
      <4>1. <<base, base + low>> \in Pairs /\ <<base + Anchor, base + low>> \in Pairs
        BY <3>1 DEF Pairs
      <4> QED
        BY <4>1
    <3>3. \A at : at \in ToSet(one) \/ at \in ToSet(two) => In(base, low, at)
      BY <3>1 DEF ToSet
    <3>4. G(base)[low] = one \o two
      OBVIOUS
    <3> HIDE DEF one, two, G, In, Probe
    <3>5. one \o two \in Seq(Pairs) /\ \A at \in ToSet(one \o two) : In(base, low, at)
      BY <3>2, <3>3, ConcatSet, ConcatProperties
    <3> QED
      BY <3>4, <3>5
  <2> HIDE DEF Probe
  <2>2. G(base) \in [Nat -> Seq(Pairs)]
    BY <2>1
  <2>3. BankLattice \in Seq(Nat)
    BY OffsetsType
  <2>4. MadeOf(Pairs, Nat, BankLattice, G(base), tt(base))
    <3>1. \A k \in 1 .. Len(BankLattice) : BankLattice[k] \in Nat /\ tt(base)[k] = G(base)[BankLattice[k]]
      BY <2>3
    <3>2. tt(base) = [k \in 1 .. Len(BankLattice) |-> tt(base)[k]]
      BY <2>3
    <3> HIDE DEF G, tt
    <3>3. tt(base) \in [1 .. Len(BankLattice) -> Seq(Pairs)]
      BY <2>2, <3>1, <3>2
    <3> QED
      BY <2>2, <2>3, <3>1, <3>3 DEF MadeOf
  <2> HIDE DEF G, tt, In
  <2>5. Gathers(Pairs, FlattenSeq(tt(base)), BankLattice, G(base))
    BY <2>2, <2>3, <2>4, OverSeqJoins
  <2>6. \A low \in ToSet(BankLattice) : low \in Nat
    BY <2>3 DEF ToSet
  <2>7. F[base] = FlattenSeq(tt(base))
    OBVIOUS
  <2> QED
    BY <2>1, <2>5, <2>6, <2>7 DEF Gathers
<1> HIDE DEF G, tt, Probe
<1>2. F \in [Pages -> Seq(Pairs)]
  BY <1>1
<1>3. MadeOf(Pairs, Pages, bases, F, ss)
  <2>1. \A i \in 1 .. Len(bases) : bases[i] \in Pages /\ ss[i] = F[bases[i]]
    OBVIOUS
  <2>2. DOMAIN ss = 1 .. Len(bases) /\ ss = [i \in 1 .. Len(bases) |-> ss[i]]
    OBVIOUS
  <2> HIDE DEF F, ss
  <2>3. ss \in [1 .. Len(bases) -> Seq(Pairs)]
    BY <1>2, <2>1, <2>2
  <2> QED
    BY <1>2, <2>1, <2>3 DEF MadeOf
<1>4. BankPairs(bases) = FlattenSeq(ss)
  BY DEF BankPairs, OverSeq, ss, tt, Probe
<1> HIDE DEF F, ss
<1>5. Gathers(Pairs, FlattenSeq(ss), bases, F)
  BY <1>2, <1>3, OverSeqJoins
<1>6. \A base \in ToSet(bases) : base \in Pages
  BY DEF ToSet
<1> HIDE DEF In
<1>7. \A at \in ToSet(BankPairs(bases)) : \E base \in ToSet(bases) :
        \E low \in ToSet(BankLattice) : In(base, low, at)
  BY <1>1, <1>4, <1>5, <1>6 DEF Gathers
<1> QED
  BY <1>4, <1>5, <1>7 DEF In, Gathers

-----------------------------------------------------------------------------
(* The invariant of the table.                                             *)

\* What a plan measures: pairs on the pages of its pool; first the sweep, every
\* page against every candidate, and every page against every representative.
LEMMA MeasuredIs ==
  ASSUME NEW s \in Shapes
  PROVE  /\ Measured(s) \in Seq(Pairs)
         /\ Swept(s) \in 0 .. Len(Measured(s))
         /\ \A at \in ToSet(Measured(s)) :
              page_of(at[1]) \in ToSet(s.bases) /\ page_of(at[2]) \in ToSet(s.bases)
         /\ \A i \in 1 .. Swept(s) : \E base \in ToSet(s.bases) :
              \E low \in ToSet(AnchorCandidates) : Measured(s)[i] = <<base, base + low>>
         /\ \A base \in ToSet(s.bases) : \A low \in ToSet(AnchorCandidates) :
              \E i \in 1 .. Swept(s) : Measured(s)[i] = <<base, base + low>>
         /\ \A base \in ToSet(s.bases), rep \in ToSet(s.reps) :
              rep # base => <<base, rep>> \in ToSet(Measured(s))
<1> DEFINE A == AnchorPairs(s.bases)
           C == ClassifyPairs(s.bases, s.reps)
           B == BankPairs(s.bank_pages)
<1>1. /\ s.bases \in Seq(Pages) /\ s.reps \in Seq(Pages) /\ s.bank_pages \in Seq(Pages)
      /\ \A p \in ToSet(s.reps) : p \in ToSet(s.bases)
      /\ \A p \in ToSet(s.bank_pages) : p \in ToSet(s.bases)
  BY TableAssumption
<1>2. A \in Seq(Pairs) /\ C \in Seq(Pairs) /\ B \in Seq(Pairs)
  BY <1>1, AnchorPairsAre, ClassifyPairsAre, BankPairsAre
<1>3. \A p \in ToSet(s.bases) : p \in Pages
  BY <1>1 DEF ToSet
<1>4. \A low \in ToSet(AnchorCandidates) \cup ToSet(BankLattice) \cup {0, Anchor} :
        low \in 0 .. PageBytes - 1
  BY OffsetsType, PageBytesType
<1>5. \A p \in ToSet(s.bases) : \A low \in 0 .. PageBytes - 1 :
        page_of(p + low) = p /\ page_of(p) = p /\ p \in Nat
  BY <1>3, PagesType, OffsetInPage
<1>6. \A at \in ToSet(A) : page_of(at[1]) \in ToSet(s.bases) /\ page_of(at[2]) \in ToSet(s.bases)
  <2> SUFFICES ASSUME NEW at \in ToSet(A)
               PROVE  page_of(at[1]) \in ToSet(s.bases) /\ page_of(at[2]) \in ToSet(s.bases)
    OBVIOUS
  <2>1. PICK base \in ToSet(s.bases), low \in ToSet(AnchorCandidates) : at = <<base, base + low>>
    BY <1>1, AnchorPairsAre
  <2>2. low \in 1 .. PageBytes - 1 /\ base \in Nat
    BY OffsetsType, <1>5, <1>4
  <2> QED
    BY <1>4, <1>5, <2>1, <2>2
<1>7. \A at \in ToSet(C) : page_of(at[1]) \in ToSet(s.bases) /\ page_of(at[2]) \in ToSet(s.bases)
  <2> SUFFICES ASSUME NEW at \in ToSet(C)
               PROVE  page_of(at[1]) \in ToSet(s.bases) /\ page_of(at[2]) \in ToSet(s.bases)
    OBVIOUS
  <2>1. PICK base \in ToSet(s.bases), rep \in ToSet(s.reps) : rep # base /\ at = <<base, rep>>
    BY <1>1, ClassifyPairsAre
  <2> QED
    BY <1>1, <1>4, <1>5, <2>1
<1>16. \A at \in ToSet(B) : page_of(at[1]) \in ToSet(s.bases) /\ page_of(at[2]) \in ToSet(s.bases)
  <2> SUFFICES ASSUME NEW at \in ToSet(B)
               PROVE  page_of(at[1]) \in ToSet(s.bases) /\ page_of(at[2]) \in ToSet(s.bases)
    OBVIOUS
  <2>1. PICK base \in ToSet(s.bank_pages), i \in {0, Anchor}, low \in ToSet(BankLattice) :
          at = <<base + i, base + low>>
    BY <1>1, BankPairsAre
  <2>2. i \in 0 .. PageBytes - 1 /\ low \in 0 .. PageBytes - 1 /\ base \in ToSet(s.bases)
    BY <1>1, <1>4
  <2>3. page_of(base + i) = base /\ page_of(base + low) = base
    BY <1>5, <2>2
  <2> QED
    BY <2>1, <2>2, <2>3
<1> HIDE DEF A, C, B
<1>8. Measured(s) = (A \o C) \o B
  BY DEF Measured, A, C, B
<1>9. A \o C \in Seq(Pairs) /\ (A \o C) \o B \in Seq(Pairs)
  BY <1>2, ConcatProperties
<1>10. \A at : at \in ToSet(Measured(s)) <=> at \in ToSet(A) \/ at \in ToSet(C) \/ at \in ToSet(B)
  BY <1>2, <1>8, <1>9, ConcatSet
<1>11. Len(A) \in Nat /\ Len(C) \in Nat /\ Len(B) \in Nat
  BY <1>2
<1>12. Len(Measured(s)) = Len(A) + Len(C) + Len(B) /\ \A i \in 1 .. Len(A) : Measured(s)[i] = A[i]
  <2>1. /\ Len(A \o C) = Len(A) + Len(C)
        /\ \A i \in 1 .. Len(A) : (A \o C)[i] = A[i]
    BY <1>2, ConcatProperties
  <2>2. /\ Len((A \o C) \o B) = Len(A \o C) + Len(B)
        /\ \A i \in 1 .. Len(A \o C) : ((A \o C) \o B)[i] = (A \o C)[i]
    BY <1>2, <1>9, ConcatProperties
  <2> QED
    BY <1>8, <1>11, <2>1, <2>2
<1>13. Swept(s) = Len(A)
  BY DEF Swept, A
<1>14. \A i \in 1 .. Len(A) : A[i] \in ToSet(A)
  BY <1>2 DEF ToSet
<1>15. \A at \in ToSet(A) : \E i \in 1 .. Len(A) : A[i] = at
  BY <1>2 DEF ToSet
<1>17. \A i \in 1 .. Swept(s) : \E base \in ToSet(s.bases) :
         \E low \in ToSet(AnchorCandidates) : Measured(s)[i] = <<base, base + low>>
  <2> TAKE i \in 1 .. Swept(s)
  <2>1. Measured(s)[i] = A[i] /\ A[i] \in ToSet(A)
    BY <1>12, <1>13, <1>14
  <2>2. \A at \in ToSet(A) : \E base \in ToSet(s.bases) :
          \E low \in ToSet(AnchorCandidates) : at = <<base, base + low>>
    BY <1>1, AnchorPairsAre DEF A
  <2> QED
    BY <2>1, <2>2
<1>18. \A base \in ToSet(s.bases) : \A low \in ToSet(AnchorCandidates) :
         \E i \in 1 .. Swept(s) : Measured(s)[i] = <<base, base + low>>
  <2> TAKE base \in ToSet(s.bases)
  <2> TAKE low \in ToSet(AnchorCandidates)
  <2>1. <<base, base + low>> \in ToSet(A)
    BY <1>1, AnchorPairsAre DEF A
  <2>2. PICK i \in 1 .. Len(A) : A[i] = <<base, base + low>>
    BY <1>15, <2>1
  <2> QED
    BY <1>12, <1>13, <2>2
<1>19. \A base \in ToSet(s.bases), rep \in ToSet(s.reps) :
         rep # base => <<base, rep>> \in ToSet(Measured(s))
  <2> TAKE base \in ToSet(s.bases), rep \in ToSet(s.reps)
  <2> HAVE rep # base
  <2>1. <<base, rep>> \in ToSet(C)
    BY <1>1, ClassifyPairsAre DEF C
  <2> QED
    BY <1>10, <2>1
<1>20. \A at \in ToSet(Measured(s)) :
         page_of(at[1]) \in ToSet(s.bases) /\ page_of(at[2]) \in ToSet(s.bases)
  BY <1>6, <1>7, <1>10, <1>16
<1>21. Measured(s) \in Seq(Pairs) /\ Swept(s) \in 0 .. Len(Measured(s))
  BY <1>8, <1>9, <1>11, <1>12, <1>13
<1> QED
  BY <1>17, <1>18, <1>19, <1>20, <1>21

\* What a run may read of a pair, and the runs themselves.
Classification == {"deep_conflict", "mid", "low"}
Reads == [at : Pairs, class : Classification]
Runs == [shape : Shapes, reads : Seq(Reads)]

\* A run read what its plan measures.
Follows(run) ==
  /\ DOMAIN run.reads = DOMAIN Measured(run.shape)
  /\ \A i \in DOMAIN run.reads : run.reads[i].at = Measured(run.shape)[i]

\* The table of the runs.
Merged ==
  LET edges == load_edges
      banks == BankClasses(edges)
      rows == RowClasses(edges, banks)
      components == PageComponents(edges)
  IN [edges |-> edges, banks |-> banks, rows |-> rows, components |-> components,
      pages |-> Pool, anchors |-> build_anchors,
      found |-> contradictions(edges, banks, rows, components)]

\* A table, once written, is that of its runs; a refused build had an edge
\* outside its pool.
TableInv ==
  /\ world \in Worlds
  /\ runs \in Seq(Runs) /\ \A k \in DOMAIN runs : Follows(runs[k])
  /\ pc \in {"collect", "refused"} \/ table = Merged
  /\ pc = "refused" => \E e \in load_edges : ~OnItsPool(e)

\* The table of the runs is read off the world and the runs.
LEMMA SameRunsSameTable ==
  ASSUME UNCHANGED <<world, runs>>
  PROVE  load_edges' = load_edges /\ Merged' = Merged /\ \A e : OnItsPool(e)' <=> OnItsPool(e)
<1>1. Rows' = Rows
  BY DEF Rows
<1>2. \A rows : Settled(rows)' = Settled(rows)
  BY DEF Settled, Contested, DeepVotes, LowVotes, Winner, FromRun
<1>3. Settled(Rows)' = Settled(Rows)
  BY <1>1, <1>2
<1>4. load_edges' = load_edges
  BY <1>3 DEF load_edges
<1>5. \A e : OnItsPool(e)' <=> OnItsPool(e)
  BY DEF OnItsPool, Universe
<1>6. \A edges : PageComponents(edges)' = PageComponents(edges)
  BY DEF PageComponents
<1>7. Pool' = Pool /\ build_anchors' = build_anchors
  BY DEF Pool, build_anchors, Swept
<1>8. Merged' = Merged
  BY <1>4, <1>6, <1>7, Zenon DEF Merged
<1> QED
  BY <1>4, <1>5, <1>8

\* A step of the sampler leaves the world, the runs and the table alone.
LEMMA SamplerKeepsTable ==
  ASSUME StartTrial \/ NextEvent \/ Draw \/ Miss \/ FinishTrial
  PROVE  UNCHANGED <<world, runs, table>> /\ pc \notin {"collect", "refused"} /\ pc' # "refused"
<1>1. CASE StartTrial
  BY <1>1 DEF StartTrial
<1>2. CASE NextEvent
  BY <1>2 DEF NextEvent, table_vars
<1>3. CASE Draw
  BY <1>3 DEF Draw, table_vars
<1>4. CASE Miss
  BY <1>4 DEF Miss
<1>5. CASE FinishTrial
  BY <1>5 DEF FinishTrial
<1> QED
  BY <1>1, <1>2, <1>3, <1>4, <1>5

\* A run that is collected follows its plan.
LEMMA CollectAppends ==
  ASSUME TableInv, Collect
  PROVE  \E run \in Runs : runs' = Append(runs, run) /\ Follows(run)
<1>1. PICK shape \in Shapes :
        LET pairs == Measured(shape)
            right == [i \in DOMAIN pairs |-> Read(pairs[i], Truth(pairs[i]))]
        IN \/ runs' = Append(runs, [shape |-> shape, reads |-> right])
           \/ \E i \in DOMAIN pairs, class \in {"deep_conflict", "mid", "low"} :
                runs' = Append(runs, [shape |-> shape,
                                      reads |-> [right EXCEPT ![i].class = class]])
  BY DEF Collect
<1> DEFINE pairs == Measured(shape)
           right == [i \in DOMAIN pairs |-> Read(pairs[i], Truth(pairs[i]))]
<1>2. pairs \in Seq(Pairs)
  BY MeasuredIs
<1> HIDE DEF pairs
<1>3. \A at : Truth(at) \in Classification
  BY DEF Truth, Classification
<1>4. \A i \in 1 .. Len(pairs) : pairs[i] \in Pairs /\ Read(pairs[i], Truth(pairs[i])) \in Reads
  BY <1>2, <1>3 DEF Read, Reads
<1>5. right \in Seq(Reads) /\ DOMAIN right = DOMAIN pairs
      /\ \A i \in DOMAIN pairs : right[i].at = pairs[i]
  BY <1>2, <1>4 DEF Read
<1> HIDE DEF right
<1>6. CASE runs' = Append(runs, [shape |-> shape, reads |-> right])
  <2> DEFINE run == [shape |-> shape, reads |-> right]
  <2>1. run \in Runs /\ Follows(run)
    BY <1>5 DEF Runs, Follows, pairs
  <2> QED
    BY <1>6, <2>1
<1>7. ASSUME NEW i \in DOMAIN pairs, NEW class \in {"deep_conflict", "mid", "low"},
             runs' = Append(runs, [shape |-> shape, reads |-> [right EXCEPT ![i].class = class]])
      PROVE  \E run \in Runs : runs' = Append(runs, run) /\ Follows(run)
  <2> DEFINE reads == [right EXCEPT ![i].class = class]
             run == [shape |-> shape, reads |-> reads]
  <2>1. \A j \in DOMAIN pairs : right[j] \in Reads
    BY <1>5
  <2>2. [right[i] EXCEPT !.class = class] \in Reads
        /\ [right[i] EXCEPT !.class = class].at = right[i].at
    BY <2>1 DEF Reads, Classification
  <2>3. DOMAIN reads = DOMAIN right
        /\ \A j \in DOMAIN right : reads[j] = IF j = i THEN [right[i] EXCEPT !.class = class] ELSE right[j]
    BY <1>5
  <2> HIDE DEF reads
  <2>4. reads \in Seq(Reads) /\ DOMAIN reads = DOMAIN pairs
        /\ \A j \in DOMAIN pairs : reads[j].at = pairs[j]
    <3>1. \A j \in DOMAIN pairs : reads[j] \in Reads /\ reads[j].at = pairs[j]
      BY <1>5, <2>1, <2>2, <2>3
    <3>2. reads = [j \in 1 .. Len(pairs) |-> reads[j]] /\ DOMAIN pairs = 1 .. Len(pairs)
      <4>1. DOMAIN pairs = 1 .. Len(pairs) /\ DOMAIN right = 1 .. Len(pairs)
        BY <1>2, <1>5
      <4>2. reads = [j \in DOMAIN right |-> reads[j]]
        BY DEF reads
      <4> QED
        BY <4>1, <4>2
    <3> QED
      BY <1>2, <1>5, <2>3, <3>1, <3>2
  <2>5. run \in Runs /\ Follows(run)
    BY <2>4 DEF Runs, Follows, pairs
  <2> QED
    BY <1>7, <2>5 DEF reads
<1> QED
  BY <1>1, <1>6, <1>7 DEF pairs, right

\* Collecting a run keeps the invariant.
LEMMA CollectKeeps == ASSUME TableInv, Collect PROVE TableInv'
<1>1. PICK run \in Runs : runs' = Append(runs, run) /\ Follows(run)
  BY CollectAppends
<1>2. UNCHANGED <<world, table, pc>> /\ pc = "collect"
  BY DEF Collect
<1>3. runs \in Seq(Runs) /\ \A k \in DOMAIN runs : Follows(runs[k])
  BY DEF TableInv
<1>4. runs' \in Seq(Runs) /\ \A k \in DOMAIN runs' : Follows(runs'[k])
  <2>1. runs' \in Seq(Runs) /\ DOMAIN runs' = 1 .. Len(runs) + 1
    BY <1>1, <1>3
  <2>2. \A k \in 1 .. Len(runs) + 1 : runs'[k] = IF k = Len(runs) + 1 THEN run ELSE runs[k]
    BY <1>1, <1>3
  <2> QED
    BY <1>1, <1>3, <2>1, <2>2
<1>5. \A run1 : Follows(run1)' <=> Follows(run1)
  OBVIOUS
<1> QED
  BY <1>2, <1>4, <1>5 DEF TableInv, Follows

\* The build writes the table of its runs, or refuses them for an edge.
LEMMA BuildKeeps == ASSUME TableInv, Build PROVE TableInv'
<1>1. UNCHANGED <<world, runs>>
  BY DEF Build
<1>2. load_edges' = load_edges /\ Merged' = Merged /\ \A e : OnItsPool(e)' <=> OnItsPool(e)
  BY <1>1, SameRunsSameTable
<1>3. CASE \A e \in load_edges : OnItsPool(e)
  <2>1. table' = Merged /\ pc' = "built"
    BY <1>3 DEF Build, Merged
  <2> QED
    BY <1>1, <1>2, <2>1 DEF TableInv, Follows
<1>4. CASE \E e \in load_edges : ~OnItsPool(e)
  <2>1. pc' = "refused"
    BY <1>4 DEF Build
  <2> QED
    BY <1>1, <1>2, <1>4, <2>1 DEF TableInv, Follows
<1> QED
  BY <1>3, <1>4

\* The table is always that of its runs, through every trial of the sampler.
THEOREM TableIsOfItsRuns == FaultSpec => []TableInv
<1>1. FaultInit => TableInv
  BY DEF FaultInit, Init, TableInv, Runs
<1>2. TableInv /\ [FaultNext]_vars => TableInv'
  <2> SUFFICES ASSUME TableInv, [FaultNext]_vars PROVE TableInv'
    OBVIOUS
  <2>1. ASSUME UNCHANGED <<world, runs, table>>, pc \in {"collect", "refused"} => pc' = pc,
               pc' = "refused" => pc = "refused"
        PROVE  TableInv'
    <3>1. load_edges' = load_edges /\ Merged' = Merged /\ \A e : OnItsPool(e)' <=> OnItsPool(e)
      BY <2>1, SameRunsSameTable
    <3> QED
      BY <2>1, <3>1 DEF TableInv, Follows
  <2>2. CASE StartTrial \/ NextEvent \/ Draw \/ Miss \/ FinishTrial
    BY <2>1, <2>2, SamplerKeepsTable
  <2>3. CASE Collect
    BY <2>3, CollectKeeps
  <2>4. CASE Build
    BY <2>4, BuildKeeps
  <2>5. CASE UNCHANGED vars
    BY <2>1, <2>5 DEF vars, table_vars
  <2> QED
    BY <2>2, <2>3, <2>4, <2>5 DEF FaultNext, Next
<1> QED
  BY <1>1, <1>2, PTL DEF FaultSpec

-----------------------------------------------------------------------------
(* The rows of the sources, and the one class that a build keeps.           *)

\* The image of a finite set is finite, and no larger.
LEMMA ImageFinite ==
  ASSUME NEW S, IsFiniteSet(S), NEW f
  PROVE  /\ IsFiniteSet({f[x] : x \in S})
         /\ Cardinality({f[x] : x \in S}) <= Cardinality(S)
<1> DEFINE T == {f[x] : x \in S}
           g == [x \in S |-> f[x]]
<1>1. g \in Surjection(S, T)
  BY DEF Surjection
<1> HIDE DEF T, g
<1>2. IsFiniteSet(T) /\ Cardinality(T) <= Cardinality(S)
  BY <1>1, FS_Surjection
<1> QED
  BY <1>2 DEF T

\* A key is the pair or its mirror image, and has the same truth.
LEMMA KeyIs ==
  ASSUME NEW at \in Pairs
  PROVE  /\ Key(at) \in Pairs /\ Key(at)[1] <= Key(at)[2]
         /\ Key(at) = at \/ Key(at) = <<at[2], at[1]>>
         /\ Truth(Key(at)) = Truth(at)
         /\ at[1] # at[2] => Key(at)[1] # Key(at)[2]
<1>1. at = <<at[1], at[2]>> /\ at[1] \in Nat /\ at[2] \in Nat
  BY DEF Pairs
<1>2. Truth(<<at[2], at[1]>>) = Truth(at)
  BY <1>1 DEF Truth, Conflict, SameBank
<1> QED
  BY <1>1, <1>2 DEF Key, Pairs

\* A row is of a read of a run, or of an earlier probe.
RunRow(r) ==
  \E k \in DOMAIN runs : \E i \in DOMAIN runs[k].reads :
    /\ r.rank = Len(runs) - k + 1 /\ r.index = i
    /\ r.key = Key(runs[k].reads[i].at) /\ r.class = runs[k].reads[i].class

\* A row that stands for a pair of an earlier probe.
EarlierRow(r) ==
  \E e \in world.legacy :
    r.rank = Len(runs) + e.source /\ r.index = 0 /\ r.key = Key(e.at) /\ r.class = e.class

\* The types of the rows.
RowSet == [rank : Nat \ {0}, index : Nat, key : Pairs,
           class : {"deep_conflict", "shoulder", "mid", "low"}]

\* The runs and the earlier probes have the types that the rows need.
LEMMA SourceTypes ==
  ASSUME TableInv
  PROVE  /\ Len(runs) \in Nat /\ DOMAIN runs = 1 .. Len(runs)
         /\ \A k \in DOMAIN runs :
              /\ runs[k].shape \in Shapes /\ runs[k].reads \in Seq(Reads)
              /\ DOMAIN runs[k].reads = DOMAIN Measured(runs[k].shape)
              /\ Len(runs[k].reads) = Len(Measured(runs[k].shape))
              /\ \A i \in DOMAIN runs[k].reads :
                   /\ i \in Nat \ {0}
                   /\ runs[k].reads[i] = Read(runs[k].reads[i].at, runs[k].reads[i].class)
                   /\ runs[k].reads[i].at = Measured(runs[k].shape)[i]
                   /\ runs[k].reads[i].at \in Pairs
                   /\ runs[k].reads[i].class \in Classification
         /\ IsFiniteSet(world.legacy)
         /\ \A e \in world.legacy :
              /\ e.source \in Nat \ {0} /\ e.at \in Pairs
              /\ e.class \in {"deep_conflict", "shoulder", "mid", "low"}
<1>1. runs \in Seq(Runs) /\ \A k \in DOMAIN runs : Follows(runs[k])
  BY DEF TableInv
<1>2. \A k \in DOMAIN runs : runs[k] \in Runs /\ Follows(runs[k])
  BY <1>1
<1>3. ASSUME NEW k \in DOMAIN runs
      PROVE  /\ runs[k].shape \in Shapes /\ runs[k].reads \in Seq(Reads)
             /\ DOMAIN runs[k].reads = DOMAIN Measured(runs[k].shape)
             /\ Len(runs[k].reads) = Len(Measured(runs[k].shape))
             /\ \A i \in DOMAIN runs[k].reads :
                   /\ i \in Nat \ {0}
                   /\ runs[k].reads[i] = Read(runs[k].reads[i].at, runs[k].reads[i].class)
                   /\ runs[k].reads[i].at = Measured(runs[k].shape)[i]
                   /\ runs[k].reads[i].at \in Pairs
                   /\ runs[k].reads[i].class \in Classification
  <2>1. /\ runs[k].shape \in Shapes /\ runs[k].reads \in Seq(Reads)
        /\ DOMAIN runs[k].reads = DOMAIN Measured(runs[k].shape)
    BY <1>2 DEF Runs, Follows
  <2>2. Measured(runs[k].shape) \in Seq(Pairs)
    BY <2>1, MeasuredIs
  <2>3. ASSUME NEW i \in DOMAIN runs[k].reads
        PROVE  /\ i \in Nat \ {0}
               /\ runs[k].reads[i] = Read(runs[k].reads[i].at, runs[k].reads[i].class)
               /\ runs[k].reads[i].at = Measured(runs[k].shape)[i]
               /\ runs[k].reads[i].at \in Pairs
               /\ runs[k].reads[i].class \in Classification
    <3>1. i \in Nat \ {0} /\ runs[k].reads[i] \in Reads
      BY <2>1
    <3>2. runs[k].reads[i].at = Measured(runs[k].shape)[i]
      BY <1>2 DEF Follows
    <3> QED
      BY <3>1, <3>2 DEF Reads, Read
  <2>4. Len(runs[k].reads) = Len(Measured(runs[k].shape))
    <3>1. \A s, t : s \in Seq(Reads) /\ t \in Seq(Pairs) /\ DOMAIN s = DOMAIN t => Len(s) = Len(t)
      OBVIOUS
    <3> QED
      BY <2>1, <2>2, <3>1
  <2> QED
    BY <2>1, <2>3, <2>4
<1>4. /\ IsFiniteSet(world.legacy)
      /\ \A e \in world.legacy :
           /\ e.source \in Nat \ {0} /\ e.at \in Pairs
           /\ e.class \in {"deep_conflict", "shoulder", "mid", "low"}
  <2>1. world \in Worlds
    BY DEF TableInv
  <2>2. /\ IsFiniteSet(world.legacy)
        /\ world.legacy \subseteq [source : 1..4, at : Addresses \X Addresses,
                                   class : {"deep_conflict", "shoulder", "mid", "low"}]
    BY <2>1, TableAssumption
  <2>3. Addresses \subseteq Nat
    BY PowerType, TimingAssumption DEF Addresses
  <2>4. \A e \in world.legacy : /\ e.source \in 1..4 /\ e.at \in Addresses \X Addresses
                               /\ e.class \in {"deep_conflict", "shoulder", "mid", "low"}
    BY <2>2
  <2>5. Addresses \X Addresses \subseteq Pairs
    BY <2>3 DEF Pairs
  <2> QED
    BY <2>2, <2>4, <2>5
<1> QED
  BY <1>1, <1>3, <1>4

\* The rows are finitely many, and each is of one source.
LEMMA RowsAre ==
  ASSUME TableInv
  PROVE  /\ IsFiniteSet(Rows) /\ Rows \subseteq RowSet
         /\ \A r \in Rows : (FromRun(r) /\ RunRow(r)) \/ (~FromRun(r) /\ EarlierRow(r))
         /\ \A k \in DOMAIN runs : \A i \in DOMAIN runs[k].reads :
              \E r \in Rows : /\ FromRun(r) /\ r.rank = Len(runs) - k + 1
                              /\ r.index = i /\ r.key = Key(runs[k].reads[i].at)
                              /\ r.class = runs[k].reads[i].class
<1> DEFINE RowOf(k, i) == [rank |-> Len(runs) - k + 1, index |-> i,
                           key |-> Key(runs[k].reads[i].at), class |-> runs[k].reads[i].class]
           Mine(k) == {RowOf(k, i) : i \in DOMAIN runs[k].reads}
           Old(e) == [rank |-> Len(runs) + e.source, index |-> 0, key |-> Key(e.at),
                      class |-> e.class]
           R == UNION {Mine(k) : k \in DOMAIN runs}
           L == {Old(e) : e \in world.legacy}
<1>1. Rows = R \cup L
  BY DEF Rows
<1>2. ASSUME NEW k \in DOMAIN runs, NEW i \in DOMAIN runs[k].reads
      PROVE  RowOf(k, i) \in RowSet /\ RunRow(RowOf(k, i)) /\ FromRun(RowOf(k, i))
  <2>1. k \in Nat /\ k >= 1 /\ k <= Len(runs) /\ Len(runs) \in Nat /\ i \in Nat
        /\ runs[k].reads[i].at \in Pairs /\ runs[k].reads[i].class \in Classification
    BY SourceTypes
  <2> QED
    BY <2>1, KeyIs DEF RowSet, RunRow, FromRun, Classification
<1>3. ASSUME NEW e \in world.legacy
      PROVE  Old(e) \in RowSet /\ EarlierRow(Old(e)) /\ ~FromRun(Old(e))
  <2>1. e.source \in Nat \ {0} /\ e.at \in Pairs /\ Len(runs) \in Nat
        /\ e.class \in {"deep_conflict", "shoulder", "mid", "low"}
    BY SourceTypes
  <2> QED
    BY <2>1, KeyIs DEF RowSet, EarlierRow, FromRun
<1>4. IsFiniteSet(Rows)
  <2>1. IsFiniteSet(L)
    <3>1. IsFiniteSet(world.legacy)
      BY SourceTypes
    <3> DEFINE F == [e \in world.legacy |-> Old(e)]
    <3>2. L = {F[e] : e \in world.legacy}
      <4> HIDE DEF Old
      <4> QED
        OBVIOUS
    <3> HIDE DEF F, L
    <3> QED
      BY <3>1, <3>2, ImageFinite
  <2>2. \A k \in DOMAIN runs : IsFiniteSet(Mine(k))
    <3> TAKE k \in DOMAIN runs
    <3>1. runs[k].reads \in Seq(Reads)
      BY SourceTypes
    <3>2. IsFiniteSet(1 .. Len(runs[k].reads)) /\ DOMAIN runs[k].reads = 1 .. Len(runs[k].reads)
      BY <3>1, FS_Interval
    <3> DEFINE F == [i \in DOMAIN runs[k].reads |-> RowOf(k, i)]
    <3>3. IsFiniteSet(DOMAIN runs[k].reads)
      BY <3>2
    <3>4. Mine(k) = {F[i] : i \in DOMAIN runs[k].reads}
      <4> HIDE DEF RowOf
      <4> QED
        OBVIOUS
    <3> HIDE DEF F, Mine
    <3> QED
      BY <3>3, <3>4, ImageFinite
  <2>3. IsFiniteSet({Mine(k) : k \in DOMAIN runs})
    <3>1. IsFiniteSet(1 .. Len(runs)) /\ DOMAIN runs = 1 .. Len(runs)
      BY SourceTypes, FS_Interval
    <3>2. IsFiniteSet(DOMAIN runs)
      BY <3>1
    <3> DEFINE F == [k \in DOMAIN runs |-> Mine(k)]
    <3>3. {Mine(k) : k \in DOMAIN runs} = {F[k] : k \in DOMAIN runs}
      <4> HIDE DEF Mine
      <4> QED
        OBVIOUS
    <3> HIDE DEF F, Mine
    <3> QED
      BY <3>2, <3>3, ImageFinite
  <2>4. IsFiniteSet(R)
    <3> HIDE DEF Mine
    <3>1. \A S \in {Mine(k) : k \in DOMAIN runs} : IsFiniteSet(S)
      BY <2>2
    <3> QED
      BY <2>3, <3>1, FS_UNION
  <2> HIDE DEF R, L
  <2>5. IsFiniteSet(R \cup L)
    BY <2>1, <2>4, FS_Union
  <2> QED
    BY <1>1, <2>5
<1>5. ASSUME NEW r \in Rows
      PROVE  r \in RowSet /\ ((FromRun(r) /\ RunRow(r)) \/ (~FromRun(r) /\ EarlierRow(r)))
  <2> HIDE DEF RowOf, Old
  <2>1. (\E k \in DOMAIN runs : \E i \in DOMAIN runs[k].reads : r = RowOf(k, i))
        \/ \E e \in world.legacy : r = Old(e)
    BY <1>1
  <2> QED
    BY <2>1, <1>2, <1>3
<1>6. ASSUME NEW k \in DOMAIN runs, NEW i \in DOMAIN runs[k].reads
      PROVE  \E r \in Rows : /\ FromRun(r) /\ r.rank = Len(runs) - k + 1
                             /\ r.index = i /\ r.key = Key(runs[k].reads[i].at)
                             /\ r.class = runs[k].reads[i].class
  <2>1. RowOf(k, i) \in Rows
    <3> HIDE DEF RowOf
    <3> QED
      BY <1>1
  <2> QED
    BY <1>2, <2>1
<1> QED
  BY <1>4, <1>5, <1>6

\* A settled row is a row, or the verdict of the vote on a contested pair.
LEMMA SettledAre ==
  ASSUME TableInv
  PROVE  /\ Settled(Rows) \subseteq RowSet
         /\ \A r \in Settled(Rows) :
              \/ /\ r \in Rows
                 /\ ~(FromRun(r) /\ r.class \in {"deep_conflict", "low"} /\ Contested(Rows, r.key))
              \/ /\ r.rank = 1 /\ Contested(Rows, r.key) /\ r.class = Winner(Rows, r.key)
                 /\ \E q \in Rows : q.key = r.key
         /\ \A r \in Rows :
              \/ r \in Settled(Rows)
              \/ FromRun(r) /\ r.class \in {"deep_conflict", "low"} /\ Contested(Rows, r.key)
         /\ \A r \in Rows : Contested(Rows, r.key) =>
              \E q \in Settled(Rows) : q.rank = 1 /\ q.key = r.key /\ q.class = Winner(Rows, r.key)
<1> DEFINE contested == {key \in {r.key : r \in Rows} : Contested(Rows, key)}
           kept == {r \in Rows :
                      ~(FromRun(r) /\ r.class \in {"deep_conflict", "low"} /\ r.key \in contested)}
           Verdict(key) == [rank |-> 1, index |-> 1 + Len(runs[Len(runs)].reads), key |-> key,
                            class |-> Winner(Rows, key)]
<1>1. Settled(Rows) = kept \cup {Verdict(key) : key \in contested}
  BY Zenon DEF Settled
<1>2. Rows \subseteq RowSet
  BY RowsAre
<1>3. \A key : Winner(Rows, key) \in Classification
  BY DEF Winner, Classification
<1>4. ASSUME NEW key \in contested
      PROVE  /\ Verdict(key) \in RowSet /\ Contested(Rows, key) /\ \E q \in Rows : q.key = key
  <2>1. Contested(Rows, key) /\ \E q \in Rows : q.key = key
    OBVIOUS
  <2>2. key \in Pairs
    BY <1>2, <2>1 DEF RowSet
  <2>3. \E r \in Rows : FromRun(r)
    <3>1. SUFFICES ASSUME \A r \in Rows : ~FromRun(r) PROVE FALSE
      OBVIOUS
    <3>2. {r.rank : r \in {q \in Rows : FromRun(q) /\ q.key = key /\ q.class = "deep_conflict"}} = {}
      BY <3>1
    <3>3. DeepVotes(Rows, key) = 0
      BY <3>2, FS_EmptySet DEF DeepVotes
    <3> QED
      BY <2>1, <3>3 DEF Contested
  <2>4. Len(runs) \in DOMAIN runs
    BY <2>3, RowsAre, SourceTypes DEF RunRow
  <2>5. runs[Len(runs)].reads \in Seq(Reads)
    BY <2>4, SourceTypes
  <2>6. Len(runs[Len(runs)].reads) \in Nat
    BY <2>5
  <2> QED
    BY <1>3, <2>1, <2>2, <2>6 DEF RowSet, Classification
<1>5. \A key : /\ Verdict(key).rank = 1 /\ Verdict(key).key = key
               /\ Verdict(key).class = Winner(Rows, key)
  OBVIOUS
<1> HIDE DEF Verdict
<1>6. \A r \in Rows : r.key \in contested <=> Contested(Rows, r.key)
  OBVIOUS
<1> HIDE DEF contested
<1>7. \A r \in Settled(Rows) : r \in kept \/ \E key \in contested : r = Verdict(key)
  BY <1>1
<1>8. kept \subseteq Settled(Rows) /\ \A key \in contested : Verdict(key) \in Settled(Rows)
  BY <1>1
<1> QED
  BY <1>2, <1>4, <1>5, <1>6, <1>7, <1>8

\* Of some rows one comes first.
LEMMA FirstRow ==
  ASSUME NEW S \in SUBSET RowSet, S # {}
  PROVE  \E r \in S : \A q \in S : r.rank < q.rank \/ (r.rank = q.rank /\ r.index <= q.index)
<1>1. \A r \in S : r.rank \in Nat /\ r.index \in Nat
  BY DEF RowSet
<1> DEFINE ranks == {r.rank : r \in S}
<1>2. PICK n \in ranks : \A m \in ranks : n <= m
  <2>1. ranks \in SUBSET Nat /\ ranks # {}
    BY <1>1
  <2> HIDE DEF ranks
  <2> QED
    BY <2>1, LeastValue
<1> DEFINE indexes == {r.index : r \in {q \in S : q.rank = n}}
<1>3. PICK i \in indexes : \A j \in indexes : i <= j
  <2>1. indexes \in SUBSET Nat /\ indexes # {}
    BY <1>1
  <2> HIDE DEF indexes
  <2> QED
    BY <2>1, LeastValue
<1>4. PICK r \in S : r.rank = n /\ r.index = i
  OBVIOUS
<1>5. ASSUME NEW q \in S
      PROVE  r.rank < q.rank \/ (r.rank = q.rank /\ r.index <= q.index)
  <2>1. n <= q.rank
    BY <1>2
  <2>2. q.rank = n => i <= q.index
    BY <1>3
  <2> QED
    BY <1>1, <1>4, <2>1, <2>2
<1> QED
  BY <1>5

\* The types of the edges.
EdgeSet == [key : Pairs, class : {"deep_conflict", "shoulder", "mid", "low"}, rank : Nat \ {0}]

\* r is the row by which the build keeps the edge e.
KeptRow(e, r) ==
  /\ r \in Settled(Rows) /\ r.key = e.key /\ r.class = e.class /\ r.rank = e.rank
  /\ \A q \in Settled(Rows) :
       q.key = e.key /\ Decided(q.class) => Decided(r.class) /\ r.rank <= q.rank

\* Every pair of two addresses that a settled row names has one edge, and that
\* has the class of a settled row, of the freshest decided one if there is any.
LEMMA EdgesAre ==
  ASSUME TableInv
  PROVE  /\ IsFiniteSet(load_edges) /\ load_edges \subseteq EdgeSet
         /\ \A e \in load_edges : e.key[1] # e.key[2] /\ \E r : KeptRow(e, r)
         /\ \A e \in load_edges, f \in load_edges : e.key = f.key => e = f
         /\ \A r \in Settled(Rows) : r.key[1] # r.key[2] => \E e \in load_edges : e.key = r.key
<1> DEFINE settled == {r \in Settled(Rows) : r.key[1] # r.key[2]}
           Before(r, q) == r.rank < q.rank \/ (r.rank = q.rank /\ r.index <= q.index)
           Mine(key) == {r \in settled : r.key = key}
           Sure(key) == {r \in Mine(key) : Decided(r.class)}
           From(key) == IF Sure(key) = {} THEN Mine(key) ELSE Sure(key)
           Kept(key) == CHOOSE r \in From(key) : \A q \in From(key) : Before(r, q)
           keys == {r.key : r \in settled}
           Edge(key) == [key |-> key, class |-> Kept(key).class, rank |-> Kept(key).rank]
<1>1. load_edges = {Edge(key) : key \in keys}
  BY DEF load_edges
<1>2. Settled(Rows) \subseteq RowSet
  BY SettledAre
<1>3. ASSUME NEW key \in keys
      PROVE  /\ KeptRow(Edge(key), Kept(key)) /\ Edge(key) \in EdgeSet
             /\ key[1] # key[2] /\ Edge(key).key = key
  <2>1. Mine(key) # {} /\ Mine(key) \in SUBSET RowSet /\ key[1] # key[2]
    BY <1>2
  <2>2. From(key) # {} /\ From(key) \in SUBSET RowSet /\ From(key) \subseteq Mine(key)
    BY <2>1
  <2> HIDE DEF From
  <2>3. \E r \in From(key) : \A q \in From(key) : Before(r, q)
    BY <2>2, FirstRow
  <2>4. Kept(key) \in From(key) /\ \A q \in From(key) : Before(Kept(key), q)
    BY <2>3
  <2> HIDE DEF Kept
  <2>5. Kept(key) \in Mine(key)
    BY <2>2, <2>4
  <2>6. Kept(key) \in Settled(Rows) /\ Kept(key).key = key
    BY <2>5
  <2>7. ASSUME NEW q \in Settled(Rows), q.key = key, Decided(q.class)
        PROVE  Decided(Kept(key).class) /\ Kept(key).rank <= q.rank
    <3>1. q \in Sure(key)
      BY <2>1, <2>7
    <3>2. q \in From(key) /\ From(key) = Sure(key)
      BY <3>1 DEF From
    <3>3. Decided(Kept(key).class)
      BY <3>2, <2>4
    <3>4. Before(Kept(key), q)
      BY <3>2, <2>4
    <3>5. q.rank \in Nat /\ Kept(key).rank \in Nat
      BY <1>2, <2>6 DEF RowSet
    <3> QED
      BY <3>3, <3>4, <3>5
  <2>8. Edge(key).key = key /\ Edge(key).class = Kept(key).class /\ Edge(key).rank = Kept(key).rank
    OBVIOUS
  <2>9. Edge(key) \in EdgeSet
    BY <1>2, <2>6 DEF EdgeSet, RowSet
  <2> HIDE DEF Edge
  <2>10. KeptRow(Edge(key), Kept(key))
    BY <2>6, <2>7, <2>8 DEF KeptRow
  <2> QED
    BY <2>1, <2>8, <2>9, <2>10
<1>4. IsFiniteSet(keys)
  <2>1. IsFiniteSet(Rows)
    BY RowsAre
  <2> DEFINE F == [r \in Rows |-> r.key]
             G == {F[r] : r \in Rows}
  <2>2. keys \subseteq G
    <3> SUFFICES ASSUME NEW r \in settled PROVE r.key \in G
      OBVIOUS
    <3>1. \E q \in Rows : q.key = r.key
      BY SettledAre
    <3> QED
      BY <3>1
  <2> HIDE DEF F
  <2>3. IsFiniteSet(G)
    BY <2>1, ImageFinite
  <2> QED
    BY <2>2, <2>3, FS_Subset
<1> HIDE DEF Edge, keys
<1>5. IsFiniteSet(load_edges)
  <2> DEFINE F == [key \in keys |-> Edge(key)]
  <2>1. load_edges = {F[key] : key \in keys}
    BY <1>1
  <2> HIDE DEF F
  <2> QED
    BY <1>4, <2>1, ImageFinite
<1>6. \A e \in load_edges : \E key \in keys : e = Edge(key)
  BY <1>1
<1>7. \A r \in Settled(Rows) : r.key[1] # r.key[2] => \E e \in load_edges : e.key = r.key
  <2> TAKE r \in Settled(Rows)
  <2> HAVE r.key[1] # r.key[2]
  <2>1. r.key \in keys
    BY DEF keys
  <2> QED
    BY <1>1, <1>3, <2>1
<1>8. \A e \in load_edges : /\ e \in EdgeSet /\ e.key[1] # e.key[2] /\ \E r : KeptRow(e, r)
                            /\ e.key \in keys /\ e = Edge(e.key)
  <2> TAKE e \in load_edges
  <2>1. PICK key \in keys : e = Edge(key)
    BY <1>6
  <2>2. e.key = key
    BY <1>3, <2>1
  <2> QED
    BY <1>3, <2>1, <2>2
<1> QED
  BY <1>5, <1>7, <1>8

\* A build is refused only over an earlier probe that left the census, or over a
\* contested pair that the vote hands to the freshest run.
THEOREM RefusalsAreByContest == FaultSpec => []RefusedOnlyByContest
<1>1. TableInv => RefusedOnlyByContest
  <2> SUFFICES ASSUME TableInv, pc = "refused" PROVE RefusedOnlyByContest
    BY DEF RefusedOnlyByContest
  <2>1. PICK e \in load_edges : ~OnItsPool(e)
    BY DEF TableInv
  <2>2. PICK r : KeptRow(e, r)
    BY <2>1, EdgesAre
  <2>3. /\ r \in Settled(Rows) /\ r.key = e.key /\ r.rank = e.rank
        /\ ~({page_of(r.key[1]), page_of(r.key[2])} \subseteq Universe(r.rank))
    BY <2>1, <2>2 DEF KeptRow, OnItsPool
  <2>4. CASE r \in Rows /\ FromRun(r)
    <3>1. PICK k \in DOMAIN runs : \E i \in DOMAIN runs[k].reads :
            r.rank = Len(runs) - k + 1 /\ r.key = Key(runs[k].reads[i].at)
      BY <2>4, RowsAre DEF RunRow
    <3>2. PICK i \in DOMAIN runs[k].reads : r.key = Key(runs[k].reads[i].at)
      BY <3>1
    <3>3. Len(runs) \in Nat /\ k \in Nat
      BY SourceTypes
    <3>4. Universe(r.rank) = ToSet(runs[k].shape.bases)
      <4>1. r.rank <= Len(runs) /\ Len(runs) - r.rank + 1 = k
        BY <2>4, <3>1, <3>3 DEF FromRun
      <4> QED
        BY <4>1 DEF Universe
    <3> DEFINE at == runs[k].reads[i].at
    <3>5. at \in Pairs /\ at \in ToSet(Measured(runs[k].shape)) /\ runs[k].shape \in Shapes
      BY SourceTypes DEF ToSet
    <3>6. page_of(at[1]) \in Universe(r.rank) /\ page_of(at[2]) \in Universe(r.rank)
      BY <3>4, <3>5, MeasuredIs
    <3>7. Key(at) = at \/ Key(at) = <<at[2], at[1]>>
      BY <3>5, KeyIs
    <3> QED
      BY <2>3, <3>2, <3>6, <3>7
  <2>5. CASE r \in Rows /\ ~FromRun(r)
    <3>1. PICK d \in world.legacy : r.rank = Len(runs) + d.source /\ r.key = Key(d.at)
      BY <2>5, RowsAre DEF EarlierRow
    <3>2. d.source \in Nat \ {0} /\ d.at \in Pairs /\ Len(runs) \in Nat
      BY SourceTypes
    <3>3. Universe(r.rank) = CensusPages
      BY <3>1, <3>2 DEF Universe
    <3>4. Key(d.at) = d.at \/ Key(d.at) = <<d.at[2], d.at[1]>>
      BY <3>2, KeyIs
    <3> QED
      BY <2>3, <3>1, <3>3, <3>4 DEF RefusedOnlyByContest
  <2>6. CASE r \notin Rows
    <3>1. r.rank = 1 /\ Contested(Rows, r.key) /\ \E q \in Rows : q.key = r.key
      BY <2>3, <2>6, SettledAre
    <3> QED
      BY <2>3, <3>1 DEF RefusedOnlyByContest
  <2> QED
    BY <2>4, <2>5, <2>6
<1> QED
  BY <1>1, TableIsOfItsRuns, PTL

\* The votes on a pair are finitely many; a vote counts when someone cast it.
LEMMA VotesAre ==
  ASSUME TableInv, NEW key
  PROVE  /\ IsFiniteSet(WrongVotes(key)) /\ IsFiniteSet(RightRuns(key))
         /\ DeepVotes(Rows, key) \in Nat /\ LowVotes(Rows, key) \in Nat
         /\ Contested(Rows, key) <=>
              /\ \E r \in Rows : FromRun(r) /\ r.key = key /\ r.class = "deep_conflict"
              /\ \E r \in Rows : r.key = key /\ r.class = "low"
         /\ Truth(key) = "deep_conflict" =>
              /\ DeepVotes(Rows, key) = Cardinality(RightRuns(key))
              /\ LowVotes(Rows, key) <= Cardinality(WrongVotes(key))
         /\ Truth(key) = "low" =>
              /\ DeepVotes(Rows, key) <= Cardinality(WrongVotes(key))
              /\ Cardinality(RightRuns(key)) <= LowVotes(Rows, key)
         /\ Cardinality(RightRuns(key)) # 0 =>
              \E r \in Rows : FromRun(r) /\ r.key = key /\ r.class = Truth(key)
<1> DEFINE F == [r \in Rows |-> r.rank]
           Of1(class) == {q \in Rows : FromRun(q) /\ q.key = key /\ q.class = class}
           Ranks(class) == {r.rank : r \in Of1(class)}
           lows == {r \in Rows : r.key = key /\ r.class = "low"}
<1>1. IsFiniteSet(Rows)
  BY RowsAre
<1>2. \A class : IsFiniteSet(Of1(class))
  BY <1>1, FS_Subset
<1>3. \A class : IsFiniteSet(Ranks(class)) /\ Cardinality(Ranks(class)) <= Cardinality(Of1(class))
  <2> TAKE class
  <2>1. Ranks(class) = {F[r] : r \in Of1(class)}
    OBVIOUS
  <2>2. IsFiniteSet(Of1(class))
    BY <1>2
  <2> HIDE DEF F, Of1, Ranks
  <2> QED
    BY <2>1, <2>2, ImageFinite
<1>4. IsFiniteSet(lows) /\ IsFiniteSet(WrongVotes(key))
  <2>1. WrongVotes(key) \subseteq Rows
    BY DEF WrongVotes, WrongRows
  <2> QED
    BY <1>1, <2>1, FS_Subset
<1>5. RightRuns(key) = Ranks(Truth(key))
  BY DEF RightRuns
<1>6. DeepVotes(Rows, key) = Cardinality(Ranks("deep_conflict")) /\ LowVotes(Rows, key) = Cardinality(lows)
  BY DEF DeepVotes, LowVotes
<1>7. \A class : Ranks(class) = {} <=> ~\E r \in Rows : FromRun(r) /\ r.key = key /\ r.class = class
  OBVIOUS
<1>8. lows = {} <=> ~\E r \in Rows : r.key = key /\ r.class = "low"
  OBVIOUS
<1>9. Truth(key) = "deep_conflict" => lows \subseteq WrongVotes(key)
  BY DEF WrongVotes, WrongRows
<1>10. Truth(key) = "low" => Of1("deep_conflict") \subseteq WrongVotes(key)
  BY DEF WrongVotes, WrongRows
<1>11. Of1("low") \subseteq lows
  OBVIOUS
<1> HIDE DEF Of1, Ranks, lows
<1>12. /\ \A class : /\ Cardinality(Ranks(class)) \in Nat /\ Cardinality(Of1(class)) \in Nat
                     /\ Cardinality(Ranks(class)) = 0 <=> Ranks(class) = {}
       /\ Cardinality(lows) \in Nat /\ (Cardinality(lows) = 0 <=> lows = {})
       /\ Cardinality(WrongVotes(key)) \in Nat
  BY <1>2, <1>3, <1>4, FS_CardinalityType, FS_EmptySet
<1>13. Cardinality(Of1("low")) <= Cardinality(lows)
  BY <1>4, <1>11, FS_Subset
<1>14. Truth(key) = "deep_conflict" => Cardinality(lows) <= Cardinality(WrongVotes(key))
  BY <1>4, <1>9, FS_Subset
<1>15. Truth(key) = "low" => Cardinality(Of1("deep_conflict")) <= Cardinality(WrongVotes(key))
  BY <1>4, <1>10, FS_Subset
<1>16. Contested(Rows, key) <=> Ranks("deep_conflict") # {} /\ lows # {}
  BY <1>6, <1>12 DEF Contested
<1>17. Truth(key) = "deep_conflict" => /\ DeepVotes(Rows, key) = Cardinality(RightRuns(key))
                                       /\ LowVotes(Rows, key) <= Cardinality(WrongVotes(key))
  BY <1>5, <1>6, <1>14
<1>18. Truth(key) = "low" => /\ DeepVotes(Rows, key) <= Cardinality(WrongVotes(key))
                             /\ Cardinality(RightRuns(key)) <= LowVotes(Rows, key)
  <2> SUFFICES ASSUME Truth(key) = "low" 
               PROVE  /\ DeepVotes(Rows, key) <= Cardinality(WrongVotes(key))
                      /\ Cardinality(RightRuns(key)) <= LowVotes(Rows, key)
    OBVIOUS
  <2>1. Cardinality(Ranks("deep_conflict")) <= Cardinality(Of1("deep_conflict"))
    BY <1>3
  <2>2. Cardinality(Ranks("low")) <= Cardinality(Of1("low"))
    BY <1>3
  <2>3. /\ Cardinality(Ranks("deep_conflict")) \in Nat /\ Cardinality(Of1("deep_conflict")) \in Nat
        /\ Cardinality(Ranks("low")) \in Nat /\ Cardinality(Of1("low")) \in Nat
    BY <1>12
  <2> QED
    BY <1>5, <1>6, <1>12, <1>13, <1>15, <2>1, <2>2, <2>3
<1>19. IsFiniteSet(RightRuns(key))
  BY <1>3, <1>5
<1> QED
  BY <1>4, <1>5, <1>6, <1>7, <1>8, <1>12, <1>16, <1>17, <1>18, <1>19

\* A run reads no shoulders.
LEMMA RunClasses ==
  ASSUME TableInv, NEW r \in Rows, FromRun(r)
  PROVE  r.class \in Classification
<1>1. PICK k \in DOMAIN runs : \E i \in DOMAIN runs[k].reads : r.class = runs[k].reads[i].class
  BY RowsAre DEF RunRow
<1> QED
  BY <1>1, SourceTypes

\* A kept edge that a run decided on its own shows what a run read.
LEMMA DecidedByARun ==
  ASSUME TableInv, NEW e \in load_edges, NEW r, KeptRow(e, r), r.rank <= Len(runs),
         Decided(r.class), ~Contested(Rows, e.key)
  PROVE  r \in Rows /\ FromRun(r) /\ r.class \in {"deep_conflict", "low"}
<1>1. r \in Rows /\ FromRun(r)
  BY SettledAre DEF KeptRow, FromRun
<1>2. r.class \in Classification
  BY <1>1, RunClasses
<1> QED
  BY <1>1, <1>2 DEF Classification, Decided

\* A contested pair has the class of the vote.
LEMMA ContestedByVote ==
  ASSUME TableInv, NEW e \in load_edges, Contested(Rows, e.key),
         Decided(Winner(Rows, e.key))
  PROVE  e.class = Winner(Rows, e.key)
<1>1. PICK r : KeptRow(e, r)
  BY EdgesAre
<1>2. PICK d \in Rows : FromRun(d) /\ d.key = e.key /\ d.class = "deep_conflict"
  BY VotesAre
<1>3. PICK q \in Settled(Rows) : q.rank = 1 /\ q.key = e.key /\ q.class = Winner(Rows, e.key)
  BY <1>2, SettledAre
<1>4. Decided(r.class) /\ r.rank <= 1 /\ r \in RowSet /\ r \in Settled(Rows)
  BY <1>1, <1>3, SettledAre DEF KeptRow
<1>5. FromRun(r)
  <2>1. d \in RowSet
    BY <1>2, RowsAre
  <2>2. d.rank \in Nat \ {0} /\ d.rank <= Len(runs) /\ Len(runs) \in Nat /\ r.rank \in Nat
    BY <1>2, <1>4, <2>1, SourceTypes DEF FromRun, RowSet
  <2> QED
    BY <1>4, <2>2 DEF FromRun
<1>6. CASE r \in Rows
  <2>1. r.class \in Classification
    BY <1>5, <1>6, RunClasses
  <2> QED
    BY <1>1, <1>4, <1>5, <1>6, <2>1, SettledAre DEF Classification, Decided, KeptRow
<1>7. CASE r \notin Rows
  BY <1>1, <1>4, <1>7, SettledAre DEF KeptRow
<1> QED
  BY <1>6, <1>7

\* Two runs that read a pair right outvote any single wrong vote on it.
THEOREM MisreadsAreOutvoted == FaultSpec => []MisreadOutvoted
<1>1. TableInv => MisreadOutvoted
  <2> SUFFICES ASSUME TableInv, Built, NEW e \in table.edges,
                      Cardinality(WrongVotes(e.key)) <= 1, Cardinality(RightRuns(e.key)) >= 2
               PROVE  e.class = Truth(e.key)
    BY DEF MisreadOutvoted
  <2>1. e \in load_edges
    BY DEF TableInv, Built, Merged
  <2>2. /\ Cardinality(WrongVotes(e.key)) \in Nat /\ Cardinality(RightRuns(e.key)) \in Nat
        /\ DeepVotes(Rows, e.key) \in Nat /\ LowVotes(Rows, e.key) \in Nat
    BY VotesAre, FS_CardinalityType
  <2>3. PICK q \in Rows : FromRun(q) /\ q.key = e.key /\ q.class = Truth(e.key)
    BY <2>2, VotesAre
  <2>4. Truth(e.key) \in {"deep_conflict", "low"}
    BY DEF Truth
  <2>5. CASE Contested(Rows, e.key)
    <3>1. Winner(Rows, e.key) = Truth(e.key)
      BY <2>2, <2>4, VotesAre DEF Winner
    <3> QED
      BY <2>1, <2>4, <2>5, <3>1, ContestedByVote DEF Decided
  <2>6. CASE ~Contested(Rows, e.key)
    <3>1. PICK r : KeptRow(e, r)
      BY <2>1, EdgesAre
    <3>2. q \in Settled(Rows) /\ Decided(q.class)
      BY <2>3, <2>4, <2>6, SettledAre DEF Decided
    <3>3. Decided(r.class) /\ r.rank <= q.rank /\ r \in Settled(Rows)
      BY <2>3, <3>1, <3>2 DEF KeptRow
    <3>4. r.rank <= Len(runs)
      <4>1. q \in RowSet /\ r \in RowSet
        BY <3>2, <3>3, SettledAre
      <4>2. q.rank \in Nat /\ r.rank \in Nat /\ Len(runs) \in Nat
        BY <4>1, SourceTypes DEF RowSet
      <4> QED
        BY <2>3, <3>3, <4>2 DEF FromRun
    <3>5. r \in Rows /\ FromRun(r) /\ r.class \in {"deep_conflict", "low"}
      BY <2>1, <2>6, <3>1, <3>3, <3>4, DecidedByARun
    <3>6. r.key = e.key /\ r.class = e.class
      BY <3>1 DEF KeptRow
    <3> QED
      BY <2>3, <2>4, <2>6, <3>5, <3>6, VotesAre
  <2> QED
    BY <2>5, <2>6
<1> QED
  BY <1>1, TableIsOfItsRuns, PTL

-----------------------------------------------------------------------------
(* What a table of true labels establishes.                                *)

\* The elements of a pair.
LEMMA PairSet ==
  ASSUME NEW key \in Pairs
  PROVE  /\ key[1] \in Nat /\ key[2] \in Nat /\ key = <<key[1], key[2]>>
         /\ ToSet(key) = {key[1], key[2]}
<1>1. key[1] \in Nat /\ key[2] \in Nat /\ key = <<key[1], key[2]>>
  BY DEF Pairs
<1>2. DOMAIN key = {1, 2}
  BY <1>1
<1> QED
  BY <1>1, <1>2 DEF ToSet

\* The keys of some classes are finitely many pairs.
LEMMA OfAre ==
  ASSUME TableInv, NEW classes
  PROVE  /\ IsFiniteSet(Of(load_edges, classes)) /\ Of(load_edges, classes) \subseteq Pairs
         /\ \A key : key \in Of(load_edges, classes) <=>
              \E e \in load_edges : e.key = key /\ e.class \in classes
<1> DEFINE some == {d \in load_edges : d.class \in classes}
           F == [e \in some |-> e.key]
<1>1. IsFiniteSet(load_edges) /\ load_edges \subseteq EdgeSet
  BY EdgesAre
<1>2. IsFiniteSet(some)
  BY <1>1, FS_Subset
<1>3. Of(load_edges, classes) = {F[e] : e \in some}
  BY DEF Of
<1>4. \A e \in some : e \in load_edges /\ e.class \in classes /\ e.key \in Pairs
  BY <1>1 DEF EdgeSet
<1>5. Of(load_edges, classes) = {e.key : e \in some}
  BY DEF Of
<1>6. \A e \in load_edges : e.class \in classes => e \in some
  OBVIOUS
<1> HIDE DEF some, F
<1>7. IsFiniteSet({F[e] : e \in some})
  BY <1>2, ImageFinite
<1> QED
  BY <1>3, <1>4, <1>5, <1>6, <1>7

\* The nodes are the ends of the decided edges.
LEMMA NodesAre ==
  ASSUME TableInv
  PROVE  /\ Nodes(load_edges) \subseteq Nat
         /\ \A e \in load_edges : Decided(e.class) =>
              e.key[1] \in Nodes(load_edges) /\ e.key[2] \in Nodes(load_edges)
<1>1. \A e \in load_edges : e.key \in Pairs
  BY EdgesAre DEF EdgeSet
<1>2. \A e \in load_edges : /\ e.key[1] \in Nat /\ e.key[2] \in Nat
                            /\ ToSet(e.key) = {e.key[1], e.key[2]}
  BY <1>1, PairSet
<1>3. \A x \in Nodes(load_edges) : \E e \in load_edges : x \in ToSet(e.key)
  BY DEF Nodes
<1>4. \A e \in load_edges : Decided(e.class) => ToSet(e.key) \subseteq Nodes(load_edges)
  BY DEF Nodes
<1>5. Nodes(load_edges) \subseteq Nat
  BY <1>2, <1>3
<1> QED
  BY <1>2, <1>4, <1>5

\* Addresses in two pages are never in one row.
LEMMA PagesConflict ==
  ASSUME NEW x \in Nat, NEW y \in Nat, page_of(x) # page_of(y)
  PROVE  Row(world.gpu, x) # Row(world.gpu, y)
BY DEF Row

\* The bank of an address, and its row within it.
BankOf == [x \in Nat |-> Bank(world.gpu, x)]
RowOf == [x \in Nat |-> <<Bank(world.gpu, x), Row(world.gpu, x)>>]

\* Links between pages, as the build takes them.
Links ==
  PagesOf({key \in Of(load_edges, IF world.deep_only THEN {"deep_conflict"}
                                  ELSE {"shoulder", "deep_conflict"}) : CrossPage(key)})
LinkEnds == UNION {ToSet(link) : link \in Links}

\* The links are finitely many pairs of pages, each from an edge across pages;
\* every deep edge across pages is one.
LEMMA LinksAre ==
  ASSUME TableInv
  PROVE  /\ IsFiniteSet(Links)
         /\ \A link \in Links : /\ link \in Pairs
                                /\ link[1] \in LinkEnds /\ link[2] \in LinkEnds
                                /\ \E e \in load_edges :
                                     /\ CrossPage(e.key)
                                     /\ link = <<page_of(e.key[1]), page_of(e.key[2])>>
                                     /\ \/ e.class = "deep_conflict"
                                        \/ e.class = "shoulder" /\ ~world.deep_only
         /\ \A e \in load_edges : e.class = "deep_conflict" /\ CrossPage(e.key) =>
              <<page_of(e.key[1]), page_of(e.key[2])>> \in Links
<1> DEFINE classes == IF world.deep_only THEN {"deep_conflict"} ELSE {"shoulder", "deep_conflict"}
           across == {key \in Of(load_edges, classes) : CrossPage(key)}
           F == [key \in across |-> <<page_of(key[1]), page_of(key[2])>>]
<1>1. IsFiniteSet(Of(load_edges, classes)) /\ Of(load_edges, classes) \subseteq Pairs
  BY OfAre
<1>2. IsFiniteSet(across) /\ across \subseteq Pairs
  BY <1>1, FS_Subset
<1>3. Links = {F[key] : key \in across}
  BY DEF Links, PagesOf
<1>4. \A key \in across : \E e \in load_edges : e.key = key /\ e.class \in classes
  BY OfAre
<1>5. \A e \in load_edges : e.class \in classes /\ CrossPage(e.key) => e.key \in across
  BY OfAre
<1>6. \A key \in across : F[key] = <<page_of(key[1]), page_of(key[2])>> /\ CrossPage(key)
  OBVIOUS
<1>7. "deep_conflict" \in classes /\ ("shoulder" \in classes => ~world.deep_only)
      /\ \A class \in classes : class \in {"deep_conflict", "shoulder"}
  OBVIOUS
<1> HIDE DEF across, F, classes
<1>8. IsFiniteSet(Links)
  BY <1>2, <1>3, ImageFinite
<1>9. ASSUME NEW link \in Links
      PROVE  /\ link \in Pairs /\ link[1] \in LinkEnds /\ link[2] \in LinkEnds
             /\ \E e \in load_edges :
                  /\ CrossPage(e.key) /\ link = <<page_of(e.key[1]), page_of(e.key[2])>>
                  /\ \/ e.class = "deep_conflict"
                     \/ e.class = "shoulder" /\ ~world.deep_only
  <2>1. PICK key \in across : link = <<page_of(key[1]), page_of(key[2])>>
    BY <1>3, <1>6
  <2>2. PICK e \in load_edges : e.key = key /\ e.class \in classes
    BY <1>4
  <2>3. key \in Pairs
    BY <1>2
  <2>4. page_of(key[1]) \in Nat /\ page_of(key[2]) \in Nat
    BY <2>3, PairSet, PageSplit
  <2>5. link \in Pairs
    BY <2>1, <2>4 DEF Pairs
  <2>6. ToSet(link) = {link[1], link[2]}
    BY <2>5, PairSet
  <2>7. link[1] \in LinkEnds /\ link[2] \in LinkEnds
    BY <2>6 DEF LinkEnds
  <2> QED
    BY <1>6, <1>7, <2>1, <2>2, <2>5, <2>7
<1>10. \A e \in load_edges : e.class = "deep_conflict" /\ CrossPage(e.key) =>
         <<page_of(e.key[1]), page_of(e.key[2])>> \in Links
  <2> TAKE e \in load_edges
  <2> HAVE e.class = "deep_conflict" /\ CrossPage(e.key)
  <2>1. e.key \in across
    BY <1>5, <1>7
  <2> QED
    BY <1>3, <1>6, <2>1
<1> QED
  BY <1>8, <1>9, <1>10

\* A pair across two pages that is not off their bases is the pair of the pages.
LEMMA OnBaseIsPages ==
  ASSUME NEW e \in EdgeSet, CrossPage(e.key), ~OffBase(e)
  PROVE  page_of(e.key[1]) = e.key[1] /\ page_of(e.key[2]) = e.key[2]
<1> DEFINE x == e.key[1]
           y == e.key[2]
<1>1. x \in Nat /\ y \in Nat /\ ToSet(e.key) = {x, y}
  BY PairSet DEF EdgeSet
<1>2. page_of(x) # page_of(y) /\ {x, y} = {page_of(x), page_of(y)}
  <2>1. {page_of(pa) : pa \in {x, y}} = {page_of(x), page_of(y)}
    OBVIOUS
  <2> QED
    BY <1>1, <2>1 DEF OffBase, CrossPage
<1>3. page_of(page_of(x)) = page_of(x) /\ page_of(page_of(y)) = page_of(y)
  BY <1>1, PageSplit
<1> HIDE DEF x, y
<1>4. x = page_of(x) /\ y = page_of(y)
  BY <1>2, <1>3
<1> QED
  BY <1>4 DEF x, y

\* While the labels of a table are true, no bank of it joins two banks, no row
\* two rows, and no component pages of two banks; and every deep edge is joined.
LEMMA TrueStructures ==
  ASSUME TableInv, Built, LabelsTrue
  PROVE  /\ table.edges = load_edges /\ table.banks = BankClasses(load_edges)
         /\ table.rows = RowClasses(load_edges, table.banks)
         /\ table.components = PageComponents(load_edges)
         /\ Partition(table.banks, Nodes(load_edges)) /\ Uniform(table.banks, BankOf)
         /\ \A e \in load_edges : e.class = "deep_conflict" => Joins(table.banks, e.key)
         /\ Partition(table.rows, Nodes(load_edges)) /\ Uniform(table.rows, RowOf)
         /\ Partition(table.components, LinkEnds) /\ Uniform(table.components, BankOf)
         /\ \A link \in Links : Joins(table.components, link)
<1>1. /\ table.edges = load_edges /\ table.banks = BankClasses(load_edges)
      /\ table.rows = RowClasses(load_edges, table.banks)
      /\ table.components = PageComponents(load_edges)
  BY DEF TableInv, Built, Merged
<1>2. ASSUME NEW e \in load_edges
      PROVE  /\ e \in EdgeSet /\ e.key[1] \in Nat /\ e.key[2] \in Nat
             /\ e.class = "deep_conflict" =>
                  Conflict(world.gpu, e.key[1], e.key[2]) /\ ~OffBase(e)
             /\ e.class = "low" => ~Conflict(world.gpu, e.key[1], e.key[2])
             /\ e.class = "shoulder" /\ CrossPage(e.key) => world.deep_only
  <2>1. e \in EdgeSet
    BY EdgesAre
  <2>2. e.key \in Pairs
    BY <2>1 DEF EdgeSet
  <2>3. e.key[1] \in Nat /\ e.key[2] \in Nat
    BY <2>2, PairSet
  <2>4. (e.class = "deep_conflict" \/ e.class = "low" => e.class = Truth(e.key)) /\ ~Doubtful(e)
    BY <1>1 DEF LabelsTrue
  <2> QED
    BY <2>1, <2>3, <2>4 DEF Truth, Doubtful
<1>3. ASSUME NEW classes, NEW key \in Of(load_edges, classes)
      PROVE  \E e \in load_edges : e.key = key /\ e.class \in classes
  BY OfAre
<1>4. /\ Partition(table.banks, Nodes(load_edges)) /\ Uniform(table.banks, BankOf)
      /\ \A key \in Of(load_edges, {"deep_conflict"}) : Joins(table.banks, key)
  <2> DEFINE E == Of(load_edges, {"deep_conflict"})
  <2>1. IsFiniteSet(E)
    BY OfAre
  <2>2. \A key \in E : /\ key[1] \in Nodes(load_edges) /\ key[2] \in Nodes(load_edges)
                       /\ BankOf[key[1]] = BankOf[key[2]]
    <3> TAKE key \in E
    <3>1. PICK e \in load_edges : e.key = key /\ e.class = "deep_conflict"
      BY <1>3
    <3>2. key[1] \in Nat /\ key[2] \in Nat /\ SameBank(world.gpu, key[1], key[2])
      BY <1>2, <3>1 DEF Conflict
    <3>3. Decided(e.class)
      BY <3>1 DEF Decided
    <3>4. key[1] \in Nodes(load_edges) /\ key[2] \in Nodes(load_edges)
      BY <3>1, <3>3, NodesAre
    <3> QED
      BY <3>2, <3>4 DEF SameBank, BankOf
  <2> HIDE DEF E
  <2>3. /\ Partition(Classes(Nodes(load_edges), E), Nodes(load_edges))
        /\ Uniform(Classes(Nodes(load_edges), E), BankOf)
        /\ \A key \in E : Joins(Classes(Nodes(load_edges), E), key)
    BY <2>1, <2>2, ClassesPartition
  <2> QED
    BY <1>1, <2>3 DEF BankClasses, E
<1>5. \A e \in load_edges : e.class = "deep_conflict" => Joins(table.banks, e.key)
  BY <1>4, OfAre
<1>6. Partition(table.rows, Nodes(load_edges)) /\ Uniform(table.rows, RowOf)
  <2> DEFINE L == Of(load_edges, {"low"})
             E == {key \in L : ClassOf(table.banks, key[1]) = ClassOf(table.banks, key[2])}
  <2>1. IsFiniteSet(E)
    <3>1. IsFiniteSet(L)
      BY OfAre
    <3> HIDE DEF L
    <3> QED
      BY <3>1, FS_Subset
  <2>2. \A key \in E : /\ key[1] \in Nodes(load_edges) /\ key[2] \in Nodes(load_edges)
                       /\ RowOf[key[1]] = RowOf[key[2]]
    <3> TAKE key \in E
    <3>1. PICK e \in load_edges : e.key = key /\ e.class = "low"
      BY <1>3
    <3>2. key[1] \in Nat /\ key[2] \in Nat /\ ~Conflict(world.gpu, key[1], key[2])
      BY <1>2, <3>1
    <3>3. Decided(e.class)
      BY <3>1 DEF Decided
    <3>4. key[1] \in Nodes(load_edges) /\ key[2] \in Nodes(load_edges)
      BY <3>1, <3>3, NodesAre
    <3>5. \A x \in Nodes(load_edges) : ClassOf(table.banks, x) \in table.banks
                                       /\ x \in ClassOf(table.banks, x)
      BY <1>4 DEF Partition, ClassOf
    <3>6. ClassOf(table.banks, key[1]) = ClassOf(table.banks, key[2])
      OBVIOUS
    <3> DEFINE c == ClassOf(table.banks, key[1])
    <3>7. c \in table.banks /\ key[1] \in c /\ key[2] \in c
      BY <3>4, <3>5, <3>6
    <3> HIDE DEF c
    <3>8. BankOf[key[1]] = BankOf[key[2]]
      BY <1>4, <3>7 DEF Uniform
    <3>9. SameBank(world.gpu, key[1], key[2])
      BY <3>2, <3>8 DEF SameBank, BankOf
    <3> QED
      BY <3>2, <3>4, <3>9 DEF Conflict, SameBank, RowOf
  <2>3. table.rows = Classes(Nodes(load_edges), E)
    BY <1>1 DEF RowClasses
  <2> HIDE DEF E
  <2> QED
    BY <2>1, <2>2, <2>3, ClassesPartition
<1>7. /\ Partition(table.components, LinkEnds) /\ Uniform(table.components, BankOf)
      /\ \A link \in Links : Joins(table.components, link)
  <2>1. \A link \in Links : /\ link[1] \in LinkEnds /\ link[2] \in LinkEnds
                            /\ BankOf[link[1]] = BankOf[link[2]]
    <3> TAKE link \in Links
    <3>1. PICK e \in load_edges : /\ CrossPage(e.key)
                                  /\ link = <<page_of(e.key[1]), page_of(e.key[2])>>
                                  /\ \/ e.class = "deep_conflict"
                                     \/ e.class = "shoulder" /\ ~world.deep_only
      BY LinksAre
    <3>2. e.class = "deep_conflict" /\ ~OffBase(e) /\ e \in EdgeSet
          /\ e.key[1] \in Nat /\ e.key[2] \in Nat /\ SameBank(world.gpu, e.key[1], e.key[2])
      BY <1>2, <3>1 DEF Conflict
    <3>3. link[1] = e.key[1] /\ link[2] = e.key[2]
      BY <3>1, <3>2, OnBaseIsPages
    <3> QED
      BY <3>2, <3>3, LinksAre DEF SameBank, BankOf
  <2>2. table.components = Classes(LinkEnds, Links)
    BY <1>1 DEF PageComponents, LinkEnds, Links
  <2>3. IsFiniteSet(Links)
    BY LinksAre
  <2> QED
    BY <2>1, <2>2, <2>3, ClassesPartition
<1> QED
  BY <1>1, <1>4, <1>5, <1>6, <1>7

\* A class of a partition holds together what it joins, and only that.
LEMMA TogetherIs ==
  ASSUME TableInv, Built, LabelsTrue, NEW x, NEW y
  PROVE  /\ Together(table.banks, x, y) =>
              x \in Nat /\ y \in Nat /\ SameBank(world.gpu, x, y)
         /\ Together(table.rows, x, y) =>
              /\ x \in Nat /\ y \in Nat
              /\ SameBank(world.gpu, x, y) /\ Row(world.gpu, x) = Row(world.gpu, y)
         /\ Together(table.components, x, y) =>
              x \in Nat /\ y \in Nat /\ SameBank(world.gpu, x, y)
<1>1. /\ Partition(table.banks, Nodes(load_edges)) /\ Uniform(table.banks, BankOf)
      /\ Partition(table.rows, Nodes(load_edges)) /\ Uniform(table.rows, RowOf)
      /\ Partition(table.components, LinkEnds) /\ Uniform(table.components, BankOf)
  BY TrueStructures
<1>2. Nodes(load_edges) \subseteq Nat /\ LinkEnds \subseteq Nat
  <2>1. \A z \in LinkEnds : \E link \in Links : z \in ToSet(link)
    BY DEF LinkEnds
  <2>2. \A link \in Links : ToSet(link) \subseteq Nat
    BY LinksAre, PairSet
  <2> QED
    BY <2>1, <2>2, NodesAre
<1>3. \A p, items : Partition(p, items) /\ Together(p, x, y) => x \in items /\ y \in items
  BY DEF Partition, Together
<1>4. \A p, v : Uniform(p, v) /\ Together(p, x, y) => v[x] = v[y]
  BY DEF Uniform, Together
<1>5. Together(table.banks, x, y) =>
        x \in Nat /\ y \in Nat /\ SameBank(world.gpu, x, y)
  BY <1>1, <1>2, <1>3, <1>4 DEF SameBank, BankOf
<1>6. Together(table.components, x, y) =>
        x \in Nat /\ y \in Nat /\ SameBank(world.gpu, x, y)
  <2> HAVE Together(table.components, x, y)
  <2>1. x \in Nat /\ y \in Nat
    BY <1>1, <1>2, <1>3
  <2>2. BankOf[x] = BankOf[y]
    BY <1>1, <1>4
  <2> QED
    BY <2>1, <2>2 DEF SameBank, BankOf
<1>7. Together(table.rows, x, y) =>
        /\ x \in Nat /\ y \in Nat
        /\ SameBank(world.gpu, x, y) /\ Row(world.gpu, x) = Row(world.gpu, y)
  BY <1>1, <1>2, <1>3, <1>4 DEF SameBank, RowOf
<1> QED
  BY <1>5, <1>6, <1>7

-----------------------------------------------------------------------------
(* The gates.                                                              *)

\* While no vote is wrong and no earlier probe leaves a doubt, every label is true.
LEMMA CleanLabels ==
  ASSUME TableInv, Built,
         \A e \in table.edges : e.class # "shoulder" /\ ~OffBase(e),
         \A r \in Rows : r.class \in {"deep_conflict", "low"} => r.class = Truth(r.key)
  PROVE  LabelsTrue
<1>1. table.edges = load_edges
  BY DEF TableInv, Built, Merged
<1>2. SUFFICES ASSUME NEW e \in load_edges, e.class \in {"deep_conflict", "low"}
               PROVE  e.class = Truth(e.key)
  BY <1>1 DEF LabelsTrue, Doubtful
<1>3. PICK r : KeptRow(e, r)
  BY EdgesAre
<1>4. ~Contested(Rows, e.key)
  <2> SUFFICES ASSUME NEW d \in Rows, d.key = e.key, d.class = "deep_conflict",
                      NEW q \in Rows, q.key = e.key, q.class = "low"
               PROVE  FALSE
    BY VotesAre
  <2> QED
    OBVIOUS
<1>5. r \in Rows /\ r.key = e.key /\ r.class = e.class
  BY <1>3, <1>4, SettledAre DEF KeptRow
<1> QED
  BY <1>2, <1>5

\* Of the indexes of a sequence that satisfy something, one is the last.
LEMMA LastIndex ==
  ASSUME NEW n \in Nat, NEW S \in SUBSET (1 .. n), S # {}
  PROVE  \E i \in S : \A j \in S : j <= i
<1> DEFINE T == {n - i : i \in S}
<1>1. \A i \in S : i \in Nat /\ n - i \in Nat
  OBVIOUS
<1>2. T \in SUBSET Nat /\ T # {}
  BY <1>1
<1>3. \A i \in S : n - i \in T
  OBVIOUS
<1>4. \A t \in T : \E i \in S : t = n - i
  OBVIOUS
<1> HIDE DEF T
<1>5. PICK t \in T : \A u \in T : t <= u
  BY <1>2, LeastValue
<1>6. PICK i \in S : t = n - i
  BY <1>4
<1>7. \A j \in S : j <= i
  BY <1>1, <1>3, <1>5, <1>6
<1> QED
  BY <1>7

\* The class of a pair in a run is one that the run read of it.
LEMMA ClassInIs ==
  ASSUME TableInv, NEW k \in DOMAIN runs, NEW at \in PairsIn(runs[k])
  PROVE  \E i \in DOMAIN runs[k].reads :
           runs[k].reads[i].at = at /\ runs[k].reads[i].class = ClassIn(runs[k], at)
<1> DEFINE mine == {i \in DOMAIN runs[k].reads : runs[k].reads[i].at = at}
           last == CHOOSE i \in mine : \A j \in mine : j <= i
<1>1. runs[k].reads \in Seq(Reads)
  BY SourceTypes
<1>2. Len(runs[k].reads) \in Nat /\ mine \in SUBSET (1 .. Len(runs[k].reads)) /\ mine # {}
  BY <1>1 DEF PairsIn
<1>3. ClassIn(runs[k], at) = runs[k].reads[last].class
  BY DEF ClassIn
<1>4. \A i \in mine : i \in DOMAIN runs[k].reads /\ runs[k].reads[i].at = at
  OBVIOUS
<1> HIDE DEF mine
<1>5. last \in mine
  BY <1>2, LastIndex
<1> HIDE DEF last
<1> QED
  BY <1>3, <1>4, <1>5

\* What a gate may blame: a wrong read that decided, or a wrong read of a sweep.
Blamed(run) ==
  \E i \in DOMAIN run.reads :
    Wrong(run.reads[i]) /\ (Decided(run.reads[i].class) \/ i <= Swept(run.shape))

\* A hard flip of a pair between two runs is a wrong read of one of them.
LEMMA FlipIsWrong ==
  ASSUME TableInv, NEW j \in DOMAIN runs, NEW k \in DOMAIN runs,
         NEW at \in HardFlips(runs[j], runs[k])
  PROVE  Blamed(runs[j]) \/ Blamed(runs[k])
<1>1. /\ at \in PairsIn(runs[j]) /\ at \in PairsIn(runs[k])
      /\ {ClassIn(runs[j], at), ClassIn(runs[k], at)} = {"deep_conflict", "low"}
  BY DEF HardFlips
<1>2. PICK i \in DOMAIN runs[j].reads :
        runs[j].reads[i].at = at /\ runs[j].reads[i].class = ClassIn(runs[j], at)
  BY <1>1, ClassInIs
<1>3. PICK l \in DOMAIN runs[k].reads :
        runs[k].reads[l].at = at /\ runs[k].reads[l].class = ClassIn(runs[k], at)
  BY <1>1, ClassInIs
<1>4. runs[j].reads[i].class # Truth(at) \/ runs[k].reads[l].class # Truth(at)
  BY <1>1, <1>2, <1>3
<1>5. runs[j].reads[i].class # "mid" /\ runs[k].reads[l].class # "mid"
  BY <1>1, <1>2, <1>3
<1> QED
  BY <1>2, <1>3, <1>4, <1>5 DEF Blamed, Wrong, Decided

\* An anchor that one run swept, and another that swept the page did not find,
\* is a wrong read of one of them.
LEMMA LostAnchorIsWrong ==
  ASSUME TableInv, NEW j \in DOMAIN runs, NEW k \in DOMAIN runs,
         NEW base \in ToSet(runs[k].shape.bases),
         NEW at \in AnchorsIn(runs[j], base), at \notin AnchorsIn(runs[k], base)
  PROVE  Blamed(runs[j]) \/ Blamed(runs[k])
<1>1. PICK i \in 1 .. Swept(runs[j].shape) :
        /\ runs[j].reads[i].at = at /\ at[1] = base
        /\ runs[j].reads[i].class = "deep_conflict"
  BY DEF AnchorsIn
<1>2. /\ runs[j].shape \in Shapes /\ runs[k].shape \in Shapes
      /\ Len(runs[j].reads) = Len(Measured(runs[j].shape))
      /\ Len(runs[k].reads) = Len(Measured(runs[k].shape))
      /\ runs[j].reads \in Seq(Reads) /\ runs[k].reads \in Seq(Reads)
  BY SourceTypes
<1>3. /\ Swept(runs[j].shape) \in 0 .. Len(Measured(runs[j].shape))
      /\ Swept(runs[k].shape) \in 0 .. Len(Measured(runs[k].shape))
      /\ Measured(runs[j].shape) \in Seq(Pairs) /\ Measured(runs[k].shape) \in Seq(Pairs)
  BY <1>2, MeasuredIs
<1>4. /\ \A n \in 1 .. Swept(runs[j].shape) : n \in DOMAIN runs[j].reads /\ n <= Swept(runs[j].shape)
      /\ \A n \in 1 .. Swept(runs[k].shape) : n \in DOMAIN runs[k].reads /\ n <= Swept(runs[k].shape)
  BY <1>2, <1>3
<1>5. at = Measured(runs[j].shape)[i]
  BY <1>1, <1>4, SourceTypes
<1>6. PICK b \in ToSet(runs[j].shape.bases), low \in ToSet(AnchorCandidates) : at = <<b, b + low>>
  <2>1. \A n \in 1 .. Swept(runs[j].shape) : \E b \in ToSet(runs[j].shape.bases) :
          \E low \in ToSet(AnchorCandidates) : Measured(runs[j].shape)[n] = <<b, b + low>>
    BY <1>2, MeasuredIs
  <2> QED
    BY <1>5, <2>1
<1>7. at = <<base, base + low>>
  BY <1>1, <1>6
<1>8. PICK l \in 1 .. Swept(runs[k].shape) : Measured(runs[k].shape)[l] = at
  BY <1>2, <1>7, MeasuredIs, ZenonT(30)
<1>9. runs[k].reads[l].at = at
  BY <1>4, <1>8, SourceTypes
<1>10. runs[k].reads[l].class # "deep_conflict"
  BY <1>1, <1>9 DEF AnchorsIn
<1>11. Wrong(runs[j].reads[i]) \/ Wrong(runs[k].reads[l])
  BY <1>1, <1>9, <1>10 DEF Wrong
<1> QED
  BY <1>4, <1>11 DEF Blamed

\* A gate that fails, and a contradiction that the build reports, is over a
\* wrong vote, or over what the earlier probes leave to doubt.
THEOREM GatesBlameOnlyMisreads == FaultSpec => []GatesBlameMisreads
<1>1. TableInv => GatesBlameMisreads
  <2> SUFFICES ASSUME TableInv, Built PROVE GatesBlameMisreads
    BY DEF GatesBlameMisreads
  <2>1. ASSUME \A e \in table.edges : e.class # "shoulder" /\ ~OffBase(e),
               \A r \in Rows : r.class \in {"deep_conflict", "low"} => r.class = Truth(r.key)
        PROVE  gate_ra /\ table.found = {}
    <3>1. LabelsTrue
      BY <2>1, CleanLabels
    <3>2. table.edges = load_edges /\ load_edges \subseteq EdgeSet
      BY <3>1, TrueStructures, EdgesAre
    <3>3. table.found = contradictions(table.edges, table.banks, table.rows, table.components)
      BY DEF TableInv, Built, Merged
    <3>4. ASSUME NEW e \in table.edges
          PROVE  /\ e.class = "deep_conflict" => ~Together(table.rows, e.key[1], e.key[2])
                 /\ e.class # "shoulder"
                 /\ e.class = "low" /\ CrossPage(e.key) =>
                      /\ ~SamePages(table.components, e.key)
                      /\ ~Together(table.banks, e.key[1], e.key[2])
      <4>1. e.key \in Pairs /\ e \in EdgeSet
        BY <3>2 DEF EdgeSet
      <4>2. e.key[1] \in Nat /\ e.key[2] \in Nat
        BY <4>1, PairSet
      <4>3. e.class \in {"deep_conflict", "low"} => e.class = Truth(e.key)
        BY <3>1 DEF LabelsTrue
      <4>4. e.class = "deep_conflict" => ~Together(table.rows, e.key[1], e.key[2])
        BY <3>1, <4>3, TogetherIs DEF Truth, Conflict
      <4>5. ASSUME e.class = "low", CrossPage(e.key)
            PROVE  /\ ~SamePages(table.components, e.key)
                   /\ ~Together(table.banks, e.key[1], e.key[2])
        <5>1. page_of(e.key[1]) = e.key[1] /\ page_of(e.key[2]) = e.key[2]
          BY <2>1, <4>1, <4>5, OnBaseIsPages
        <5>2. ~SameBank(world.gpu, e.key[1], e.key[2])
          BY <4>2, <4>3, <4>5, PagesConflict DEF Truth, Conflict, CrossPage
        <5> QED
          BY <3>1, <5>1, <5>2, TogetherIs DEF SamePages
      <4> QED
        BY <2>1, <4>4, <4>5
    <3>5. \A c \in table.rows : Cardinality({page_of(pa) : pa \in c}) <= 1
      <4> TAKE c \in table.rows
      <4>1. Partition(table.rows, Nodes(load_edges))
        BY <3>1, TrueStructures
      <4>2. PICK x : x \in c
        BY <4>1 DEF Partition
      <4>3. \A y \in c : page_of(y) = page_of(x)
        <5> TAKE y \in c
        <5>1. Together(table.rows, x, y)
          BY <4>2 DEF Together
        <5> QED
          BY <3>1, <5>1, TogetherIs DEF Row
      <4>4. {page_of(pa) : pa \in c} = {page_of(x)}
        BY <4>2, <4>3
      <4>5. Cardinality({page_of(x)}) = 1
        BY FS_Singleton
      <4> QED
        BY <4>4, <4>5
    <3>6. gate_ra
      BY <3>4, <3>5 DEF gate_ra
    <3>7. table.found = {}
      BY <3>3, <3>4 DEF contradictions
    <3> QED
      BY <3>6, <3>7
  <2>2. ASSUME NEW j \in DOMAIN runs, NEW k \in DOMAIN runs, ~gate_rc(runs[j], runs[k])
        PROVE  \E r \in {runs[j], runs[k]} : Blamed(r)
    <3>1. CASE HardFlips(runs[j], runs[k]) # {}
      BY <3>1, FlipIsWrong
    <3>2. CASE NoCommonAnchor(runs[j], runs[k]) # {}
      <4>1. PICK base \in NoCommonAnchor(runs[j], runs[k]) : TRUE
        BY <3>2
      <4>2. /\ base \in ToSet(runs[j].shape.bases) /\ base \in ToSet(runs[k].shape.bases)
            /\ AnchorsIn(runs[j], base) \cup AnchorsIn(runs[k], base) # {}
            /\ AnchorsIn(runs[j], base) \cap AnchorsIn(runs[k], base) = {}
        BY <4>1 DEF NoCommonAnchor
      <4>3. CASE \E at \in AnchorsIn(runs[j], base) : at \notin AnchorsIn(runs[k], base)
        BY <4>2, <4>3, LostAnchorIsWrong
      <4>4. CASE \E at \in AnchorsIn(runs[k], base) : at \notin AnchorsIn(runs[j], base)
        BY <4>2, <4>4, LostAnchorIsWrong
      <4> QED
        BY <4>2, <4>3, <4>4
    <3> QED
      BY <2>2, <3>1, <3>2 DEF gate_rc
  <2> QED
    BY <2>1, <2>2, Zenon DEF GatesBlameMisreads, Blamed
<1> QED
  BY <1>1, TableIsOfItsRuns, PTL

-----------------------------------------------------------------------------
(* The answers.                                                            *)

\* An anchor of the table is an offset in a page that some run read deep.
LEMMA AnchorsAre ==
  ASSUME TableInv, pc \notin {"collect", "refused"}, NEW cell \in table.anchors
  PROVE  /\ \E base \in Pages : \E low \in 1 .. PageBytes - 1 : cell = <<base, base + low>>
         /\ cell \in Pairs /\ cell[1] < cell[2] /\ page_of(cell[1]) = page_of(cell[2])
         /\ cell[1] \in Pages /\ cell[2] - cell[1] \in 1 .. PageBytes - 1
         /\ \E r \in Rows : r.key = cell /\ r.class = "deep_conflict" /\ FromRun(r)
<1> DEFINE InSweep(k) == {Key(runs[k].reads[i].at) : i \in 1 .. Swept(runs[k].shape)}
           Seen(c) == {k \in DOMAIN runs : c \in InSweep(k)}
           Votes(c) == {k \in Seen(c) : \E i \in 1 .. Swept(runs[k].shape) :
                          runs[k].reads[i] = Read(c, "deep_conflict")}
<1>1. table.anchors = build_anchors
  BY DEF TableInv, Merged
<1>2. 2 * Cardinality(Votes(cell)) > Cardinality(Seen(cell))
      /\ \E k \in DOMAIN runs : cell \in InSweep(k)
  BY <1>1 DEF build_anchors
<1>3. Votes(cell) # {}
  <2>1. IsFiniteSet(DOMAIN runs)
    BY SourceTypes, FS_Interval
  <2>2. IsFiniteSet(Seen(cell))
    BY <2>1, FS_Subset
  <2> HIDE DEF Seen
  <2>3. Cardinality(Seen(cell)) \in Nat
    BY <2>2, FS_CardinalityType
  <2>4. Votes(cell) = {} => Cardinality(Votes(cell)) = 0
    BY FS_EmptySet
  <2> HIDE DEF Votes
  <2> QED
    BY <1>2, <2>3, <2>4
<1>4. PICK k \in DOMAIN runs : \E i \in 1 .. Swept(runs[k].shape) :
        runs[k].reads[i] = Read(cell, "deep_conflict")
  BY <1>3
<1>5. PICK i \in 1 .. Swept(runs[k].shape) : runs[k].reads[i] = Read(cell, "deep_conflict")
  BY <1>4
<1>6. /\ runs[k].shape \in Shapes /\ runs[k].reads \in Seq(Reads)
      /\ Len(runs[k].reads) = Len(Measured(runs[k].shape))
  BY SourceTypes
<1>7. Swept(runs[k].shape) \in 0 .. Len(Measured(runs[k].shape))
      /\ Measured(runs[k].shape) \in Seq(Pairs)
  BY <1>6, MeasuredIs
<1>8. i \in DOMAIN runs[k].reads
  BY <1>6, <1>7
<1>9. runs[k].reads[i].at = cell /\ runs[k].reads[i].class = "deep_conflict"
  BY <1>5 DEF Read
<1>10. cell = Measured(runs[k].shape)[i] /\ cell \in Pairs
  BY <1>8, <1>9, SourceTypes
<1>11. PICK base \in ToSet(runs[k].shape.bases), low \in ToSet(AnchorCandidates) :
         cell = <<base, base + low>>
  <2>1. \A n \in 1 .. Swept(runs[k].shape) : \E b \in ToSet(runs[k].shape.bases) :
          \E l \in ToSet(AnchorCandidates) : Measured(runs[k].shape)[n] = <<b, b + l>>
    BY <1>6, MeasuredIs
  <2> QED
    BY <1>10, <2>1
<1>12. base \in Pages /\ low \in 1 .. PageBytes - 1
  <2>1. runs[k].shape.bases \in Seq(Pages)
    BY <1>6, TableAssumption
  <2>2. \A p \in ToSet(runs[k].shape.bases) : p \in Pages
    BY <2>1 DEF ToSet
  <2> QED
    BY <2>2, OffsetsType
<1>13. base \in Nat /\ page_of(base) = base /\ page_of(base + low) = base
  BY <1>12, PagesType, OffsetInPage, PageBytesType
<1>14. cell[1] = base /\ cell[2] = base + low /\ low \in Nat /\ low > 0
  BY <1>11, <1>12
<1>15. cell[1] < cell[2] /\ cell[2] - cell[1] = low
  BY <1>13, <1>14
<1>16. \E r \in Rows : r.key = cell /\ r.class = "deep_conflict" /\ FromRun(r)
  <2>1. Key(cell) = cell
    BY <1>15 DEF Key
  <2> QED
    BY <1>8, <1>9, <2>1, RowsAre
<1> QED
  BY <1>10, <1>11, <1>12, <1>13, <1>14, <1>15, <1>16

\* A true anchor is a conflict.
LEMMA AnchorAnswer ==
  ASSUME AnchorsTrue, NEW x, NEW y, <<x, y>> \in table.anchors
  PROVE  TrueAnswer(x, y, Answer("yes", "different"))
<1>1. Truth(<<x, y>>) = "deep_conflict"
  BY DEF AnchorsTrue
<1>2. Conflict(world.gpu, x, y)
  BY <1>1 DEF Truth
<1> QED
  BY <1>2 DEF TrueAnswer, Answer, Conflict

\* The pages of the table begin pages of the memory.
LEMMA TablePages ==
  ASSUME TableInv, Built, NEW page \in table.pages
  PROVE  page \in Pages
<1>1. table.pages = CensusPages \cup UNION {ToSet(runs[k].shape.bases) : k \in DOMAIN runs}
  BY DEF TableInv, Built, Merged, Pool
<1>2. \A k \in DOMAIN runs : \A p \in ToSet(runs[k].shape.bases) : p \in Pages
  <2> TAKE k \in DOMAIN runs
  <2>1. runs[k].shape.bases \in Seq(Pages)
    BY SourceTypes, TableAssumption
  <2> QED
    BY <2>1 DEF ToSet
<1>3. page \in CensusPages \/ \E k \in DOMAIN runs : page \in ToSet(runs[k].shape.bases)
  BY <1>1
<1> QED
  BY <1>2, <1>3, TableAssumption

\* A page that a run read right against a representative of its bank is
\* linked to it.
LEMMA ReadRightIsLinked ==
  ASSUME TableInv, Built, LabelsTrue, NEW k \in DOMAIN runs,
         NEW rep \in ToSet(runs[k].shape.reps), NEW z \in ToSet(runs[k].shape.bases),
         z # rep, SameBank(world.gpu, z, rep), WrongRows(Key(<<z, rep>>)) = {}
  PROVE  Together(table.components, z, rep)
<1>1. runs[k].shape \in Shapes
  BY SourceTypes
<1>2. z \in Pages /\ rep \in Pages
  <2>1. runs[k].shape.bases \in Seq(Pages) /\ runs[k].shape.reps \in Seq(Pages)
    BY <1>1, TableAssumption
  <2>2. /\ \A p \in ToSet(runs[k].shape.bases) : p \in Pages
        /\ \A p \in ToSet(runs[k].shape.reps) : p \in Pages
    BY <2>1 DEF ToSet
  <2> QED
    BY <2>2
<1>3. z \in Nat /\ rep \in Nat /\ page_of(z) = z /\ page_of(rep) = rep
  BY <1>2, PagesType
<1> DEFINE at == <<z, rep>>
           key == Key(at)
<1>4. at \in Pairs
  BY <1>3 DEF Pairs
<1>5. (key = at \/ key = <<rep, z>>) /\ Truth(key) = Truth(at) /\ key[1] # key[2]
  BY <1>4, KeyIs
<1>6. Truth(at) = "deep_conflict"
  BY <1>3, PagesConflict DEF Truth, Conflict
<1>7. PICK i \in DOMAIN runs[k].reads : runs[k].reads[i].at = at
  <2>1. at \in ToSet(Measured(runs[k].shape))
    BY <1>1, MeasuredIs
  <2>2. \E i \in DOMAIN Measured(runs[k].shape) : Measured(runs[k].shape)[i] = at
    BY <2>1 DEF ToSet
  <2> HIDE DEF at
  <2> QED
    BY <2>2, SourceTypes
<1>8. PICK q \in Rows : FromRun(q) /\ q.key = key
  BY <1>7, RowsAre
<1> HIDE DEF key, at
<1>9. \A r \in Rows : r.key = key => r.class = "deep_conflict"
  BY <1>5, <1>6 DEF WrongRows, key, at
<1>10. ~Contested(Rows, key)
  BY <1>9, VotesAre
<1>11. q \in Settled(Rows)
  BY <1>8, <1>10, SettledAre
<1>12. PICK e \in load_edges : e.key = key
  BY <1>5, <1>8, <1>11, EdgesAre
<1>13. PICK r : KeptRow(e, r)
  BY EdgesAre
<1>14. r \in Rows /\ r.key = key /\ r.class = e.class
  BY <1>10, <1>12, <1>13, SettledAre DEF KeptRow
<1>15. e.class = "deep_conflict"
  BY <1>9, <1>14
<1>16. page_of(key[1]) # page_of(key[2])
       /\ (<<page_of(key[1]), page_of(key[2])>> = <<z, rep>>
           \/ <<page_of(key[1]), page_of(key[2])>> = <<rep, z>>)
  BY <1>3, <1>5 DEF at
<1>17. <<page_of(key[1]), page_of(key[2])>> \in Links
  BY <1>12, <1>15, <1>16, LinksAre DEF CrossPage
<1>18. Joins(table.components, <<page_of(key[1]), page_of(key[2])>>)
  BY <1>17, TrueStructures
<1> QED
  BY <1>16, <1>18 DEF Joins, Together

\* Two pages of one bank that a run compared are in one component.
LEMMA ComparedIsLinked ==
  ASSUME TableInv, Built, LabelsTrue, NEW p, NEW q, ComparedInOneRun(p, q),
         p # q, SameBank(world.gpu, p, q)
  PROVE  Together(table.components, p, q)
<1>0. PICK k \in DOMAIN runs : \E rep \in ToSet(runs[k].shape.reps) :
        /\ {p, q} \subseteq ToSet(runs[k].shape.bases)
        /\ SameBank(world.gpu, rep, p)
        /\ \A z \in {p, q} \ {rep} : WrongRows(Key(<<z, rep>>)) = {}
  BY DEF ComparedInOneRun
<1>1. PICK rep \in ToSet(runs[k].shape.reps) :
        /\ {p, q} \subseteq ToSet(runs[k].shape.bases)
        /\ SameBank(world.gpu, rep, p)
        /\ \A z \in {p, q} \ {rep} : WrongRows(Key(<<z, rep>>)) = {}
  BY <1>0
<1>2. \A z \in {p, q} : z # rep => Together(table.components, z, rep)
  BY <1>1, ReadRightIsLinked DEF SameBank
<1>3. \A x, y : Together(table.components, x, y) => Together(table.components, y, x)
  BY DEF Together
<1>4. \A c \in table.components, d \in table.components : c \cap d # {} => c = d
  BY TrueStructures DEF Partition
<1>5. CASE p # rep /\ q # rep
  BY <1>2, <1>4, <1>5 DEF Together
<1>6. CASE p = rep
  BY <1>2, <1>3, <1>6
<1>7. CASE q = rep
  BY <1>2, <1>7
<1> QED
  BY <1>5, <1>6, <1>7

\* Answers of the kinds that a structure backs.
LEMMA BackedAnswers ==
  ASSUME NEW x, NEW y
  PROVE  /\ TrueAnswer(x, y, Unknown)
         /\ SameBank(world.gpu, x, y) => TrueAnswer(x, y, Answer("yes", "unknown"))
         /\ SameBank(world.gpu, x, y) /\ Row(world.gpu, x) = Row(world.gpu, y) =>
              TrueAnswer(x, y, Answer("yes", "same"))
         /\ Conflict(world.gpu, x, y) => TrueAnswer(x, y, Answer("yes", "different"))
BY DEF TrueAnswer, Answer, Unknown, Conflict

\* The answers about two pages.
LEMMA PageAnswers ==
  ASSUME TableInv, Built, LabelsTrue, NEW p \in table.pages, NEW q \in table.pages, p < q
  PROVE  TrueAnswer(p, q, relation(p, q))
<1>1. p \in Nat /\ q \in Nat /\ page_of(p) = p /\ page_of(q) = q
  BY TablePages, PagesType
<1>2. p # q /\ relation(p, q) = CrossPageRelation(p, q)
  BY <1>1 DEF relation, CrossPage
<1>3. CASE ~(Linked(page_of(p)) /\ Linked(page_of(q)))
  BY <1>2, <1>3, BackedAnswers DEF CrossPageRelation
<1>4. CASE Linked(page_of(p)) /\ Linked(page_of(q)) /\ SamePages(table.components, <<p, q>>)
  <2>1. Together(table.components, p, q)
    BY <1>1, <1>4 DEF SamePages
  <2>2. Conflict(world.gpu, p, q)
    BY <1>1, <1>2, <2>1, TogetherIs, PagesConflict DEF Conflict
  <2>3. relation(p, q) = Answer("yes", "different")
    BY <1>2, <1>4 DEF CrossPageRelation
  <2> QED
    BY <2>2, <2>3, BackedAnswers
<1>5. CASE Linked(page_of(p)) /\ Linked(page_of(q)) /\ ~SamePages(table.components, <<p, q>>)
  <2>1. relation(p, q) = Answer("no", "unknown")
    BY <1>2, <1>5 DEF CrossPageRelation
  <2>2. ~Together(table.components, p, q)
    BY <1>1, <1>5 DEF SamePages
  <2>3. ~SameBank(world.gpu, p, q) \/ ~ComparedInOneRun(p, q)
    BY <1>2, <2>2, ComparedIsLinked
  <2> QED
    BY <2>1, <2>3 DEF TrueAnswer, Answer
<1> QED
  BY <1>3, <1>4, <1>5

\* The answers about two measured offsets of one page.
LEMMA OffsetAnswers ==
  ASSUME TableInv, Built, LabelsTrue, AnchorsTrue, NEW p \in table.pages,
         NEW i \in Offsets, NEW j \in Offsets, i < j
  PROVE  TrueAnswer(p + i, p + j, relation(p + i, p + j))
<1> DEFINE x == p + i
           y == p + j
<1>1. p \in Nat /\ page_of(p) = p /\ in_page(p) = 0
  BY TablePages, PagesType
<1>2. i \in 0 .. PageBytes - 1 /\ j \in 0 .. PageBytes - 1
  BY OffsetsType, PageBytesType DEF Offsets
<1>3. page_of(x) = p /\ page_of(y) = p
  BY <1>1, <1>2, OffsetInPage
<1>4. x < y
  BY <1>1, <1>2, PageBytesType
<1> SUFFICES TrueAnswer(x, y, relation(x, y))
  OBVIOUS
<1> HIDE DEF x, y
<1>5. relation(x, y) = InPageRelation(x, y) /\ Key(<<x, y>>) = <<x, y>>
  BY <1>3, <1>4 DEF relation, CrossPage, Key
<1>6. CASE Together(table.rows, x, y)
  BY <1>5, <1>6, TogetherIs, BackedAnswers DEF InPageRelation
<1>7. CASE ~Together(table.rows, x, y) /\ <<x, y>> \in table.anchors
  BY <1>5, <1>7, AnchorAnswer DEF InPageRelation
<1>8. CASE ~Together(table.rows, x, y) /\ <<x, y>> \notin table.anchors /\ Together(table.banks, x, y)
  BY <1>5, <1>8, TogetherIs, BackedAnswers DEF InPageRelation
<1>9. CASE ~Together(table.rows, x, y) /\ <<x, y>> \notin table.anchors /\ ~Together(table.banks, x, y)
  BY <1>5, <1>9, BackedAnswers DEF InPageRelation
<1> QED
  BY <1>6, <1>7, <1>8, <1>9

\* Pages of one component are in conflict.
LEMMA PartnersConflict ==
  ASSUME TableInv, Built, LabelsTrue, NEW page \in table.pages, NEW other \in Partners(page)
  PROVE  Conflict(world.gpu, page, other)
<1>1. Together(table.components, page, other) /\ other # page
  BY DEF Partners, Together
<1>2. page \in Nat /\ page_of(page) = page
  BY TablePages, PagesType
<1>3. other \in LinkEnds
  BY <1>1, TrueStructures DEF Together, Partition
<1>4. PICK link \in Links : other \in ToSet(link)
  BY <1>3 DEF LinkEnds
<1>5. link \in Pairs /\ \E e \in load_edges : link = <<page_of(e.key[1]), page_of(e.key[2])>>
  BY LinksAre
<1>6. PICK e \in load_edges : link = <<page_of(e.key[1]), page_of(e.key[2])>>
  BY <1>5
<1>7. e.key \in Pairs
  BY EdgesAre DEF EdgeSet
<1>8. e.key[1] \in Nat /\ e.key[2] \in Nat
  BY <1>7, PairSet
<1>9. other \in {page_of(e.key[1]), page_of(e.key[2])}
  BY <1>4, <1>5, <1>6, PairSet
<1>10. other \in Nat /\ page_of(other) = other
  BY <1>8, <1>9, PageSplit
<1> QED
  BY <1>1, <1>2, <1>10, PagesConflict, TogetherIs DEF Conflict

\* While the labels and the anchors of a table are true, so are its answers and
\* its sites; its "no" is, of pages that one run compared.
THEOREM AnswersAreSound == FaultSpec => []AnswersSound
<1>1. TableInv => AnswersSound
  <2> SUFFICES ASSUME TableInv, Built, LabelsTrue, AnchorsTrue PROVE AnswersSound
    BY DEF AnswersSound
  <2>1. ASSUME NEW page \in table.pages, NEW s \in select_sites("same-bank-diff-row", page)
        PROVE  TrueAnswer(s.a, s.b, s.answer)
    <3>1. CASE \E cell \in table.anchors :
                 cell[1] = page /\ s = Site(page, cell[2], "yes", "different")
      <4>1. PICK cell \in table.anchors :
              cell[1] = page /\ s = Site(page, cell[2], "yes", "different")
        BY <3>1
      <4>2. cell = <<page, cell[2]>>
        BY <4>1, AnchorsAre, PairSet DEF Built
      <4>3. s.a = page /\ s.b = cell[2] /\ s.answer = Answer("yes", "different")
        BY <4>1 DEF Site
      <4> QED
        BY <4>2, <4>3, AnchorAnswer
    <3>2. CASE \E other \in Partners(page) : s = Site(page, other, "yes", "different")
      BY <3>2, PartnersConflict, BackedAnswers DEF Site
    <3> QED
      BY <3>1, <3>2 DEF select_sites
  <2>2. ASSUME NEW page \in table.pages, NEW s \in select_sites("same-row-diff-col", page)
        PROVE  TrueAnswer(s.a, s.b, s.answer)
    <3>1. PICK c \in table.rows : s \in {Site(x, y, "yes", "same") : x \in c, y \in c}
      BY DEF select_sites
    <3>2. PICK x \in c, y \in c : s = Site(x, y, "yes", "same")
      BY <3>1
    <3>3. Together(table.rows, x, y)
      BY <3>2 DEF Together
    <3> QED
      BY <3>2, <3>3, TogetherIs, BackedAnswers DEF Site
  <2>3. ASSUME NEW page \in table.pages, NEW s \in select_sites("row-adjacent", page)
        PROVE  TrueAnswer(s.a, s.b, s.answer)
    <3>1. PICK other \in Partners(page) : s = Site(page, other, "yes", "unknown")
      BY DEF select_sites
    <3> QED
      BY <3>1, PartnersConflict, BackedAnswers DEF Site, Conflict
  <2> QED
    BY <2>1, <2>2, <2>3, PageAnswers, OffsetAnswers DEF AnswersSound
<1> QED
  BY <1>1, TableIsOfItsRuns, PTL

-----------------------------------------------------------------------------
(* The sampler: no two flips of a trial meet.                              *)

\* The sites of the completed events, and those of the event under way.
PlacedSites == UNION {ToSet(e) : e \in placed}
OpenSites == ToSet(attempt)

\* A site is what _make_site makes of a cell of the surface.
Made(x) ==
  /\ x.cell \in Resident /\ x.allocation = covering_row(x.cell).allocation
  /\ x.byte_offset = covering_row(x.cell).va_page + x.cell[2] - covering_row(x.cell).va_base

Place(x) == <<x.cell, x.bit>>

\* Appending to a sequence adds one element.
LEMMA AppendAdds ==
  ASSUME NEW s, s \in Seq(ToSet(s)), NEW e
  PROVE  /\ Append(s, e) \in Seq(ToSet(Append(s, e)))
         /\ ToSet(Append(s, e)) = ToSet(s) \cup {e}
         /\ Len(Append(s, e)) = Len(s) + 1 /\ Len(s) \in Nat
         /\ \A i \in 1 .. Len(s) : Append(s, e)[i] = s[i]
         /\ Append(s, e)[Len(s) + 1] = e
<1> DEFINE t == Append(s, e)
<1>1. /\ Len(s) \in Nat /\ t \in Seq(ToSet(s) \cup {e}) /\ Len(t) = Len(s) + 1
      /\ \A i \in 1 .. Len(s) : t[i] = s[i]
      /\ t[Len(s) + 1] = e
  OBVIOUS
<1>2. DOMAIN t = 1 .. Len(s) + 1 /\ DOMAIN s = 1 .. Len(s)
  BY <1>1
<1> HIDE DEF t
<1>3. 1 .. Len(s) + 1 = 1 .. Len(s) \cup {Len(s) + 1}
  BY <1>1
<1>4. ToSet(t) = ToSet(s) \cup {e}
  BY <1>1, <1>2, <1>3 DEF ToSet
<1> QED
  BY <1>1, <1>4 DEF t

\* An event under way is of a known pattern, and has sites still to draw.
PatternInv ==
  /\ DOMAIN left = {"s", "d", "t"} /\ attempt \in Seq(OpenSites)
  /\ pattern = "none" => attempt = <<>>
  /\ pattern # "none" => pattern \in DOMAIN Legs /\ Len(attempt) < Len(Legs[pattern])

\* The first site of every pattern is its base; those after it have one of two labels.
LEMMA LegsAre ==
  ASSUME NEW p \in DOMAIN Legs
  PROVE  /\ Len(Legs[p]) \in Nat /\ Len(Legs[p]) > 0 /\ Legs[p][1] = "base"
         /\ \A i \in 2 .. Len(Legs[p]) : Legs[p][i] \in {"block", "anchor"}
<1>1. p \in {"SBU", "H2", "H3", "V2", "V3", "L"}
  BY DEF Legs
<1> QED
  BY <1>1 DEF Legs

\* The pattern of the event is known through every draw and retry.
LEMMA PatternInvariant == FaultSpec => []PatternInv
<1>1. FaultInit => PatternInv
  BY DEF FaultInit, PatternInv, OpenSites, ToSet
<1>2. PatternInv /\ TableInv /\ [FaultNext]_vars => PatternInv'
  <2> SUFFICES ASSUME PatternInv, TableInv, [FaultNext]_vars PROVE PatternInv'
    OBVIOUS
  <2>1. ASSUME UNCHANGED <<left, attempt, pattern>> PROVE PatternInv'
    BY <2>1 DEF PatternInv, OpenSites
  <2>2. CASE StartTrial
    <3>1. DOMAIN left' = {"s", "d", "t"}
      <4>1. left' = left \/ left' = world.campaign.level
        BY <2>2 DEF StartTrial
      <4>2. world.campaign.level \in [s : Nat, d : Nat, t : Nat]
        BY FaultAssumption DEF TableInv
      <4> QED
        BY <4>1, <4>2 DEF PatternInv
    <3> QED
      BY <2>2, <3>1 DEF StartTrial, PatternInv, OpenSites
  <2>3. CASE NextEvent
    <3>1. PICK size \in DOMAIN left : \E p \in Patterns[size] :
            pattern' = p /\ left' = [left EXCEPT ![size] = @ - 1]
      BY <2>3 DEF NextEvent
    <3>2. DOMAIN left' = DOMAIN left
      BY <3>1
    <3>3. pattern' \in DOMAIN Legs /\ pattern' # "none"
      BY <3>1 DEF PatternInv, Patterns, Legs
    <3>4. attempt' = attempt /\ attempt = <<>>
      BY <2>3 DEF NextEvent, PatternInv
    <3> QED
      BY <3>2, <3>3, <3>4, LegsAre DEF PatternInv, OpenSites
  <2>4. CASE Draw
    <3>1. pattern # "none" /\ left' = left
      BY <2>4 DEF Draw
    <3>2. PICK s : \/ attempt' = <<>> /\ pattern' = "none"
                   \/ /\ attempt' = Append(attempt, s) /\ pattern' = pattern
                      /\ Len(Append(attempt, s)) # Len(Legs[pattern])
      BY <2>4 DEF Draw
    <3>3. CASE attempt' = <<>> /\ pattern' = "none"
      BY <3>1, <3>3 DEF PatternInv, OpenSites, ToSet
    <3>4. CASE /\ attempt' = Append(attempt, s) /\ pattern' = pattern
               /\ Len(Append(attempt, s)) # Len(Legs[pattern])
      <4>1. attempt' \in Seq(OpenSites') /\ Len(attempt') = Len(attempt) + 1 /\ Len(attempt) \in Nat
        BY <3>4, AppendAdds DEF PatternInv, OpenSites
      <4> QED
        BY <3>1, <3>4, <4>1, LegsAre DEF PatternInv
    <3> QED
      BY <3>2, <3>3, <3>4
  <2>5. CASE Miss
    <3>1. UNCHANGED <<left, pattern>> /\ attempt' = <<>> /\ pattern # "none"
      BY <2>5 DEF Miss
    <3>2. attempt' \in Seq(OpenSites') /\ Len(attempt') = 0
      BY <3>1 DEF OpenSites, ToSet
    <3> QED
      BY <3>1, <3>2, LegsAre DEF PatternInv
  <2>6. CASE FinishTrial \/ (Next /\ UNCHANGED fault_vars) \/ UNCHANGED vars
    BY <2>1, <2>6 DEF FinishTrial, fault_vars, vars
  <2> QED
    BY <2>2, <2>3, <2>4, <2>5, <2>6 DEF FaultNext
<1> QED
  BY <1>1, <1>2, TableIsOfItsRuns, PTL DEF FaultSpec

\* What is reserved are the places of the sites, each of one site; the placed
\* sites are as many as were counted.
SitesInv ==
  /\ TableInv
  /\ count \in Nat /\ IsFiniteSet(PlacedSites) /\ Cardinality(PlacedSites) = count
  /\ attempt \in Seq(OpenSites)
  /\ IsFiniteSet(OpenSites) /\ Cardinality(OpenSites) = Len(attempt)
  /\ OpenSites \cap PlacedSites = {}
  /\ used = {Place(x) : x \in PlacedSites \cup OpenSites}
  /\ \A x \in PlacedSites \cup OpenSites, y \in PlacedSites \cup OpenSites :
       Place(x) = Place(y) => x = y
  /\ \A x \in PlacedSites \cup OpenSites : Made(x)
  /\ pc = "sampled" => count = world.campaign.bits

\* The surface is a matter of the world alone.
LEMMA SameWorldSameSurface ==
  ASSUME world' = world
  PROVE  Resident' = Resident /\ \A x : Made(x)' <=> Made(x)
<1>1. surface_rows_for' = surface_rows_for
  BY DEF surface_rows_for, _clip_to_prefix
<1>2. Resident' = Resident
  BY <1>1 DEF Resident
<1>3. \A cell : covering_row(cell)' = covering_row(cell)
  BY <1>1 DEF covering_row
<1> QED
  BY <1>2, <1>3 DEF Made

\* A step that leaves the sites alone.
LEMMA SitesStay ==
  ASSUME SitesInv, TableInv', UNCHANGED <<world, attempt, used, placed, count>>,
         pc' = "sampled" => count = world.campaign.bits
  PROVE  SitesInv'
<1>1. PlacedSites' = PlacedSites /\ OpenSites' = OpenSites
  BY DEF PlacedSites, OpenSites
<1> QED
  BY <1>1, SameWorldSameSurface DEF SitesInv, Place

\* A draw adds one site, on a place of its own.
LEMMA DrawAdds ==
  ASSUME SitesInv, PatternInv, Draw
  PROVE  \E s : /\ Made(s) /\ Place(s) \notin used /\ s \notin PlacedSites \cup OpenSites
                /\ used' = used \cup {Place(s)}
                /\ \/ /\ placed' = placed \cup {Append(attempt, s)}
                      /\ count' = count + Len(Append(attempt, s)) /\ attempt' = <<>>
                   \/ attempt' = Append(attempt, s) /\ UNCHANGED <<placed, count>>
<1>1. PICK draw \in {d \in Drawn : Usable(d)} : \E bit \in _draw_bit(draw.cell) :
        LET grown == Append(attempt, _make_site(draw, bit)) IN
        /\ used' = used \cup {<<draw.cell, bit>>}
        /\ \/ /\ placed' = placed \cup {grown} /\ count' = count + Len(grown) /\ attempt' = <<>>
           \/ attempt' = grown /\ UNCHANGED <<placed, count>>
  BY DEF Draw
<1>2. PICK bit \in _draw_bit(draw.cell) :
        LET grown == Append(attempt, _make_site(draw, bit)) IN
        /\ used' = used \cup {<<draw.cell, bit>>}
        /\ \/ /\ placed' = placed \cup {grown} /\ count' = count + Len(grown) /\ attempt' = <<>>
           \/ attempt' = grown /\ UNCHANGED <<placed, count>>
  BY <1>1
<1> DEFINE s == _make_site(draw, bit)
<1>3. draw.cell \in Resident
  <2>1. CASE attempt = <<>>
    <3>1. Legs[pattern][Len(attempt) + 1] = "base"
      BY <2>1, LegsAre DEF PatternInv, Draw
    <3>2. Drawn = {[cell |-> cell, mask |-> 0] : cell \in Resident}
      BY <2>1, <3>1 DEF Drawn
    <3> QED
      BY <3>2
  <2>2. CASE attempt # <<>>
    BY <2>2 DEF Usable
  <2> QED
    BY <2>1, <2>2
<1>4. Place(s) = <<draw.cell, bit>> /\ Made(s)
  BY <1>3 DEF Place, Made, _make_site
<1>5. <<draw.cell, bit>> \notin used
  BY DEF _draw_bit
<1> HIDE DEF s
<1>6. s \notin PlacedSites \cup OpenSites
  BY <1>4, <1>5 DEF SitesInv
<1> QED
  BY <1>2, <1>4, <1>5, <1>6 DEF s

\* A draw keeps the sites apart.
LEMMA DrawKeepsSites == ASSUME SitesInv, PatternInv, TableInv', Draw PROVE SitesInv'
<1>1. PICK s : /\ Made(s) /\ Place(s) \notin used /\ s \notin PlacedSites \cup OpenSites
               /\ used' = used \cup {Place(s)}
               /\ \/ /\ placed' = placed \cup {Append(attempt, s)}
                     /\ count' = count + Len(Append(attempt, s)) /\ attempt' = <<>>
                  \/ attempt' = Append(attempt, s) /\ UNCHANGED <<placed, count>>
  BY DrawAdds
<1>2. world' = world /\ pc = "sample"
  BY DEF Draw, table_vars
<1>3. pc' = pc
  BY DEF Draw, table_vars
<1> DEFINE old == PlacedSites \cup OpenSites
           new == PlacedSites' \cup OpenSites'
<1>4. /\ count \in Nat /\ IsFiniteSet(PlacedSites) /\ Cardinality(PlacedSites) = count
      /\ attempt \in Seq(OpenSites)
      /\ IsFiniteSet(OpenSites) /\ Cardinality(OpenSites) = Len(attempt)
      /\ OpenSites \cap PlacedSites = {} /\ used = {Place(x) : x \in old}
      /\ \A x \in old, y \in old : Place(x) = Place(y) => x = y
      /\ \A x \in old : Made(x)
  BY DEF SitesInv
<1>5. /\ Append(attempt, s) \in Seq(ToSet(Append(attempt, s)))
      /\ ToSet(Append(attempt, s)) = OpenSites \cup {s}
      /\ Len(Append(attempt, s)) = Len(attempt) + 1 /\ Len(attempt) \in Nat
  BY <1>4, AppendAdds DEF OpenSites
<1>6. IsFiniteSet(OpenSites \cup {s}) /\ Cardinality(OpenSites \cup {s}) = Len(attempt) + 1
  BY <1>1, <1>4, FS_AddElement
<1>7. /\ count' \in Nat /\ IsFiniteSet(PlacedSites') /\ Cardinality(PlacedSites') = count'
      /\ attempt' \in Seq(OpenSites')
      /\ IsFiniteSet(OpenSites') /\ Cardinality(OpenSites') = Len(attempt')
      /\ OpenSites' \cap PlacedSites' = {} /\ new = old \cup {s}
  <2>1. CASE placed' = placed \cup {Append(attempt, s)}
             /\ count' = count + Len(Append(attempt, s)) /\ attempt' = <<>>
    <3>1. PlacedSites' = PlacedSites \cup (OpenSites \cup {s})
      BY <1>5, <2>1 DEF PlacedSites
    <3>2. OpenSites' = {} /\ attempt' \in Seq(OpenSites') /\ Len(attempt') = 0
      BY <2>1 DEF OpenSites, ToSet
    <3>3. PlacedSites \cap (OpenSites \cup {s}) = {}
      BY <1>1, <1>4
    <3> DEFINE U == PlacedSites \cup (OpenSites \cup {s})
    <3>4. IsFiniteSet(U) /\ Cardinality(U) = count + (Len(attempt) + 1) - 0
      <4>1. Cardinality(PlacedSites \cap (OpenSites \cup {s})) = 0
        BY <3>3, FS_EmptySet
      <4> QED
        BY <1>4, <1>6, <4>1, FS_Union, ZenonT(30)
    <3>5. IsFiniteSet({}) /\ Cardinality({}) = 0
      BY FS_EmptySet
    <3> HIDE DEF U
    <3>6. PlacedSites' = U
      BY <3>1 DEF U
    <3>7. count' = count + (Len(attempt) + 1) /\ count' \in Nat
      BY <1>4, <1>5, <2>1
    <3>8. Cardinality(U) = count'
      BY <1>4, <1>5, <3>4, <3>7
    <3>9. new = old \cup {s}
      BY <3>1, <3>2
    <3> QED
      BY <3>2, <3>4, <3>5, <3>6, <3>7, <3>8, <3>9
  <2>2. CASE attempt' = Append(attempt, s) /\ UNCHANGED <<placed, count>>
    <3>1. PlacedSites' = PlacedSites /\ OpenSites' = OpenSites \cup {s}
      BY <1>5, <2>2 DEF PlacedSites, OpenSites
    <3> QED
      BY <1>1, <1>4, <1>5, <1>6, <2>2, <3>1
  <2> QED
    BY <1>1, <2>1, <2>2
<1> HIDE DEF old, new
<1>8. used' = {Place(x) : x \in new}
  BY <1>1, <1>4, <1>7
<1>9. \A x \in new, y \in new : Place(x) = Place(y) => x = y
  BY <1>1, <1>4, <1>7
<1>10. \A x \in new : Made(x)
  BY <1>1, <1>4, <1>7
<1> QED
  BY <1>2, <1>3, <1>7, <1>8, <1>9, <1>10, SameWorldSameSurface DEF SitesInv, new, Place

\* A missed draw gives back the places of the attempt, and no others.
LEMMA MissKeepsSites == ASSUME SitesInv, TableInv', Miss PROVE SitesInv'
<1>1. used' = Returned /\ attempt' = <<>> /\ UNCHANGED <<world, placed, count>> /\ pc' # "sampled"
  BY DEF Miss
<1>2. PlacedSites' = PlacedSites /\ OpenSites' = {} /\ attempt' \in Seq(OpenSites') /\ Len(attempt') = 0
  BY <1>1 DEF PlacedSites, OpenSites, ToSet
<1>3. {<<attempt[i].cell, attempt[i].bit>> : i \in DOMAIN attempt} = {Place(x) : x \in OpenSites}
  BY DEF OpenSites, ToSet, Place
<1>4. Returned = {Place(x) : x \in PlacedSites}
  <2>1. Returned = {Place(x) : x \in PlacedSites \cup OpenSites} \ {Place(x) : x \in OpenSites}
    BY <1>3 DEF SitesInv, Returned
  <2>2. \A x \in PlacedSites, y \in OpenSites : Place(x) # Place(y)
    BY DEF SitesInv
  <2> QED
    BY <2>1, <2>2
<1>5. IsFiniteSet({}) /\ Cardinality({}) = 0
  BY FS_EmptySet
<1> QED
  BY <1>1, <1>2, <1>4, <1>5, SameWorldSameSurface DEF SitesInv, Place

\* What is reserved, and how many are placed, through every retry.
LEMMA SitesInvariant == FaultSpec => []SitesInv
<1>1. FaultInit => SitesInv
  <2> SUFFICES ASSUME FaultInit PROVE SitesInv
    OBVIOUS
  <2>1. PlacedSites = {} /\ OpenSites = {} /\ attempt \in Seq(OpenSites) /\ Len(attempt) = 0
    BY DEF FaultInit, PlacedSites, OpenSites, ToSet
  <2>2. IsFiniteSet({}) /\ Cardinality({}) = 0
    BY FS_EmptySet
  <2>3. TableInv
    BY DEF FaultInit, Init, TableInv, Runs
  <2> QED
    BY <2>1, <2>2, <2>3 DEF FaultInit, Init, SitesInv
<1>2. SitesInv /\ PatternInv /\ TableInv' /\ [FaultNext]_vars => SitesInv'
  <2> SUFFICES ASSUME SitesInv, PatternInv, TableInv', [FaultNext]_vars PROVE SitesInv'
    OBVIOUS
  <2>1. CASE Next /\ UNCHANGED fault_vars
    BY <2>1, SitesStay DEF Next, Collect, Build, fault_vars
  <2>2. CASE StartTrial
    BY <2>2, SitesStay DEF StartTrial
  <2>3. CASE NextEvent
    <3>1. UNCHANGED <<world, pc, attempt, used, placed, count>>
      BY <2>3 DEF NextEvent, table_vars
    <3> QED
      BY <3>1, SitesStay DEF SitesInv
  <2>4. CASE Draw
    BY <2>4, DrawKeepsSites
  <2>5. CASE Miss
    BY <2>5, MissKeepsSites
  <2>6. CASE FinishTrial
    BY <2>6, SitesStay DEF FinishTrial, fault_vars
  <2>7. CASE UNCHANGED vars
    <3>1. UNCHANGED <<world, pc, attempt, used, placed, count>>
      BY <2>7 DEF vars, table_vars, fault_vars
    <3> QED
      BY <3>1, SitesStay DEF SitesInv
  <2> QED
    BY <2>1, <2>2, <2>3, <2>4, <2>5, <2>6, <2>7 DEF FaultNext
<1> QED
  BY <1>1, <1>2, PatternInvariant, TableIsOfItsRuns, PTL DEF FaultSpec

\* The covering row of a cell is a part of a snapshot row that the workload
\* exposes, cut at the prefix that its allocation keeps.
LEMMA CoveringRow ==
  ASSUME TableInv, NEW cell \in Resident
  PROVE  \E r \in world.campaign.snapshot :
           /\ covering_row(cell).allocation = r.allocation
           /\ covering_row(cell).va_base = r.va_base /\ covering_row(cell).va_page = r.va_page
           /\ cell \in Cells(r) /\ cell = <<r.pa, cell[2]>>
           /\ cell[2] \in Nat /\ cell[2] < BlockBytes * PageBytes
           /\ ~r.instrument /\ r.allocation \notin world.campaign.excludes
           /\ r.allocation \in DOMAIN world.campaign.prefix =>
                cell[2] < world.campaign.prefix[r.allocation] + r.va_base - r.va_page
<1> DEFINE row == covering_row(cell)
           snapshot == world.campaign.snapshot
           prefix == world.campaign.prefix
<1>1. row \in surface_rows_for /\ cell \in Cells(row)
  BY DEF Resident, covering_row
<1> HIDE DEF row
<1>2. PICK r \in snapshot :
        /\ ~r.instrument /\ r.allocation \notin world.campaign.excludes
        /\ row \in IF r.allocation \in DOMAIN prefix THEN _clip_to_prefix(r) ELSE {r}
  BY <1>1 DEF surface_rows_for
<1>3. /\ r.va_base \in Nat /\ r.va_page \in Nat /\ r.start \in Nat /\ r.stop \in Nat
      /\ r.stop <= BlockBytes * PageBytes
      /\ \A allocation \in DOMAIN prefix : prefix[allocation] \in Nat
      /\ "stop" \in DOMAIN r
  <2>1. world \in Worlds
    BY DEF TableInv
  <2>2. r \in [allocation : {q.allocation : q \in snapshot}, instrument : BOOLEAN,
               va_base : Nat, va_page : Nat, pa : Pages, start : Nat,
               stop : 0 .. BlockBytes * PageBytes]
    BY <2>1, FaultAssumption
  <2>3. \A allocation \in DOMAIN prefix : prefix[allocation] \in Nat
    BY <2>1, FaultAssumption
  <2>4. BlockBytes \in Nat /\ PageBytes \in Nat
    BY FaultAssumption, PageBytesType
  <2>5. BlockBytes * PageBytes \in Nat
    BY <2>4
  <2> HIDE DEF snapshot, prefix
  <2>6. r.stop \in 0 .. BlockBytes * PageBytes
    BY <2>2
  <2>7. r.stop \in Nat /\ r.stop <= BlockBytes * PageBytes
    BY <2>5, <2>6
  <2> QED
    BY <2>2, <2>3, <2>7
<1>4. BlockBytes * PageBytes \in Nat
  BY FaultAssumption, PageBytesType
<1>5. CASE r.allocation \notin DOMAIN prefix
  <2>1. row = r
    BY <1>2, <1>5
  <2>2. cell = <<r.pa, cell[2]>> /\ cell[2] \in r.start .. r.stop - 1
    BY <1>1, <2>1 DEF Cells
  <2> QED
    BY <1>1, <1>2, <1>3, <1>4, <1>5, <2>1, <2>2 DEF row
<1>6. CASE r.allocation \in DOMAIN prefix
  <2> DEFINE limit == prefix[r.allocation] + r.va_base - r.va_page
  <2>1. limit \in Int
    BY <1>3, <1>6
  <2>2. row \in _clip_to_prefix(r)
    BY <1>2, <1>6
  <2>3. \/ row = r /\ limit >= r.stop
        \/ row = [r EXCEPT !.stop = limit] /\ limit < r.stop
    BY <1>3, <2>1, <2>2 DEF _clip_to_prefix
  <2> HIDE DEF limit
  <2>4. CASE row = r /\ limit >= r.stop
    <3>1. cell = <<r.pa, cell[2]>> /\ cell[2] \in r.start .. r.stop - 1
      BY <1>1, <2>4 DEF Cells
    <3>2. cell[2] < limit
      BY <1>3, <2>1, <2>4, <3>1
    <3> QED
      BY <1>1, <1>2, <1>3, <1>4, <2>4, <3>1, <3>2 DEF row, limit
  <2>5. CASE row = [r EXCEPT !.stop = limit] /\ limit < r.stop
    <3>1. /\ row.allocation = r.allocation /\ row.va_base = r.va_base /\ row.va_page = r.va_page
          /\ row.pa = r.pa /\ row.start = r.start /\ row.stop \in {limit, r.stop}
      BY <2>5
    <3>2. row.stop = limit
      BY <1>3, <2>5
    <3>3. cell = <<r.pa, cell[2]>> /\ cell[2] \in r.start .. limit - 1
      BY <1>1, <3>1, <3>2 DEF Cells
    <3>4. cell[2] \in r.start .. r.stop - 1
      BY <1>3, <2>1, <2>5, <3>3
    <3>5. cell \in Cells(r)
      BY <3>3, <3>4 DEF Cells
    <3> QED
      BY <1>2, <1>3, <1>4, <2>1, <3>1, <3>3, <3>4, <3>5 DEF row, limit
  <2> QED
    BY <2>3, <2>4, <2>5
<1> QED
  BY <1>5, <1>6

\* A number is its quotient and its remainder, and has no others.
LEMMA DivisionIsUnique ==
  ASSUME NEW d \in Nat \ {0}, NEW q \in Int, NEW r \in 0 .. d - 1
  PROVE  ((d * q) + r) \div d = q /\ ((d * q) + r) % d = r
OBVIOUS

\* The bytes of two rows of an allocation that have one offset are one byte of
\* memory.
LEMMA OneByteOneCell ==
  ASSUME TableInv, NEW x \in Resident, NEW y \in Resident,
         covering_row(x).allocation = covering_row(y).allocation,
         covering_row(x).va_page + x[2] - covering_row(x).va_base
           = covering_row(y).va_page + y[2] - covering_row(y).va_base
  PROVE  x = y
<1> DEFINE P == BlockBytes * PageBytes
<1>1. PICK r \in world.campaign.snapshot :
        /\ covering_row(x).allocation = r.allocation
        /\ covering_row(x).va_base = r.va_base /\ covering_row(x).va_page = r.va_page
        /\ x = <<r.pa, x[2]>> /\ x[2] \in Nat /\ x[2] < P
  BY CoveringRow
<1>2. PICK q \in world.campaign.snapshot :
        /\ covering_row(y).allocation = q.allocation
        /\ covering_row(y).va_base = q.va_base /\ covering_row(y).va_page = q.va_page
        /\ y = <<q.pa, y[2]>> /\ y[2] \in Nat /\ y[2] < P
  BY CoveringRow
<1>3. P \in Nat \ {0}
  BY FaultAssumption, PageBytesType
<1>4. /\ r.va_base \in Nat /\ r.va_page \in Nat /\ q.va_base \in Nat /\ q.va_page \in Nat
      /\ (r.va_page % P) = 0 /\ (q.va_page % P) = 0
      /\ r.va_base = q.va_base /\ (r.va_page = q.va_page => r.pa = q.pa)
  <2>1. world \in Worlds
    BY DEF TableInv
  <2>2. \A row \in world.campaign.snapshot :
          row \in [allocation : {w.allocation : w \in world.campaign.snapshot},
                   instrument : BOOLEAN, va_base : Nat, va_page : Nat, pa : Pages,
                   start : Nat, stop : 0 .. BlockBytes * PageBytes]
    BY <2>1, FaultAssumption
  <2>3. r.va_base \in Nat /\ r.va_page \in Nat /\ q.va_base \in Nat /\ q.va_page \in Nat
    BY <2>2
  <2>4. (r.va_page % P) = 0 /\ (q.va_page % P) = 0
    BY <2>1, FaultAssumption
  <2>5. r.allocation = q.allocation
    BY <1>1, <1>2
  <2> QED
    BY <2>1, <2>3, <2>4, <2>5, FaultAssumption
<1>5. r.va_page + x[2] = q.va_page + y[2]
  BY <1>1, <1>2, <1>4
<1> DEFINE m == r.va_page \div P
           n == q.va_page \div P
<1> HIDE DEF P
<1>6. m \in Int /\ n \in Int /\ r.va_page = P * m /\ q.va_page = P * n
  BY <1>3, <1>4
<1> HIDE DEF m, n
<1>7. x[2] \in 0 .. P - 1 /\ y[2] \in 0 .. P - 1
  BY <1>1, <1>2, <1>3
<1>8. ((P * m) + x[2]) % P = x[2] /\ ((P * n) + y[2]) % P = y[2]
  BY <1>3, <1>6, <1>7, DivisionIsUnique
<1>9. x[2] = y[2]
  BY <1>5, <1>6, <1>8
<1>10. r.va_page = q.va_page
  BY <1>4, <1>5, <1>7, <1>9
<1> QED
  BY <1>1, <1>2, <1>4, <1>9, <1>10

\* No two flips of a trial meet in a bit of an allocation; they are on the
\* exposed bytes, and as many as the level says.
THEOREM FlipsNeverMeet == FaultSpec => []SitesNeverCancel
<1>1. TableInv /\ SitesInv => SitesNeverCancel
  <2> SUFFICES ASSUME TableInv, SitesInv PROVE SitesNeverCancel
    OBVIOUS
  <2>1. AllSites = PlacedSites \cup OpenSites
    BY DEF AllSites, PlacedSites, OpenSites
  <2>2. \A x \in AllSites : Made(x)
    BY <2>1 DEF SitesInv
  <2>3. ASSUME NEW x \in AllSites, NEW y \in AllSites, Target(x) = Target(y) PROVE x = y
    <3>1. x.cell \in Resident /\ y.cell \in Resident /\ x.bit = y.bit
      BY <2>2, <2>3 DEF Made, Target
    <3>2. x.cell = y.cell
      BY <2>2, <2>3, <3>1, OneByteOneCell DEF Made, Target
    <3> QED
      BY <2>1, <3>1, <3>2 DEF SitesInv, Place
  <2>4. Cardinality(AllSites) = count + Len(attempt)
    <3>1. Cardinality(PlacedSites \cap OpenSites) = 0
      <4>1. PlacedSites \cap OpenSites = {}
        BY DEF SitesInv
      <4> QED
        BY <4>1, FS_EmptySet
    <3>2. Cardinality(AllSites) = Cardinality(PlacedSites) + Cardinality(OpenSites) - 0
      BY <2>1, <3>1, FS_Union DEF SitesInv
    <3>3. attempt \in Seq(OpenSites) /\ count \in Nat /\ Cardinality(PlacedSites) = count
          /\ Cardinality(OpenSites) = Len(attempt)
      BY DEF SitesInv
    <3>4. Len(attempt) \in Nat
      BY <3>3
    <3> QED
      BY <3>2, <3>3, <3>4
  <2>5. used = {<<x.cell, x.bit>> : x \in AllSites}
    BY <2>1 DEF SitesInv, Place
  <2>6. ASSUME NEW x \in AllSites PROVE Exposed(x)
    <3>1. /\ x.cell \in Resident /\ x.allocation = covering_row(x.cell).allocation
          /\ x.byte_offset = covering_row(x.cell).va_page + x.cell[2] - covering_row(x.cell).va_base
      BY <2>2 DEF Made
    <3>2. PICK r \in world.campaign.snapshot :
            /\ covering_row(x.cell).allocation = r.allocation
            /\ covering_row(x.cell).va_base = r.va_base /\ covering_row(x.cell).va_page = r.va_page
            /\ x.cell \in Cells(r) /\ x.cell[2] \in Nat
            /\ ~r.instrument /\ r.allocation \notin world.campaign.excludes
            /\ r.allocation \in DOMAIN world.campaign.prefix =>
                 x.cell[2] < world.campaign.prefix[r.allocation] + r.va_base - r.va_page
      BY <3>1, CoveringRow
    <3>3. r.va_base \in Nat /\ r.va_page \in Nat
          /\ \A allocation \in DOMAIN world.campaign.prefix :
               world.campaign.prefix[allocation] \in Nat
      <4>1. world \in Worlds
        BY DEF TableInv
      <4>2. r \in [allocation : {w.allocation : w \in world.campaign.snapshot},
                   instrument : BOOLEAN, va_base : Nat, va_page : Nat, pa : Pages,
                   start : Nat, stop : 0 .. BlockBytes * PageBytes]
        BY <4>1, FaultAssumption
      <4> QED
        BY <4>1, <4>2, FaultAssumption
    <3>4. x.byte_offset = r.va_page + x.cell[2] - r.va_base
      BY <3>1, <3>2
    <3>5. r.va_base + x.byte_offset - r.va_page = x.cell[2]
      BY <3>2, <3>3, <3>4
    <3>6. r.allocation \in DOMAIN world.campaign.prefix =>
            x.byte_offset < world.campaign.prefix[r.allocation]
      BY <3>2, <3>3, <3>4
    <3> QED
      BY <3>1, <3>2, <3>5, <3>6 DEF Exposed
  <2>7. pc = "sampled" => count = world.campaign.bits
    BY DEF SitesInv
  <2> QED
    BY <2>3, <2>4, <2>5, <2>6, <2>7 DEF SitesNeverCancel
<1> QED
  BY <1>1, SitesInvariant, TableIsOfItsRuns, PTL

-----------------------------------------------------------------------------
(* The bits of an address.                                                 *)

\* Powers multiply as their exponents add.
LEMMA PowerSum ==
  ASSUME NEW a \in Nat, NEW b \in Nat
  PROVE  2 ^ (a + b) = 2 ^ a * 2 ^ b
<1> DEFINE Bad == {n \in Nat : 2 ^ (a + n) # 2 ^ a * 2 ^ n}
<1>1. SUFFICES ASSUME Bad # {} PROVE FALSE
  OBVIOUS
<1>2. PICK n \in Bad : \A m \in Bad : n <= m
  BY <1>1, LeastValue
<1>3. n \in Nat /\ n # 0
  <2>1. 2 ^ 0 = 1 /\ a + 0 = a
    OBVIOUS
  <2>2. 2 ^ a \in Nat
    BY PowerType
  <2>3. 2 ^ (a + 0) = 2 ^ a * 2 ^ 0
    <3> DEFINE A == 2 ^ a
    <3>1. A = A * 1
      BY <2>2
    <3> QED
      BY <2>1, <3>1
  <2> QED
    BY <1>2, <2>3
<1> DEFINE k == n - 1
<1>4. k \in Nat /\ n = k + 1 /\ ~(n <= k)
  BY <1>3
<1> HIDE DEF k
<1>5. 2 ^ (a + k) = 2 ^ a * 2 ^ k
  BY <1>2, <1>4
<1>6. 2 ^ (a + n) = 2 * 2 ^ (a + k) /\ 2 ^ n = 2 * 2 ^ k
  <2>1. a + k \in Nat /\ a + n = (a + k) + 1
    BY <1>4
  <2> QED
    BY <1>4, <2>1, PowerDoubles
<1>7. 2 ^ a \in Nat /\ 2 ^ k \in Nat
  BY <1>4, PowerType
<1>8. \A A \in Nat, B \in Nat : 2 * (A * B) = A * (2 * B)
  OBVIOUS
<1> QED
  BY <1>2, <1>5, <1>6, <1>7, <1>8

\* Setting a bit that is clear changes no other bit.
LEMMA SetBit ==
  ASSUME NEW n \in Nat, NEW x \in Nat, (n \div 2 ^ x) % 2 = 0
  PROVE  /\ n + 2 ^ x \in Nat /\ ((n + 2 ^ x) \div 2 ^ x) % 2 = 1
         /\ \A i \in Nat : i < x => ((n + 2 ^ x) \div 2 ^ i) % 2 = (n \div 2 ^ i) % 2
         /\ \A i \in Nat : i > x => (n + 2 ^ x) \div 2 ^ i = n \div 2 ^ i
<1> DEFINE A == 2 ^ x
           m == n + A
           q == n \div A
           r == n % A
<1>1. A \in Nat \ {0}
  BY PowerType
<1>2. q % 2 = 0
  OBVIOUS
<1> HIDE DEF A
<1>3. q \in Nat /\ r \in 0 .. A - 1 /\ n = (A * q) + r
  BY <1>1
<1> HIDE DEF q, r
<1>4. m \div A = q + 1
  <2>1. m = (A * (q + 1)) + r
    BY <1>1, <1>3
  <2> HIDE DEF m
  <2> QED
    BY <1>1, <1>3, <2>1, DivisionIsUnique
<1>5. (m \div A) % 2 = 1
  BY <1>2, <1>3, <1>4
<1>6. m \in Nat
  BY <1>1
<1>7. ASSUME NEW i \in Nat, i < x PROVE (m \div 2 ^ i) % 2 = (n \div 2 ^ i) % 2
  <2> DEFINE B == 2 ^ i
             E == 2 ^ (x - i - 1)
             s == n \div B
             t == n % B
  <2>1. x - i - 1 \in Nat /\ x = i + ((x - i - 1) + 1) /\ (x - i - 1) + 1 \in Nat
    BY <1>7
  <2>2. A = B * (2 * E) /\ B \in Nat \ {0} /\ E \in Nat \ {0}
    BY <2>1, PowerSum, PowerDoubles, PowerType, ZenonT(30) DEF A
  <2> HIDE DEF B, E
  <2>3. s \in Nat /\ t \in 0 .. B - 1 /\ n = (B * s) + t
    BY <2>2
  <2> HIDE DEF s, t
  <2>4. m = (B * (s + 2 * E)) + t
    BY <2>2, <2>3
  <2> HIDE DEF m
  <2>5. m \div B = s + 2 * E
    BY <2>2, <2>3, <2>4, DivisionIsUnique
  <2>6. (s + 2 * E) % 2 = s % 2
    BY <2>2, <2>3
  <2> QED
    BY <2>5, <2>6 DEF s, B
<1>8. ASSUME NEW i \in Nat, i > x PROVE m \div 2 ^ i = n \div 2 ^ i
  <2> DEFINE j == i - x - 1
             E == 2 ^ j
             I == 2 ^ i
  <2>1. j \in Nat /\ i = x + (j + 1) /\ j + 1 \in Nat
    BY <1>8
  <2> HIDE DEF j
  <2>2. I = A * (2 * E) /\ E \in Nat \ {0}
    <3>1. 2 ^ (x + (j + 1)) = 2 ^ x * 2 ^ (j + 1)
      BY <2>1, PowerSum
    <3>2. 2 ^ (j + 1) = 2 * 2 ^ j
      BY <2>1, PowerDoubles
    <3> QED
      BY <2>1, <3>1, <3>2, PowerType DEF A
  <2> HIDE DEF E, I
  <2> DEFINE u == q \div 2
             v == u \div E
             w == u % E
  <2>3. u \in Nat /\ q = 2 * u
    BY <1>2, <1>3
  <2> HIDE DEF u
  <2>4. v \in Nat /\ w \in 0 .. E - 1 /\ u = (E * v) + w
    BY <2>2, <2>3
  <2> HIDE DEF v, w
  <2> DEFINE low == (2 * (A * w)) + r
  <2>5. n = (I * v) + low /\ m = (I * v) + (low + A)
    <3>0. v \in Int /\ w \in Int
      BY <2>4, <2>2
    <3>1. A * (2 * ((E * v) + w)) = ((A * (2 * E)) * v) + (2 * (A * w))
      BY <1>1, <2>2, <2>4
    <3>2. A * q = (I * v) + (2 * (A * w))
      BY <2>2, <2>3, <2>4, <3>1
    <3>3. I * v \in Int /\ A * w \in Int
      BY <1>1, <2>2, <2>4
    <3> DEFINE top == I * v
               part == A * w
    <3> HIDE DEF top, part
    <3>4. n = (top + (2 * part)) + r
      BY <1>3, <3>2 DEF top, part
    <3>5. m = n + A
      BY DEF m
    <3>6. top \in Int /\ part \in Int
      BY <3>3 DEF top, part
    <3>7. n = top + ((2 * part) + r) /\ m = top + (((2 * part) + r) + A)
      BY <1>1, <1>3, <3>4, <3>5, <3>6
    <3> QED
      BY <3>7 DEF top, part
  <2>6. low \in 0 .. I - 1 /\ low + A \in 0 .. I - 1 /\ I \in Nat \ {0}
    <3>1. A * w \in Nat /\ A * w <= A * (E - 1)
      BY <1>1, <2>2, <2>4
    <3>2. A * (E - 1) = (A * E) - A /\ A * E \in Nat \ {0} /\ I = 2 * (A * E)
      BY <1>1, <2>2
    <3> DEFINE product == A * E
               part == A * w
    <3> HIDE DEF product, part
    <3>3. part \in Nat /\ product \in Nat \ {0} /\ part <= product - A /\ I = 2 * product
      BY <3>1, <3>2 DEF product, part
    <3>4. low = (2 * part) + r
      BY DEF part
    <3> HIDE DEF low
    <3> QED
      BY <1>1, <1>3, <3>3, <3>4
  <2> HIDE DEF low, m
  <2> QED
    <3> DEFINE next == low + A
    <3>1. v \in Int /\ I \in Nat \ {0} /\ low \in 0 .. I - 1 /\ next \in 0 .. I - 1
      BY <2>4, <2>6
    <3>2. n = (I * v) + low /\ m = (I * v) + next
      BY <2>5
    <3> HIDE DEF next
    <3>3. ((I * v) + low) \div I = v
      BY <3>1, DivisionIsUnique
    <3>4. ((I * v) + next) \div I = v
      BY <3>1, DivisionIsUnique
    <3> QED
      BY <3>2, <3>3, <3>4 DEF I
<1> QED
  BY <1>5, <1>6, <1>7, <1>8 DEF A

\* The bits of an address are below PaBits.
LEMMA BitsType ==
  ASSUME NEW x \in Addresses
  PROVE  /\ BitsOf[x] \subseteq 0 .. PaBits - 1 /\ IsFiniteSet(BitsOf[x])
         /\ \A i : i \in BitsOf[x] <=> i \in 0 .. PaBits - 1 /\ (x \div 2 ^ i) % 2 = 1
         /\ x \in Nat
<1>1. BitsOf[x] = {i \in 0 .. PaBits - 1 : (x \div 2 ^ i) % 2 = 1}
  BY DEF BitsOf
<1>2. IsFiniteSet(0 .. PaBits - 1)
  BY FS_Interval, TimingAssumption
<1>3. x \in Nat
  BY PowerType, TimingAssumption DEF Addresses
<1> QED
  BY <1>1, <1>2, <1>3, FS_Subset

\* A clear bit of an address can be set.
LEMMA AddBit ==
  ASSUME NEW n \in Addresses, NEW x \in 0 .. PaBits - 1, x \notin BitsOf[n]
  PROVE  n + 2 ^ x \in Addresses /\ BitsOf[n + 2 ^ x] = BitsOf[n] \cup {x}
<1> DEFINE m == n + 2 ^ x
<1>1. n \in Nat /\ PaBits \in Nat /\ x \in Nat /\ x < PaBits
  BY BitsType, TimingAssumption
<1>2. (n \div 2 ^ x) % 2 = 0
  <2>1. (n \div 2 ^ x) % 2 # 1
    BY BitsType
  <2>2. 2 ^ x \in Nat \ {0}
    BY <1>1, PowerType
  <2> DEFINE A == 2 ^ x
  <2> HIDE DEF A
  <2>3. A \in Nat \ {0} /\ (n \div A) % 2 # 1
    BY <2>1, <2>2 DEF A
  <2>4. n \div A \in Nat
    BY <1>1, <2>3
  <2>5. (n \div A) % 2 = 0
    BY <2>3, <2>4
  <2> QED
    BY <2>5 DEF A
<1>3. /\ m \in Nat /\ (m \div 2 ^ x) % 2 = 1
      /\ \A i \in Nat : i < x => (m \div 2 ^ i) % 2 = (n \div 2 ^ i) % 2
      /\ \A i \in Nat : i > x => m \div 2 ^ i = n \div 2 ^ i
  BY <1>1, <1>2, SetBit
<1> HIDE DEF m
<1>4. m \in Addresses
  <2> DEFINE C == 2 ^ PaBits
  <2>1. C \in Nat \ {0} /\ n < C
    BY <1>1, PowerType DEF Addresses
  <2>2. m \div C = n \div C
    BY <1>1, <1>3
  <2> HIDE DEF C
  <2>3. n \div C = 0
    BY <1>1, <2>1
  <2>4. m < C
    BY <1>3, <2>1, <2>2, <2>3
  <2> QED
    BY <1>3, <2>1, <2>4 DEF C, Addresses
<1>5. ASSUME NEW i \in 0 .. PaBits - 1
      PROVE  (m \div 2 ^ i) % 2 = 1 <=> (i = x \/ (n \div 2 ^ i) % 2 = 1)
  <2>1. i \in Nat /\ (i = x \/ i < x \/ i > x)
    BY <1>1
  <2> QED
    BY <1>3, <2>1
<1>6. \A i : i \in BitsOf[m] <=> i \in BitsOf[n] \cup {x}
  BY <1>4, <1>5, BitsType
<1> QED
  BY <1>4, <1>6 DEF m

\* The address zero has no bits.
LEMMA ZeroHasNoBits == 0 \in Addresses /\ BitsOf[0] = {}
<1>1. 0 \in Addresses
  <2>1. 2 ^ PaBits \in Nat \ {0}
    BY PowerType, TimingAssumption
  <2> QED
    BY <2>1 DEF Addresses
<1>2. \A i \in 0 .. PaBits - 1 : (0 \div 2 ^ i) % 2 # 1
  <2> TAKE i \in 0 .. PaBits - 1
  <2> DEFINE I == 2 ^ i
  <2>1. I \in Nat \ {0}
    BY PowerType, TimingAssumption
  <2> HIDE DEF I
  <2>2. 0 \div I = 0
    BY <2>1
  <2>3. (0 \div I) % 2 # 1
    BY <2>2
  <2> QED
    BY <2>3 DEF I
<1>3. \A i : i \notin BitsOf[0]
  BY <1>1, <1>2, BitsType
<1> QED
  BY <1>1, <1>3

\* Every set of bits is that of an address.
LEMMA AddressWithBits ==
  ASSUME NEW B \in SUBSET (0 .. PaBits - 1)
  PROVE  \E n \in Addresses : BitsOf[n] = B
<1> DEFINE All == SUBSET (0 .. PaBits - 1)
           Missing == {T \in All : ~ \E n \in Addresses : BitsOf[n] = T}
           Bad == {Cardinality(T) : T \in Missing}
<1>1. \A T \in All : IsFiniteSet(T) /\ Cardinality(T) \in Nat
  <2>1. IsFiniteSet(0 .. PaBits - 1)
    BY FS_Interval, TimingAssumption
  <2> QED
    BY <2>1, FS_Subset, FS_CardinalityType
<1>2. SUFFICES ASSUME Bad # {} PROVE FALSE
  OBVIOUS
<1>3. Bad \in SUBSET Nat
  BY <1>1
<1>4. PICK k \in Bad : \A m \in Bad : k <= m
  <2> HIDE DEF Bad
  <2> QED
    BY <1>2, <1>3, LeastValue
<1>5. PICK T \in Missing : Cardinality(T) = k
  OBVIOUS
<1>6. T # {}
  BY <1>5, ZeroHasNoBits
<1>7. PICK x \in T : TRUE
  BY <1>6
<1> DEFINE U == T \ {x}
<1>8. U \in All /\ Cardinality(U) = Cardinality(T) - 1
  BY <1>1, FS_RemoveElement
<1>9. U \notin Missing
  <2>1. k \in Nat /\ Cardinality(U) \in Nat /\ ~(k <= Cardinality(U))
    BY <1>1, <1>5, <1>8
  <2> QED
    BY <1>4, <2>1
<1>10. PICK n \in Addresses : BitsOf[n] = U
  BY <1>8, <1>9
<1>11. n + 2 ^ x \in Addresses /\ BitsOf[n + 2 ^ x] = U \cup {x}
  BY <1>10, AddBit
<1>12. U \cup {x} = T
  OBVIOUS
<1> QED
  BY <1>5, <1>11, <1>12

\* An address is its bits: there are as many of the ones as of the others.
LEMMA AddressIsItsBits ==
  ASSUME NEW x \in Addresses, NEW y \in Addresses, BitsOf[x] = BitsOf[y]
  PROVE  x = y
<1> DEFINE All == SUBSET (0 .. PaBits - 1)
<1>1. PaBits \in Nat /\ 2 ^ PaBits \in Nat \ {0}
  BY PowerType, TimingAssumption
<1>2. IsFiniteSet(0 .. PaBits - 1) /\ Cardinality(0 .. PaBits - 1) = PaBits
  <2>1. 0 <= PaBits - 1 + 1
    BY <1>1
  <2> QED
    BY <1>1, <2>1, FS_Interval
<1>3. IsFiniteSet(All) /\ Cardinality(All) = 2 ^ PaBits
  BY <1>2, FS_SUBSET
<1>4. IsFiniteSet(Addresses) /\ Cardinality(Addresses) = 2 ^ PaBits
  <2> DEFINE n == 2 ^ PaBits
  <2>1. n \in Nat \ {0}
    BY <1>1
  <2> HIDE DEF n
  <2>2. IsFiniteSet(0 .. n - 1) /\ Cardinality(0 .. n - 1) = n
    BY <2>1, FS_Interval
  <2> QED
    BY <2>2 DEF n, Addresses
<1>5. BitsOf \in [Addresses -> All]
  <2>1. DOMAIN BitsOf = Addresses /\ BitsOf = [n \in Addresses |-> BitsOf[n]]
    BY DEF BitsOf
  <2> QED
    BY <2>1, BitsType
<1>6. BitsOf \in Surjection(Addresses, All)
  BY <1>5, AddressWithBits DEF Surjection
<1>7. BitsOf \in Injection(Addresses, All)
  BY <1>3, <1>4, <1>6, FS_SurjSameCardinalityImpliesInj
<1> QED
  BY <1>7 DEF Injection, IsInjective

\* FromBits gives the address back whose bits it is given.
LEMMA FromBitsIs ==
  ASSUME NEW B \in SUBSET (0 .. PaBits - 1)
  PROVE  FromBits(B) \in Addresses /\ BitsOf[FromBits(B)] = B
<1> DEFINE Rec(f) == f = [s \in SUBSET B |-> IF s = {} THEN 0
                                            ELSE 2 ^ Some(s) + f[s \ {Some(s)}]]
           sum == CHOOSE f : Rec(f)
           value == [s \in SUBSET B |-> CHOOSE n \in Addresses : BitsOf[n] = s]
<1>1. FromBits(B) = sum[B]
  BY DEF FromBits, MapThenSumSet, MapThenFoldSet, Some
<1>2. \A s \in SUBSET B : value[s] \in Addresses /\ BitsOf[value[s]] = s
  BY AddressWithBits
<1>3. value[{}] = 0
  BY <1>2, ZeroHasNoBits, AddressIsItsBits
<1> HIDE DEF value
<1>4. \A s \in SUBSET B : s # {} =>
        Some(s) \in s /\ value[s] = 2 ^ Some(s) + value[s \ {Some(s)}]
  <2> SUFFICES ASSUME NEW s \in SUBSET B, s # {}
               PROVE  Some(s) \in s /\ value[s] = 2 ^ Some(s) + value[s \ {Some(s)}]
    OBVIOUS
  <2> DEFINE x == Some(s)
             n == value[s \ {x}]
  <2>1. x \in s
    BY DEF Some
  <2> HIDE DEF x
  <2>2. n \in Addresses /\ BitsOf[n] = s \ {x} /\ x \in 0 .. PaBits - 1 /\ x \notin BitsOf[n]
    BY <1>2, <2>1
  <2> HIDE DEF n
  <2>3. n + 2 ^ x \in Addresses /\ BitsOf[n + 2 ^ x] = (s \ {x}) \cup {x}
    BY <2>2, AddBit
  <2>4. (s \ {x}) \cup {x} = s
    BY <2>1
  <2>5. value[s] = n + 2 ^ x
    <3>1. value[s] \in Addresses /\ BitsOf[value[s]] = s
      BY <1>2
    <3>2. n + 2 ^ x \in Addresses /\ BitsOf[n + 2 ^ x] = s
      BY <2>3, <2>4
    <3> DEFINE a == value[s]
               b == n + 2 ^ x
    <3> HIDE DEF a, b
    <3>3. a \in Addresses /\ b \in Addresses /\ BitsOf[a] = BitsOf[b]
      BY <3>1, <3>2 DEF a, b
    <3>4. a = b
      BY <3>3, AddressIsItsBits
    <3> QED
      BY <3>4 DEF a, b
  <2>6. n \in Nat /\ 2 ^ x \in Nat
    BY <2>2, BitsType, PowerType, TimingAssumption
  <2>7. n + 2 ^ x = 2 ^ x + n
    <3> DEFINE X == 2 ^ x
    <3> HIDE DEF X
    <3>1. X \in Nat
      BY <2>6 DEF X
    <3>2. n + X = X + n
      BY <2>6, <3>1
    <3> QED
      BY <3>2 DEF X
  <2> QED
    BY <2>1, <2>5, <2>7 DEF x, n
<1>5. Rec(value)
  <2> DEFINE v == value
  <2>2. \A s \in SUBSET B : v[s] = IF s = {} THEN 0 ELSE 2 ^ Some(s) + v[s \ {Some(s)}]
    BY <1>3, <1>4
  <2>3. v = [s \in SUBSET B |-> v[s]]
    BY DEF value
  <2> HIDE DEF v
  <2>4. v = [s \in SUBSET B |-> IF s = {} THEN 0 ELSE 2 ^ Some(s) + v[s \ {Some(s)}]]
    BY <2>2, <2>3, Zenon
  <2> QED
    BY <2>4 DEF v
<1>6. Rec(sum)
  <2>1. \E f : Rec(f)
    <3> HIDE DEF value
    <3> QED
      BY <1>5, Zenon
  <2> QED
    BY <2>1, Zenon
<1> DEFINE Bad == {Cardinality(s) : s \in {t \in SUBSET B : sum[t] # value[t]}}
<1>7. \A s \in SUBSET B : IsFiniteSet(s) /\ Cardinality(s) \in Nat
  <2>1. IsFiniteSet(0 .. PaBits - 1)
    BY FS_Interval, TimingAssumption
  <2> QED
    BY <2>1, FS_Subset, FS_CardinalityType
<1> HIDE DEF sum
<1>8. Bad = {}
  <2> SUFFICES ASSUME Bad # {} PROVE FALSE
    OBVIOUS
  <2>1. Bad \in SUBSET Nat
    BY <1>7
  <2>2. PICK k \in Bad : \A m \in Bad : k <= m
    <3> HIDE DEF Bad
    <3> QED
      BY <2>1, LeastValue
  <2> HIDE DEF value
  <2>3. PICK s \in SUBSET B : sum[s] # value[s] /\ Cardinality(s) = k
    OBVIOUS
  <2>4. sum[s] = IF s = {} THEN 0 ELSE 2 ^ Some(s) + sum[s \ {Some(s)}]
    BY <1>6
  <2>5. s # {}
    BY <1>3, <2>3, <2>4
  <2> DEFINE x == Some(s)
             t == s \ {x}
  <2>6. x \in s /\ value[s] = 2 ^ x + value[t] /\ sum[s] = 2 ^ x + sum[t]
    BY <1>4, <2>4, <2>5
  <2> HIDE DEF x
  <2>7. t \in SUBSET B /\ Cardinality(t) = Cardinality(s) - 1
    BY <1>7, <2>6, FS_RemoveElement
  <2> HIDE DEF t
  <2>8. k \in Nat /\ Cardinality(t) \in Nat /\ ~(k <= Cardinality(t))
    BY <1>7, <2>3, <2>7
  <2>9. sum[t] = value[t]
    BY <2>2, <2>7, <2>8
  <2> QED
    BY <2>3, <2>6, <2>9
<1>9. sum[B] = value[B]
  BY <1>8
<1> QED
  BY <1>1, <1>2, <1>9

\* An offset below PageBytes stays in memory.
LEMMA OffsetInMemory ==
  ASSUME NEW page \in Pages, NEW b \in 0 .. PageBytes - 1
  PROVE  page + b \in Addresses /\ b \in Addresses /\ page \in Addresses
<1> DEFINE P == PageBytes
           E == 2 ^ (PaBits - PageBits)
           N == 2 ^ PaBits
           q == page \div P
<1>1. N = P * E /\ E \in Nat \ {0} /\ P \in Nat \ {0}
  <2>1. PageBits \in Nat /\ PaBits - PageBits \in Nat
        /\ PageBits + (PaBits - PageBits) = PaBits
    BY TimingAssumption
  <2> QED
    BY <2>1, PowerSum, PowerType, PageBytesType DEF PageBytes
<1>2. page \in 0 .. N - 1 /\ page \in Nat /\ page % P = 0 /\ b \in 0 .. P - 1
  BY PagesType DEF Pages, Addresses, in_page
<1> HIDE DEF P, E, N
<1>3. q \in Nat /\ page = P * q
  BY <1>1, <1>2
<1> HIDE DEF q
<1>4. q <= E - 1
  <2> SUFFICES ASSUME q >= E PROVE FALSE
    BY <1>1, <1>3
  <2>1. P * q >= P * E
    BY <1>1, <1>3
  <2> DEFINE top == P * q
  <2>2. top >= N /\ page = top /\ top \in Int
    BY <1>1, <1>2, <1>3, <2>1
  <2> HIDE DEF top
  <2>3. N \in Int
    BY <1>1
  <2> QED
    BY <1>2, <2>2, <2>3
<1>5. page <= N - P /\ N - P \in Nat /\ N \in Nat
  <2>1. P * q <= P * (E - 1) /\ P * (E - 1) = (P * E) - P /\ P * (E - 1) \in Nat
    BY <1>1, <1>3, <1>4
  <2> DEFINE top == P * q
             last == P * (E - 1)
             all == P * E
  <2> HIDE DEF top, last, all
  <2>2. top <= last /\ last = all - P /\ last \in Nat /\ page = top /\ N = all
    BY <1>1, <1>3, <2>1 DEF top, last, all
  <2> QED
    BY <1>1, <2>2
<1>6. page + b \in 0 .. N - 1 /\ b \in 0 .. N - 1
  BY <1>1, <1>2, <1>5
<1> QED
  BY <1>2, <1>6 DEF N, Addresses

\* The bits of an address are those of its page and, below them, those of its
\* offset.
LEMMA BitsOfParts ==
  ASSUME NEW page \in Pages, NEW b \in 0 .. PageBytes - 1
  PROVE  /\ BitsOf[b] = BitsOf[page + b] \cap 0 .. PageBits - 1
         /\ BitsOf[page] = BitsOf[page + b] \ (0 .. PageBits - 1)
<1> DEFINE P == PageBytes
           q == page \div P
           x == page + b
           low == 0 .. PageBits - 1
<1>1. P \in Nat \ {0} /\ page \in Nat /\ page % P = 0 /\ b \in 0 .. P - 1
      /\ PageBits \in Nat /\ PaBits \in Nat /\ PageBits < PaBits
  BY PageBytesType, PagesType, TimingAssumption DEF in_page
<1>2. P = 2 ^ PageBits
  BY DEF PageBytes
<1> HIDE DEF P
<1>3. q \in Nat /\ page = P * q /\ x = (P * q) + b
  BY <1>1
<1> HIDE DEF q
<1>4. ASSUME NEW i \in Nat, i < PageBits
      PROVE  (x \div 2 ^ i) % 2 = (b \div 2 ^ i) % 2 /\ (page \div 2 ^ i) % 2 = 0
  <2> DEFINE j == PageBits - i - 1
             I == 2 ^ i
             E == 2 ^ j
  <2>1. j \in Nat /\ PageBits = i + (j + 1) /\ j + 1 \in Nat
    BY <1>1, <1>4
  <2> HIDE DEF j
  <2>2. P = I * (2 * E) /\ I \in Nat \ {0} /\ E \in Nat \ {0}
    <3>1. 2 ^ (i + (j + 1)) = 2 ^ i * 2 ^ (j + 1)
      BY <2>1, PowerSum
    <3>2. 2 ^ (j + 1) = 2 * 2 ^ j
      BY <2>1, PowerDoubles
    <3> QED
      BY <1>2, <2>1, <3>1, <3>2, PowerType
  <2> HIDE DEF I, E
  <2> DEFINE s == b \div I
             t == b % I
             product == E * q
  <2>3. s \in Nat /\ t \in 0 .. I - 1 /\ b = (I * s) + t
    BY <1>1, <2>2
  <2> HIDE DEF s, t
  <2>4. product \in Nat /\ P * q = I * (2 * product)
    BY <1>3, <2>2
  <2> HIDE DEF product
  <2>5. x = (I * ((2 * product) + s)) + t /\ page = (I * (2 * product)) + 0
    <3>1. I * ((2 * product) + s) = (I * (2 * product)) + (I * s)
      BY <2>2, <2>3, <2>4
    <3>2. I * (2 * product) \in Int /\ I * s \in Int
      BY <2>2, <2>3, <2>4
    <3> QED
      BY <1>3, <2>3, <2>4, <3>1, <3>2
  <2>6. ((I * ((2 * product) + s)) + t) \div I = (2 * product) + s
    <3> DEFINE v == (2 * product) + s
    <3>1. v \in Int /\ I \in Nat \ {0} /\ t \in 0 .. I - 1
      BY <2>2, <2>3, <2>4
    <3> HIDE DEF v
    <3>2. ((I * v) + t) \div I = v
      BY <3>1, DivisionIsUnique
    <3> QED
      BY <3>2 DEF v
  <2>7. ((I * (2 * product)) + 0) \div I = 2 * product
    BY <2>2, <2>4, DivisionIsUnique
  <2>8. ((2 * product) + s) % 2 = s % 2 /\ (2 * product) % 2 = 0
    BY <2>3, <2>4
  <2> QED
    BY <2>5, <2>6, <2>7, <2>8 DEF s, I
<1>5. ASSUME NEW i \in Nat, i >= PageBits
      PROVE  x \div 2 ^ i = page \div 2 ^ i /\ b \div 2 ^ i = 0
  <2> DEFINE j == i - PageBits
             I == 2 ^ i
             E == 2 ^ j
  <2>1. j \in Nat /\ PageBits + j = i
    BY <1>1, <1>5
  <2> HIDE DEF j
  <2>2. I = P * E /\ I \in Nat \ {0} /\ E \in Nat \ {0}
    <3>1. 2 ^ (PageBits + j) = 2 ^ PageBits * 2 ^ j
      BY <1>1, <2>1, PowerSum
    <3> QED
      BY <1>2, <2>1, <3>1, PowerType
  <2> HIDE DEF I, E
  <2> DEFINE v == q \div E
             w == q % E
             product == P * w
  <2>3. v \in Nat /\ w \in 0 .. E - 1 /\ q = (E * v) + w
    BY <1>3, <2>2
  <2> HIDE DEF v, w
  <2>4. P * q = (I * v) + product
    <3>1. P * ((E * v) + w) = ((P * E) * v) + (P * w)
      BY <1>1, <2>2, <2>3
    <3> QED
      BY <2>2, <2>3, <3>1
  <2>5. product \in Nat /\ product <= I - P
    <3>1. P * w \in Nat /\ P * w <= P * (E - 1) /\ P * (E - 1) = (P * E) - P
      BY <1>1, <2>2, <2>3
    <3> QED
      BY <2>2, <3>1
  <2> HIDE DEF product
  <2> DEFINE next == product + b
  <2>6. product \in 0 .. I - 1 /\ next \in 0 .. I - 1 /\ b \in 0 .. I - 1
    BY <1>1, <2>2, <2>5
  <2>7. x = (I * v) + next /\ page = (I * v) + product
    <3>1. I * v \in Int
      BY <2>2, <2>3
    <3> DEFINE top == I * v
    <3> HIDE DEF top
    <3>2. top \in Int /\ page = top + product
      BY <1>3, <2>4, <3>1 DEF top
    <3>3. x = top + (product + b)
      BY <1>1, <2>5, <3>2
    <3> QED
      BY <3>2, <3>3 DEF top
  <2> HIDE DEF next
  <2>8. ((I * v) + next) \div I = v /\ ((I * v) + product) \div I = v
    <3>1. v \in Int /\ I \in Nat \ {0} /\ next \in 0 .. I - 1 /\ product \in 0 .. I - 1
      BY <2>2, <2>3, <2>6
    <3>2. ((I * v) + next) \div I = v
      BY <3>1, DivisionIsUnique
    <3>3. ((I * v) + product) \div I = v
      BY <3>1, DivisionIsUnique
    <3> QED
      BY <3>2, <3>3
  <2>9. b \div I = 0
    BY <2>2, <2>6
  <2> QED
    BY <2>7, <2>8, <2>9 DEF I
<1>6. x \in Addresses /\ b \in Addresses /\ page \in Addresses
  BY OffsetInMemory
<1>7. ASSUME NEW i \in 0 .. PaBits - 1
      PROVE  /\ (b \div 2 ^ i) % 2 = 1 <=> i \in low /\ (x \div 2 ^ i) % 2 = 1
             /\ (page \div 2 ^ i) % 2 = 1 <=> i \notin low /\ (x \div 2 ^ i) % 2 = 1
  <2>1. i \in Nat
    BY <1>1
  <2>2. CASE i < PageBits
    BY <1>1, <1>4, <2>1, <2>2
  <2>3. CASE i >= PageBits
    <3>1. x \div 2 ^ i = page \div 2 ^ i /\ b \div 2 ^ i = 0 /\ i \notin low
      BY <1>1, <1>5, <2>1, <2>3
    <3>2. (b \div 2 ^ i) % 2 # 1
      <4> DEFINE c == b \div 2 ^ i
      <4>1. c = 0
        BY <3>1
      <4> HIDE DEF c
      <4>2. c % 2 # 1
        BY <4>1
      <4> QED
        BY <4>2 DEF c
    <3>3. (x \div 2 ^ i) % 2 = (page \div 2 ^ i) % 2
      BY <3>1
    <3> HIDE DEF x, low
    <3> QED
      BY <3>1, <3>2, <3>3
  <2> QED
    BY <1>1, <2>1, <2>2, <2>3
<1> HIDE DEF x, low
<1>8. BitsOf[b] = BitsOf[x] \cap low
  BY <1>6, <1>7, BitsType
<1>9. BitsOf[page] = BitsOf[x] \ low
  BY <1>6, <1>7, BitsType
<1> QED
  BY <1>8, <1>9 DEF x, low

\* Combining addresses bit by bit.
LEMMA XorIs ==
  ASSUME NEW x \in Addresses, NEW y \in Addresses
  PROVE  /\ Xor[x][y] \in Addresses
         /\ BitsOf[Xor[x][y]] = SymDiff(BitsOf[x], BitsOf[y])
<1>1. Xor[x][y] = FromBits(SymDiff(BitsOf[x], BitsOf[y]))
  BY DEF Xor
<1>2. SymDiff(BitsOf[x], BitsOf[y]) \in SUBSET (0 .. PaBits - 1)
  BY BitsType DEF SymDiff
<1> QED
  BY <1>1, <1>2, FromBitsIs

\* The mask of an anchor is its offset.
LEMMA MaskIsOffset ==
  ASSUME NEW page \in Pages, NEW low \in 0 .. PageBytes - 1
  PROVE  Xor[page][page + low] = low
<1>1. page + low \in Addresses /\ low \in Addresses /\ page \in Addresses
  BY OffsetInMemory
<1>2. /\ BitsOf[low] = BitsOf[page + low] \cap 0 .. PageBits - 1
      /\ BitsOf[page] = BitsOf[page + low] \ (0 .. PageBits - 1)
  BY BitsOfParts
<1>3. SymDiff(BitsOf[page], BitsOf[page + low]) = BitsOf[low]
  BY <1>2 DEF SymDiff
<1> DEFINE mask == Xor[page][page + low]
<1>4. mask \in Addresses /\ BitsOf[mask] = BitsOf[low]
  BY <1>1, <1>3, XorIs
<1> HIDE DEF mask
<1>5. mask = low
  BY <1>1, <1>4, AddressIsItsBits
<1> QED
  BY <1>5 DEF mask

\* Sets that differ by an even number of elements have the same parity.
LEMMA EvenDifference ==
  ASSUME NEW A, NEW B, IsFiniteSet(A), IsFiniteSet(B), NEW seed \in Nat,
         (seed + Cardinality(B)) % 2 = (seed + 0) % 2
  PROVE  (seed + Cardinality(SymDiff(A, B))) % 2 = (seed + Cardinality(A)) % 2
<1> DEFINE X == A \ B
           Y == B \ A
           Z == A \cap B
           a == Cardinality(X)
           b == Cardinality(Y)
           c == Cardinality(Z)
<1>1. IsFiniteSet(X) /\ IsFiniteSet(Y) /\ IsFiniteSet(Z)
  BY FS_Subset
<1>2. X \cap Y = {} /\ X \cap Z = {} /\ Y \cap Z = {}
      /\ A = X \cup Z /\ B = Y \cup Z /\ SymDiff(A, B) = X \cup Y
  BY DEF SymDiff
<1> HIDE DEF X, Y, Z
<1>3. Cardinality(X \cap Y) = 0 /\ Cardinality(X \cap Z) = 0 /\ Cardinality(Y \cap Z) = 0
  BY <1>2, FS_EmptySet
<1>4. /\ Cardinality(X \cup Y) = a + b - Cardinality(X \cap Y)
      /\ Cardinality(X \cup Z) = a + c - Cardinality(X \cap Z)
      /\ Cardinality(Y \cup Z) = b + c - Cardinality(Y \cap Z)
  BY <1>1, FS_Union
<1>5. a \in Nat /\ b \in Nat /\ c \in Nat
  BY <1>1, FS_CardinalityType
<1> HIDE DEF a, b, c
<1>6. Cardinality(SymDiff(A, B)) = a + b /\ Cardinality(A) = a + c /\ Cardinality(B) = b + c
  <2>1. Cardinality(X \cup Y) = a + b
    BY <1>3, <1>4, <1>5
  <2>2. Cardinality(X \cup Z) = a + c
    BY <1>3, <1>4, <1>5
  <2>3. Cardinality(Y \cup Z) = b + c
    BY <1>3, <1>4, <1>5
  <2> QED
    BY <1>2, <2>1, <2>2, <2>3
<1>7. (seed + (b + c)) % 2 = seed % 2
  BY <1>6
<1>8. (seed + (a + b)) % 2 = (seed + (a + c)) % 2
  BY <1>5, <1>7
<1> QED
  BY <1>6, <1>8

\* What the first byte of a page and an anchor do, every byte and its image under
\* the anchor's mask do: bank and row are linear in the bits of the offset.
LEMMA MateConflicts ==
  ASSUME TableInv, NEW page \in Pages, NEW b \in 0 .. PageBytes - 1,
         NEW low \in 0 .. PageBytes - 1, Conflict(world.gpu, page, page + low)
  PROVE  LET d == in_page(Xor[page + b][low])
         IN d \in 0 .. PageBytes - 1 /\ Conflict(world.gpu, page + b, page + d)
<1> DEFINE gpu == world.gpu
           x == Xor[page + b][low]
           d == in_page(x)
           H == gpu.hash[page]
           seed == gpu.seed[page]
           low_bits == 0 .. PageBits - 1
<1>1. page + b \in Addresses /\ low \in Addresses /\ b \in Addresses /\ page \in Nat
      /\ page_of(page) = page /\ in_page(page) = 0
  BY OffsetInMemory, PagesType
<1>2. x \in Addresses /\ BitsOf[x] = SymDiff(BitsOf[page + b], BitsOf[low])
  BY <1>1, XorIs
<1>3. x \in Nat /\ page_of(x) \in Pages /\ d \in 0 .. PageBytes - 1 /\ x = page_of(x) + d
  <2>1. x \in Nat
    BY <1>2, BitsType
  <2>2. d \in 0 .. PageBytes - 1 /\ page_of(x) \in Nat /\ x = page_of(x) + d
        /\ in_page(page_of(x)) = 0
    BY <2>1, PageSplit
  <2> HIDE DEF x, d
  <2>3. page_of(x) \in Addresses
    <3>1. x <= 2 ^ PaBits - 1 /\ 2 ^ PaBits \in Nat \ {0}
      BY <1>2, PowerType, TimingAssumption DEF Addresses
    <3> DEFINE N == 2 ^ PaBits
               p == page_of(x)
    <3> HIDE DEF N, p
    <3>2. p \in Nat /\ x = p + d /\ d \in Nat /\ x <= N - 1 /\ N \in Nat
      BY <2>2, <3>1, PageBytesType DEF N, p
    <3>3. p \in 0 .. N - 1
      BY <3>2
    <3> QED
      BY <3>3 DEF N, p, Addresses
  <2> QED
    BY <2>1, <2>2, <2>3 DEF Pages
<1>4. /\ BitsOf[b] = BitsOf[page + b] \cap low_bits
      /\ BitsOf[d] = BitsOf[x] \cap low_bits
      /\ BitsOf[low] \subseteq low_bits
  <2>1. BitsOf[b] = BitsOf[page + b] \cap low_bits
    BY BitsOfParts
  <2>2. BitsOf[low] = BitsOf[page + low] \cap low_bits
    BY BitsOfParts
  <2> HIDE DEF x, d
  <2>3. BitsOf[d] = BitsOf[page_of(x) + d] \cap low_bits
    BY <1>3, BitsOfParts
  <2> QED
    BY <1>3, <2>1, <2>2, <2>3
<1>5. BitsOf[d] = SymDiff(BitsOf[b], BitsOf[low])
  <2> HIDE DEF x, d
  <2> QED
    BY <1>2, <1>4 DEF SymDiff
<1> HIDE DEF x, d
<1>6. /\ page_of(page + b) = page /\ in_page(page + b) = b
      /\ page_of(page + low) = page /\ in_page(page + low) = low
      /\ page_of(page + d) = page /\ in_page(page + d) = d
  BY <1>1, <1>3, OffsetInPage
<1>7. BitsOf[0] = {}
  BY ZeroHasNoBits
<1>8. seed \in Nat
  <2>1. world \in Worlds
    BY DEF TableInv
  <2> QED
    BY <2>1, FaultAssumption
<1>9. IsFiniteSet(BitsOf[b]) /\ IsFiniteSet(BitsOf[low])
  BY <1>1, BitsType
<1>10. SameBank(gpu, page + b, page + d)
  <2>1. Bank(gpu, page) = (seed + Cardinality({})) % 2
    <3>1. BitsOf[in_page(page)] \cap gpu.hash[page_of(page)] = {}
      BY <1>1, <1>7
    <3> QED
      BY <1>1, <3>1 DEF Bank
  <2>2. Bank(gpu, page + low) = (seed + Cardinality(BitsOf[low] \cap H)) % 2
    BY <1>6 DEF Bank
  <2>3. Bank(gpu, page) = Bank(gpu, page + low)
    BY DEF Conflict, SameBank
  <2>4. Cardinality({}) = 0
    BY FS_EmptySet
  <2> DEFINE A == BitsOf[b] \cap H
             B == BitsOf[low] \cap H
  <2>5. BitsOf[d] \cap H = SymDiff(A, B)
    BY <1>5 DEF SymDiff
  <2>6. IsFiniteSet(A) /\ IsFiniteSet(B)
    BY <1>9, FS_Subset
  <2>7. Bank(gpu, page + b) = (seed + Cardinality(A)) % 2
        /\ Bank(gpu, page + d) = (seed + Cardinality(SymDiff(A, B))) % 2
    BY <1>6, <2>5 DEF Bank
  <2>8. (seed + Cardinality(B)) % 2 = (seed + 0) % 2
    BY <2>1, <2>2, <2>3, <2>4
  <2> HIDE DEF A, B, seed
  <2>9. (seed + Cardinality(SymDiff(A, B))) % 2 = (seed + Cardinality(A)) % 2
    BY <1>8, <2>6, <2>8, EvenDifference
  <2> QED
    BY <2>7, <2>9 DEF SameBank
<1>11. Row(gpu, page + b) # Row(gpu, page + d)
  <2>1. Row(gpu, page) = <<page, {}>>
    <3>1. BitsOf[in_page(page)] \cap gpu.rows = {}
      BY <1>1, <1>7
    <3> QED
      BY <1>1, <3>1 DEF Row
  <2>2. Row(gpu, page + low) = <<page, BitsOf[low] \cap gpu.rows>>
    BY <1>6 DEF Row
  <2>3. BitsOf[low] \cap gpu.rows # {}
    BY <2>1, <2>2 DEF Conflict
  <2>4. BitsOf[b] \cap gpu.rows # BitsOf[d] \cap gpu.rows
    BY <1>5, <2>3 DEF SymDiff
  <2> QED
    BY <1>6, <2>4 DEF Row
<1> QED
  BY <1>3, <1>10, <1>11 DEF Conflict, d, x

-----------------------------------------------------------------------------
(* The labels of an event.                                                 *)

\* A site is where its leg puts it, given the cell of the base: in its block, or
\* where the mask of an anchor of its page leads.
Mates(base, site) ==
  \/ site.leg = "block" /\ Unit(site.cell) = Unit(base)
  \/ /\ site.leg = "anchor"
     /\ \E a \in table.anchors :
          /\ a[1] = base[1]
          /\ site.cell = <<base[1], BlockBytes * in_page(Xor[Unit(base)][Xor[base[1]][a[2]]])
                                      + (base[2] % BlockBytes)>>

Mated(e) == e[1].cell \in Resident /\ \A i \in 2 .. Len(e) : Mates(e[1].cell, e[i])

\* Every event is mated, the one under way too; without a table there is none.
LabelsInv ==
  /\ pc \in {"collect", "refused"} => placed = {} /\ attempt = <<>>
  /\ \A e \in placed : Mated(e)
  /\ attempt # <<>> => Mated(attempt)

\* A draw adds a mate.
LEMMA DrawMates ==
  ASSUME PatternInv, LabelsInv, Draw
  PROVE  \E e : /\ Mated(e)
                /\ \/ placed' = placed \cup {e} /\ attempt' = <<>>
                   \/ attempt' = e /\ placed' = placed
<1>1. PICK draw \in {d \in Drawn : Usable(d)} : \E bit \in _draw_bit(draw.cell) :
        \/ placed' = placed \cup {Append(attempt, _make_site(draw, bit))} /\ attempt' = <<>>
        \/ attempt' = Append(attempt, _make_site(draw, bit)) /\ placed' = placed
  BY DEF Draw
<1>2. PICK bit \in _draw_bit(draw.cell) :
        \/ placed' = placed \cup {Append(attempt, _make_site(draw, bit))} /\ attempt' = <<>>
        \/ attempt' = Append(attempt, _make_site(draw, bit)) /\ placed' = placed
  BY <1>1
<1> DEFINE s == _make_site(draw, bit)
           e == Append(attempt, s)
<1>3. s.cell = draw.cell /\ s.leg = Legs[pattern][Len(attempt) + 1]
  BY DEF _make_site
<1>4. pattern \in DOMAIN Legs /\ Len(attempt) < Len(Legs[pattern])
  BY DEF PatternInv, Draw
<1> HIDE DEF s
<1>5. /\ Len(e) = Len(attempt) + 1 /\ Len(attempt) \in Nat
      /\ \A i \in 1 .. Len(attempt) : e[i] = attempt[i]
      /\ e[Len(attempt) + 1] = s
  <2>1. attempt \in Seq(ToSet(attempt))
    BY DEF PatternInv, OpenSites
  <2> QED
    BY <2>1, AppendAdds
<1> HIDE DEF e
<1>6. CASE attempt = <<>>
  <2>1. Drawn = {[cell |-> cell, mask |-> 0] : cell \in Resident}
    <3>1. Legs[pattern][Len(attempt) + 1] = "base"
      BY <1>4, <1>6, LegsAre
    <3> QED
      BY <1>6, <3>1 DEF Drawn
  <2>2. draw.cell \in Resident
    BY <2>1
  <2>3. e[1] = s /\ Len(e) = 1
    BY <1>5, <1>6
  <2>4. Mated(e)
    BY <1>3, <2>2, <2>3 DEF Mated
  <2> QED
    BY <1>2, <2>4 DEF e, s
<1>7. CASE attempt # <<>>
  <2>1. Len(attempt) # 0
    BY <1>7 DEF PatternInv
  <2>2. Mated(attempt) /\ e[1] = attempt[1]
    BY <1>5, <1>7, <2>1 DEF LabelsInv
  <2>3. Legs[pattern][Len(attempt) + 1] \in {"block", "anchor"}
    BY <1>4, <1>5, <2>1, LegsAre
  <2>4. Mates(Base, s)
    <3>1. CASE Legs[pattern][Len(attempt) + 1] = "block"
      <4>1. Drawn = {[cell |-> cell, mask |-> 0] :
                       cell \in {Base[1]} \X {x \in 0 .. BlockBytes * PageBytes - 1 :
                                                x \div BlockBytes = Base[2] \div BlockBytes}}
        BY <1>7, <3>1 DEF Drawn
      <4>2. draw.cell[1] = Base[1] /\ draw.cell[2] \div BlockBytes = Base[2] \div BlockBytes
        BY <4>1
      <4> QED
        BY <1>3, <3>1, <4>2 DEF Mates, Unit
    <3>2. CASE Legs[pattern][Len(attempt) + 1] = "anchor"
      <4>1. Drawn = {[cell |-> AnchorCell(mask), mask |-> mask] :
                       mask \in anchor_masks(Base[1]) \ Masks}
        BY <1>7, <3>2 DEF Drawn
      <4>2. PICK mask \in anchor_masks(Base[1]) : draw.cell = AnchorCell(mask)
        BY <4>1
      <4>3. PICK a \in table.anchors : a[1] = Base[1] /\ mask = Xor[Base[1]][a[2]]
        BY DEF anchor_masks
      <4> QED
        BY <1>3, <3>2, <4>2, <4>3 DEF Mates, AnchorCell
    <3> QED
      BY <2>3, <3>1, <3>2
  <2>5. \A i \in 2 .. Len(e) : Mates(e[1].cell, e[i])
    <3> TAKE i \in 2 .. Len(e)
    <3>1. i \in 2 .. Len(attempt) \/ i = Len(attempt) + 1
      BY <1>5
    <3>2. e[1].cell = Base
      BY <2>2 DEF Base
    <3>3. CASE i \in 2 .. Len(attempt)
      <4>1. e[i] = attempt[i]
        BY <1>5, <3>3
      <4> QED
        BY <2>2, <3>3, <4>1 DEF Mated
    <3> QED
      BY <1>5, <2>4, <3>1, <3>2, <3>3
  <2>6. Mated(e)
    BY <2>2, <2>5 DEF Mated
  <2> QED
    BY <1>2, <2>6 DEF e, s
<1> QED
  BY <1>6, <1>7

\* Every event stays mated through draws and retries.
LEMMA LabelsInvariant == FaultSpec => []LabelsInv
<1>1. FaultInit => LabelsInv
  BY DEF FaultInit, LabelsInv
<1>2. LabelsInv /\ PatternInv /\ [FaultNext]_vars => LabelsInv'
  <2> SUFFICES ASSUME LabelsInv, PatternInv, [FaultNext]_vars PROVE LabelsInv'
    OBVIOUS
  <2>1. ASSUME UNCHANGED <<world, table>> PROVE \A e : Mated(e)' <=> Mated(e)
    <3>1. Resident' = Resident
      BY <2>1, SameWorldSameSurface
    <3>2. \A base : \A site : Mates(base, site)' <=> Mates(base, site)
      BY <2>1 DEF Mates, Unit
    <3> QED
      BY <3>1, <3>2 DEF Mated
  <2>2. CASE Next /\ UNCHANGED fault_vars
    <3>1. pc = "collect" /\ UNCHANGED <<placed, attempt>>
      BY <2>2 DEF Next, Collect, Build, fault_vars
    <3> QED
      BY <3>1 DEF LabelsInv
  <2>3. CASE StartTrial \/ NextEvent \/ FinishTrial \/ UNCHANGED vars
    <3>1. UNCHANGED <<world, table, placed, attempt>>
      BY <2>3 DEF StartTrial, NextEvent, FinishTrial, vars, table_vars, fault_vars
    <3>2. pc' \in {"collect", "refused"} => pc \in {"collect", "refused"}
      BY <2>3 DEF StartTrial, NextEvent, FinishTrial, vars, table_vars
    <3> QED
      BY <2>1, <3>1, <3>2 DEF LabelsInv
  <2>4. CASE Draw
    <3>1. UNCHANGED <<world, table>> /\ pc' \notin {"collect", "refused"}
      BY <2>4 DEF Draw, table_vars
    <3>2. PICK e : /\ Mated(e)
                   /\ \/ placed' = placed \cup {e} /\ attempt' = <<>>
                      \/ attempt' = e /\ placed' = placed
      BY <2>4, DrawMates
    <3> QED
      BY <2>1, <3>1, <3>2 DEF LabelsInv
  <2>5. CASE Miss
    <3>1. UNCHANGED <<world, table, placed>> /\ attempt' = <<>>
          /\ pc' \notin {"collect", "refused"}
      BY <2>5 DEF Miss
    <3> QED
      BY <2>1, <3>1 DEF LabelsInv
  <2> QED
    BY <2>2, <2>3, <2>4, <2>5 DEF FaultNext
<1> QED
  BY <1>1, <1>2, PatternInvariant, PTL DEF FaultSpec

\* While no run misread, an anchor of the table is a conflict.
LEMMA RightAnchor ==
  ASSUME TableInv, AllRight, pc \notin {"collect", "refused"}, NEW a \in table.anchors
  PROVE  Conflict(world.gpu, a[1], a[2])
<1>1. PICK r \in Rows : r.key = a /\ r.class = "deep_conflict" /\ FromRun(r)
  BY AnchorsAre
<1>2. RunRow(r)
  BY <1>1, RowsAre
<1>3. PICK k \in DOMAIN runs : \E i \in DOMAIN runs[k].reads :
        r.key = Key(runs[k].reads[i].at) /\ r.class = runs[k].reads[i].class
  BY <1>2 DEF RunRow
<1>4. PICK i \in DOMAIN runs[k].reads :
        r.key = Key(runs[k].reads[i].at) /\ r.class = runs[k].reads[i].class
  BY <1>3
<1>5. ~Wrong(runs[k].reads[i])
  <2> DEFINE W == {j \in DOMAIN runs[k].reads : Wrong(runs[k].reads[j])}
  <2>1. runs[k].reads \in Seq(Reads)
    BY SourceTypes
  <2>2. DOMAIN runs[k].reads = 1 .. Len(runs[k].reads) /\ Len(runs[k].reads) \in Nat
    BY <2>1
  <2>3. IsFiniteSet(W)
    <3>1. IsFiniteSet(DOMAIN runs[k].reads)
      BY <2>2, FS_Interval
    <3>2. W \subseteq DOMAIN runs[k].reads
      OBVIOUS
    <3> QED
      BY <3>1, <3>2, FS_Subset
  <2>4. Cardinality(W) = 0
    BY DEF AllRight, Misreads
  <2>5. W = {}
    BY <2>3, <2>4, FS_EmptySet
  <2> QED
    BY <2>5
<1>6. runs[k].reads[i].at \in Pairs
  BY SourceTypes
<1>7. Truth(a) = "deep_conflict"
  BY <1>1, <1>4, <1>5, <1>6, KeyIs DEF Wrong
<1> QED
  BY <1>7 DEF Truth

\* The mate of a base on the surface keeps what its label says.
LEMMA MatesKeepLabels ==
  ASSUME TableInv, AllRight, pc \notin {"collect", "refused"},
         NEW base \in Resident, NEW site, Mates(base, site)
  PROVE  \/ /\ site.leg = "block"
            /\ SameBank(world.gpu, Unit(base), Unit(site.cell))
            /\ Row(world.gpu, Unit(base)) = Row(world.gpu, Unit(site.cell))
         \/ site.leg = "anchor" /\ Conflict(world.gpu, Unit(base), Unit(site.cell))
<1>1. CASE site.leg = "block" /\ Unit(site.cell) = Unit(base)
  BY <1>1 DEF SameBank
<1>2. CASE site.leg = "anchor"
  <2>1. PICK a \in table.anchors :
          /\ a[1] = base[1]
          /\ site.cell = <<base[1], BlockBytes * in_page(Xor[Unit(base)][Xor[base[1]][a[2]]])
                                      + (base[2] % BlockBytes)>>
    BY <1>2 DEF Mates
  <2> DEFINE page == base[1]
             B == BlockBytes
             b == base[2] \div B
             rest == base[2] % B
  <2>2. page \in Pages /\ base[2] \in Nat /\ base[2] < B * PageBytes
    <3>1. PICK r \in world.campaign.snapshot :
            base = <<r.pa, base[2]>> /\ base[2] \in Nat /\ base[2] < BlockBytes * PageBytes
      BY CoveringRow
    <3>2. world \in Worlds
      BY DEF TableInv
    <3>3. r.pa \in Pages
      BY <3>2, FaultAssumption
    <3> QED
      BY <3>1, <3>3
  <2>3. B \in Nat \ {0} /\ PageBytes \in Nat \ {0}
    BY FaultAssumption, PageBytesType
  <2> DEFINE P == PageBytes
  <2> HIDE DEF B, P
  <2>4. b \in 0 .. P - 1 /\ rest \in 0 .. B - 1
    <3>1. B \in Nat \ {0} /\ P \in Nat \ {0} /\ base[2] \in Nat /\ base[2] < B * P
      BY <2>2, <2>3 DEF B, P
    <3>2. b \in Nat /\ rest \in 0 .. B - 1 /\ base[2] = (B * b) + rest
      BY <3>1
    <3> HIDE DEF b, rest
    <3>3. b <= P - 1
      <4> SUFFICES ASSUME b >= P PROVE FALSE
        BY <3>1, <3>2
      <4>1. B * b >= B * P
        BY <3>1, <3>2
      <4> QED
        BY <3>1, <3>2, <4>1
    <3> QED
      BY <3>1, <3>2, <3>3
  <2>5. PICK low \in 1 .. PageBytes - 1 : a = <<page, page + low>>
    <3>1. \E p \in Pages : \E l \in 1 .. PageBytes - 1 : a = <<p, p + l>>
      BY AnchorsAre
    <3> QED
      BY <2>1, <3>1
  <2>6. low \in 0 .. PageBytes - 1 /\ b \in 0 .. PageBytes - 1
    BY <2>3, <2>4 DEF P
  <2>7. Xor[page][a[2]] = low
    BY <2>2, <2>5, <2>6, MaskIsOffset
  <2>8. Unit(base) = page + b
    BY DEF Unit, b, B
  <2> DEFINE d == in_page(Xor[page + b][low])
  <2>9. site.cell = <<page, B * d + rest>>
    BY <2>1, <2>7, <2>8 DEF B
  <2>10. Conflict(world.gpu, page, page + low)
    BY <2>5, RightAnchor
  <2>11. d \in 0 .. PageBytes - 1 /\ Conflict(world.gpu, page + b, page + d)
    BY <2>2, <2>6, <2>10, MateConflicts
  <2> HIDE DEF d
  <2>12. (B * d + rest) \div B = d
    <3>1. B \in Nat \ {0} /\ d \in Int /\ rest \in 0 .. B - 1
      BY <2>3, <2>4, <2>11 DEF B
    <3> HIDE DEF rest
    <3> QED
      BY <3>1, DivisionIsUnique
  <2>13. Unit(site.cell) = page + d
    BY <2>9, <2>12 DEF Unit, B
  <2> QED
    BY <1>2, <2>8, <2>11, <2>13
<1> QED
  BY <1>1, <1>2 DEF Mates

\* The labels of the placed events are true of the memory, for every byte of a
\* page, while no run misread.
THEOREM LabelsAreTrue == FaultSpec => []LabelsHold
<1>1. TableInv /\ LabelsInv => LabelsHold
  <2> SUFFICES ASSUME TableInv, LabelsInv, AllRight, NEW e \in placed, NEW i \in 2 .. Len(e)
               PROVE  LET base == Unit(e[1].cell)
                          mate == Unit(e[i].cell)
                      IN CASE e[i].leg = "block" ->
                                SameBank(world.gpu, base, mate)
                                  /\ Row(world.gpu, base) = Row(world.gpu, mate)
                           [] e[i].leg = "anchor" -> Conflict(world.gpu, base, mate)
    BY DEF LabelsHold
  <2>1. pc \notin {"collect", "refused"}
    BY DEF LabelsInv
  <2>2. e[1].cell \in Resident /\ Mates(e[1].cell, e[i])
    BY DEF LabelsInv, Mated
  <2>3. \/ /\ e[i].leg = "block"
           /\ SameBank(world.gpu, Unit(e[1].cell), Unit(e[i].cell))
           /\ Row(world.gpu, Unit(e[1].cell)) = Row(world.gpu, Unit(e[i].cell))
        \/ e[i].leg = "anchor" /\ Conflict(world.gpu, Unit(e[1].cell), Unit(e[i].cell))
    BY <2>1, <2>2, MatesKeepLabels
  <2> QED
    BY <2>3
<1> QED
  BY <1>1, LabelsInvariant, TableIsOfItsRuns, PTL
=============================================================================
