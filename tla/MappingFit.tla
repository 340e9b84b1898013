------------------------------ MODULE MappingFit ------------------------------
(***************************************************************************)
(* The solver of tools/g3_probe/solve_mapping.py: from measured pairs of   *)
(* physical addresses to a bank family and a row family of GF(2)           *)
(* functionals.  A functional is the set of its columns (monomials), a     *)
(* pair is the set of columns its two addresses differ in, and a           *)
(* functional fires on a pair when it meets it in an odd number of columns.*)
(*                                                                         *)
(* solve_family is one operator; the alternation of run_fit between the    *)
(* two families is the state machine.  The seeded shuffle of the holdout   *)
(* split is a choice of which pairs are held out.                          *)
(***************************************************************************)
EXTENDS Integers, FiniteSets, FiniteSetsExt, SequencesExt

CONSTANTS
  Scans,          \* bound: the constraint rows a fit may be given
  Degrees,        \* --degree
  HoldoutPart,    \* --holdout, as <<numerator, denominator>>
  Rounds,         \* --rounds
  PairBudget, TripleBudget, PoolSize, BeamWidth,
  SearchLimit, SearchBudget, GuardSlack   \* the limits inside solve_family

VARIABLES
  feats,          \* [n_bits, degree]
  train,          \* the hard training pairs, in order
  holdout,        \* the hard pairs held out
  theta, rho,     \* the current bank and row families
  left,           \* how many negatives each of the two solves gave up on
  seen,           \* the (theta, rho) states the alternation has been in
  best,           \* the best fit so far and its key
  turn,           \* half-steps of the alternation taken
  verdict,        \* what the model file says of the holdout
  pc

vars == <<feats, train, holdout, theta, rho, left, seen, best, turn, verdict, pc>>

-----------------------------------------------------------------------------
(* Addresses, columns and pairs *)

Bit(pa, i) == (pa \div 2^i) % 2 = 1

bit_length(pa) == CHOOSE n \in 0..pa + 1 : pa < 2^n /\ (n = 0 \/ pa >= 2^(n - 1))

BitPairs(n_bits) == {p \in (0..n_bits - 1) \X (0..n_bits - 1) : p[1] < p[2]}

quad_index(n_bits, p) ==
  n_bits + Cardinality({q \in BitPairs(n_bits) : q[1] < p[1] \/ (q[1] = p[1] /\ q[2] < p[2])})

mu(f, pa) ==
  LET set_bits == {i \in 0..f.n_bits - 1 : Bit(pa, i)}
  IN  set_bits \cup (IF f.degree = 1 THEN {}
                     ELSE {quad_index(f.n_bits, p) : p \in
                             {q \in BitPairs(f.n_bits) : q[1] \in set_bits /\ q[2] \in set_bits}})

Xor(s, t) == (s \ t) \cup (t \ s)

XorAll(s) == FoldLeft(Xor, {}, s)

phi(f, a, b) == Xor(mu(f, a), mu(f, b))

dot(t, p) == Cardinality(t \cap p) % 2 = 1

in_kernel(family, p) == \A t \in family : ~dot(t, p.phi)

UsableClasses == {"low", "mid", "conflict"}

read_pairs(rows) == SelectSeq(rows, LAMBDA r : r.cls \in UsableClasses)

Attached(f, rows) ==
  [k \in DOMAIN rows |-> [phi |-> phi(f, rows[k].pa_a, rows[k].pa_b), cls |-> rows[k].cls]]

OfClass(pairs, cls) == SelectSeq(pairs, LAMBDA p : p.cls = cls)

Features(rows, degree) ==
  [n_bits |-> bit_length(CHOOSE m \in UNION {{r.pa_a, r.pa_b} : r \in ToSet(rows)} :
                \A r \in ToSet(rows) : r.pa_a <= m /\ r.pa_b <= m),
   degree |-> degree]

\* split_holdout: of each class the same share, any of its pairs
Splits(pairs) ==
  {H \in SUBSET DOMAIN pairs :
     \A cls \in UsableClasses :
       LET of_cls == {k \in DOMAIN pairs : pairs[k].cls = cls}
       IN  Cardinality(H \cap of_cls)
             = (Cardinality(of_cls) * HoldoutPart[1]) \div HoldoutPart[2]}

Hard(pairs, keep) ==
  LET index == SelectSeq([k \in DOMAIN pairs |-> k],
                         LAMBDA k : k \in keep /\ pairs[k].cls # "mid")
  IN  [k \in DOMAIN index |-> pairs[index[k]]]

-----------------------------------------------------------------------------
(* Candidates: functionals that vanish on every positive *)

\* The members of S by a total order on their keys
Sorted(S, Less(_, _)) ==
  [k \in 1..Cardinality(S) |-> CHOOSE x \in S : Cardinality({y \in S : Less(y, x)}) = k - 1]

Ascending(S) == Sorted(S, LAMBDA x, y : x < y)

mask_of(t) == MapThenSumSet(LAMBDA j : 2^j, t)

LexLess(k, l) == \E i \in DOMAIN k : k[i] < l[i] /\ \A m \in 1..i - 1 : k[m] = l[m]

SortBy(S, Key(_)) == Sorted(S, LAMBDA x, y : LexLess(Key(x), Key(y)))

FirstOf(s, n) == SubSeq(s, 1, IF Len(s) < n THEN Len(s) ELSE n)

cover_of(negatives, t) == {i \in DOMAIN negatives : dot(t, negatives[i].phi)}

colmask(positives, j) == {i \in DOMAIN positives : j \in positives[i].phi}

candidate(js, single_covers) ==
  [weight |-> Len(js), cover |-> XorAll([i \in DOMAIN js |-> single_covers[js[i]]]),
   theta |-> ToSet(js)]

\* What the searches of one solve share
Problem(positives, negatives, n_linear) ==
  LET columns == UNION {negatives[i].phi : i \in DOMAIN negatives}
      Table(Op(_)) == FoldSet(LAMBDA j, f : f @@ (j :> Op(j)), <<>>, columns)
      single(j) == cover_of(negatives, {j})
      sig(j) == colmask(positives, j)
  IN  [columns |-> columns, n_linear |-> n_linear, positives |-> positives,
       single_covers |-> Table(single), signature_of |-> Table(sig)]

pair_candidates(pb) ==
  LET Family(s) ==
        LET js == SortBy({j \in pb.columns : pb.signature_of[j] = s},
                         LAMBDA j : <<-Cardinality(pb.single_covers[j]), j>>)
        IN  {candidate(<<js[1], js[k]>>, pb.single_covers) :
               k \in {m \in DOMAIN js : 2 <= m /\ m <= 1 + PairBudget}}
  IN  UNION {Family(s) : s \in {pb.signature_of[j] : j \in pb.columns} \ {{}}}

triple_candidates(pb) ==
  LET sig == pb.signature_of
      sorted == {<<a, b, c>> \in pb.columns \X pb.columns \X pb.columns :
                   a < b /\ b < c /\ sig[a] # sig[b] /\ sig[c] = Xor(sig[a], sig[b])}
      triples == {c \in {candidate(js, pb.single_covers) : js \in sorted} : c.cover # {}}
  IN  ToSet(FirstOf(SortBy(triples,
                           LAMBDA c : <<-Cardinality(c.cover), mask_of(c.theta)>>), TripleBudget))

\* A lone column counts only when linear, where the family needs a linear core
single_candidates(pb) ==
  {candidate(<<j>>, pb.single_covers) :
     j \in {c \in pb.columns : pb.signature_of[c] = {} /\ (c < pb.n_linear \/ pb.n_linear = 0)}}

by_reach(S, remaining) ==
  SortBy(S, LAMBDA c : <<-Cardinality(c.cover \cap remaining), c.weight, mask_of(c.theta)>>)

first_pool(pb, remaining) ==
  by_reach({c \in single_candidates(pb) \cup pair_candidates(pb) \cup triple_candidates(pb) :
              c.cover # {}}, remaining)

-----------------------------------------------------------------------------
(* sparse_separators: completions anchored in the target's own columns *)

\* Extends the tuple js by each column of S, in ascending order
Ext(js, S) == LET s == Ascending(S) IN [k \in DOMAIN s |-> Append(js, s[k])]

by_signature(pb, s) == {j \in pb.columns : pb.signature_of[j] = s}

\* pair_sigs: the free pairs whose signatures XOR to s
ExtPairs(js, pb, s) ==
  LET ordered == Sorted({p \in pb.columns \X pb.columns :
                                 p[1] < p[2] /\ Xor(pb.signature_of[p[1]], pb.signature_of[p[2]]) = s},
                              LexLess)
  IN  [k \in DOMAIN ordered |-> js \o ordered[k]]

AnchoredThree(pb, j1, j2, later) ==
  FlattenSeq([k \in DOMAIN later |->
    Ext(<<j1, j2, later[k]>>,
        by_signature(pb, XorAll(<<pb.signature_of[j1], pb.signature_of[j2],
                                  pb.signature_of[later[k]]>>)) \ {j1, j2, later[k]})])

AnchoredTwo(pb, j1, later) ==
  FlattenSeq([k \in DOMAIN later |->
    LET j2 == later[k]
        s == Xor(pb.signature_of[j1], pb.signature_of[j2])
    IN  Ext(<<j1, j2>>, by_signature(pb, s) \ {j1, j2})
          \o ExtPairs(<<j1, j2>>, pb, s)
          \o AnchoredThree(pb, j1, j2, SubSeq(later, k + 1, Len(later)))])

AnchoredOne(pb, j1, later) ==
  LET s1 == pb.signature_of[j1]
      others == Ascending(pb.columns \ {j1})
  IN  (IF s1 = {} /\ j1 < pb.n_linear THEN <<<<j1>>>> ELSE <<>>)
        \o Ext(<<j1>>, {j \in by_signature(pb, s1) : j > j1})
        \o ExtPairs(<<j1>>, pb, s1)
        \o AnchoredTwo(pb, j1, later)
        \o FlattenSeq([k \in DOMAIN others |->
             ExtPairs(<<j1, others[k]>>, pb, Xor(s1, pb.signature_of[others[k]]))])

tuples_for(pb, cols) ==
  FlattenSeq([k \in DOMAIN cols |-> AnchoredOne(pb, cols[k], SubSeq(cols, k + 1, Len(cols)))])

separates(pb, target, t) ==
  dot(t, target.phi) /\ \A k \in DOMAIN pb.positives : ~dot(t, pb.positives[k].phi)

\* Each theta counts as it is first offered.
offered(pb, target, tuples) ==
  {k \in DOMAIN tuples : /\ separates(pb, target, ToSet(tuples[k]))
                         /\ \A m \in 1..k - 1 : ToSet(tuples[m]) # ToSet(tuples[k])}

Separators(pb, tuples, offers) ==
  [k \in DOMAIN offers |-> candidate(tuples[offers[k]], pb.single_covers)]

FirstSeparators(pb, target, tuples) ==
  Separators(pb, tuples, FirstOf(Ascending(offered(pb, target, tuples)), SearchLimit))

\* The valid separators that fire the target.  The search's own early stop, at
\* eight times the limit, is out of a small instance.
sparse_separators(pb, target) ==
  FirstSeparators(pb, target, tuples_for(pb, Ascending(target.phi)))

-----------------------------------------------------------------------------
(* solve_family *)

min_cover(negatives) ==
  IF Len(negatives) \div 100 > 2 THEN Len(negatives) \div 100 ELSE 2

\* The best of the candidates C by its key
Best(C, Key(_)) == CHOOSE c \in C : \A d \in C \ {c} : LexLess(Key(c), Key(d))

\* A pick: chosen, its cover answered, and its sums with the head of the pool join
GrowBeam(st, pick) ==
  LET remaining == st.remaining \ pick.cover
      Grow(acc, c) ==
        LET t == Xor(pick.theta, c.theta)
            cover == Xor(pick.cover, c.cover)
        IN  IF t # {} /\ t \notin acc.thetas /\ cover \cap remaining # {}
            THEN [thetas |-> acc.thetas \cup {t},
                  pool |-> Append(acc.pool, [weight |-> Cardinality(t), cover |-> cover, theta |-> t])]
            ELSE acc
      grown == FoldLeft(Grow, [thetas |-> st.thetas, pool |-> st.pool], FirstOf(st.pool, BeamWidth))
  IN  [st EXCEPT !.chosen = Append(@, pick.theta), !.remaining = remaining,
                 !.thetas = grown.thetas,
                 !.pool = FirstOf(by_reach(ToSet(grown.pool), remaining), PoolSize)]

GiveUp(st, target) ==
  [st EXCEPT !.residuals = @ \cup {target}, !.remaining = @ \ {target}]

\* The fresh separators join the pool, the pick the family.
TakeSeparator(st, found, pick) ==
  LET remaining == st.remaining \ pick.cover
      fresh == SelectSeq(found, LAMBDA c : c.cover # {} /\ c.theta \notin st.thetas)
  IN  [st EXCEPT !.chosen = Append(@, pick.theta), !.remaining = remaining,
                 !.thetas = @ \cup {c.theta : c \in ToSet(fresh)},
                 !.pool = by_reach(ToSet(@ \o fresh), remaining)]

Answer(st, target, found) ==
  IF found = <<>> THEN GiveUp(st, target)
  ELSE TakeSeparator(st, found,
         Best(ToSet(found), LAMBDA c : <<-Cardinality(c.cover \cap st.remaining),
                                         Cardinality(c.cover), c.weight, mask_of(c.theta)>>))

\* A stall: search separators of one unanswered negative, and trust wide ones only
Separate(st, pb, negatives) ==
  LET target == CHOOSE i \in st.remaining : \A k \in st.remaining : i <= k
      Wide(c) == Cardinality(c.cover) >= min_cover(negatives)
  IN  IF st.searches = SearchBudget THEN GiveUp(st, target)
      ELSE Answer([st EXCEPT !.searches = @ + 1], target,
                  SelectSeq(sparse_separators(pb, negatives[target]), Wide))

Greedy(st, pb, negatives) ==
  LET wide == {c \in ToSet(st.pool) :
                 Cardinality(c.cover \cap st.remaining) >= min_cover(negatives)}
      Key(c) == <<-Cardinality(c.cover \cap st.remaining), c.weight, mask_of(c.theta)>>
  IN  IF st.remaining = {} THEN st
      ELSE IF wide # {} THEN GrowBeam(st, Best(wide, Key))
      ELSE Separate(st, pb, negatives)

\* Members whose true cover lies in the rest's go, one after the other
Irredundant(chosen, negatives) ==
  LET covers == [k \in DOMAIN chosen |-> cover_of(negatives, chosen[k])]
      Drop(dropped, k) ==
        IF covers[k] \subseteq UNION {covers[m] : m \in DOMAIN chosen \ (dropped \cup {k})}
        THEN dropped \cup {k} ELSE dropped
      dropped == FoldLeft(Drop, {}, [k \in DOMAIN chosen |-> k])
  IN  {chosen[k] : k \in DOMAIN chosen \ dropped}

Search(pb, negatives, pool) ==
  FoldLeft(LAMBDA st, k : Greedy(st, pb, negatives),
           [pool |-> FirstOf(pool, PoolSize), thetas |-> {c.theta : c \in ToSet(pool)},
            chosen |-> <<>>, remaining |-> DOMAIN negatives, residuals |-> {}, searches |-> 0],
           [k \in 1..Len(negatives) + GuardSlack |-> k])

Result(end, positives, negatives) ==
  [family |-> {t \in Irredundant(end.chosen, negatives) :
                 \A k \in DOMAIN positives : ~dot(t, positives[k].phi)},
   residuals |-> Cardinality(end.residuals \cup end.remaining)]

\* The family, and how many negatives it reports as not separable
solve_family(positives, negatives, n_linear) ==
  LET pb == Problem(positives, negatives, n_linear)
  IN  IF negatives = <<>> THEN [family |-> {}, residuals |-> 0]
      ELSE Result(Search(pb, negatives, first_pool(pb, DOMAIN negatives)), positives, negatives)

-----------------------------------------------------------------------------
(* run_fit: the two solves alternate, the best state is kept *)

classify(bank, row, p) ==
  IF in_kernel(bank, p) /\ ~in_kernel(row, p) THEN "conflict" ELSE "low"

miscount(pairs, bank, row) ==
  Cardinality({k \in DOMAIN pairs : classify(bank, row, pairs[k]) # pairs[k].cls})

Conflicts == OfClass(train, "conflict")

Lows == OfClass(train, "low")

solve_bank(row) ==
  solve_family(Conflicts, SelectSeq(Lows, LAMBDA p : ~in_kernel(row, p)), feats.n_bits)

solve_row(bank) == solve_family(SelectSeq(Lows, LAMBDA p : in_kernel(bank, p)), Conflicts, 0)

weight_of(family) == MapThenSumSet(Cardinality, family)

fit_key(bank, row, given_up) ==
  <<miscount(train, bank, row), given_up[1] + given_up[2],
    weight_of(bank) + weight_of(row), Cardinality(bank) + Cardinality(row)>>

Kept(bank, row, given_up) ==
  LET key == fit_key(bank, row, given_up)
  IN  IF best # <<>> /\ ~LexLess(key, best.key) THEN best
      ELSE [key |-> key, theta |-> bank, rho |-> row, residuals |-> given_up]

None == [gate |-> FALSE, degenerate |-> FALSE]

\* main: the rows are read, cut into training and holdout
Read(rows) ==
  LET pairs == Attached(feats, read_pairs(rows))
  IN  IF read_pairs(rows) = <<>> THEN train = <<>> /\ holdout = <<>> /\ pc = "error"
      ELSE \E H \in Splits(pairs) :
             /\ train = Hard(pairs, DOMAIN pairs \ H)
             /\ holdout = Hard(pairs, H)
             /\ pc = "seed"

Init ==
  /\ \E rows \in Scans, degree \in Degrees :
       /\ feats = IF read_pairs(rows) = <<>> THEN [n_bits |-> 0, degree |-> degree]
                  ELSE Features(read_pairs(rows), degree)
       /\ Read(rows)
  /\ theta = {} /\ rho = {} /\ left = <<0, 0>> /\ seen = {} /\ best = <<>> /\ turn = 0
  /\ verdict = None

Solved(bank, row) ==
  theta' = bank.family /\ rho' = row.family /\ left' = <<bank.residuals, row.residuals>>

\* No row knowledge yet: every low demands a bank functional
Seed ==
  /\ pc = "seed"
  /\ LET bank == solve_family(Conflicts, Lows, feats.n_bits)
     IN  Solved(bank, solve_row(bank.family))
  /\ pc' = "fit"
  /\ UNCHANGED <<feats, train, holdout, seen, best, turn, verdict>>

\* After each half-step: the best fit, and the end on a state met before
Judge ==
  /\ best' = Kept(theta', rho', left')
  /\ seen' = seen \cup {<<theta', rho'>>}
  /\ turn' = turn + 1
  /\ pc' = IF <<theta', rho'>> \in seen \/ turn + 1 = 2 * Rounds THEN "write" ELSE "fit"
  /\ UNCHANGED <<feats, train, holdout, verdict>>

BankStep ==
  /\ pc = "fit" /\ turn % 2 = 0
  /\ LET bank == solve_bank(rho)
     IN  theta' = bank.family /\ left' = <<bank.residuals, left[2]>>
  /\ rho' = rho
  /\ Judge

RowStep ==
  /\ pc = "fit" /\ turn % 2 = 1
  /\ LET row == solve_row(theta)
     IN  rho' = row.family /\ left' = <<left[1], row.residuals>>
  /\ theta' = theta
  /\ Judge

HoldoutGate == [num |-> 19, den |-> 20]

Passes(correct, total) ==
  total > 0 /\ correct * HoldoutGate.den >= total * HoldoutGate.num

\* evaluate, write_model and print_report on the pairs held out
Write ==
  LET missed == miscount(holdout, best.theta, best.rho)
      conflicts == OfClass(holdout, "conflict")
      gate == Passes(Len(holdout) - missed, Len(holdout))
  IN  /\ pc = "write"
      /\ verdict' = [gate |-> gate,
                     degenerate |-> /\ gate /\ conflicts # <<>>
                                    /\ ~Passes(Len(conflicts) - miscount(conflicts, best.theta, best.rho),
                                               Len(conflicts))]
      /\ pc' = "done"
      /\ UNCHANGED <<feats, train, holdout, theta, rho, left, seen, best, turn>>

Next == Seed \/ BankStep \/ RowStep \/ Write

Spec == Init /\ [][Next]_vars

-----------------------------------------------------------------------------
(* Properties *)

\* The residuals are the honest measure of what the families cannot express
\* (solve_mapping.py:33-36): of the fit kept so far, no more training pairs are
\* misclassified than the two solves reported as not separable.
FitHonest ==
  best # <<>> => miscount(train, best.theta, best.rho) <= best.residuals[1] + best.residuals[2]

=============================================================================
