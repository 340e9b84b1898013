------------------------------ MODULE ProbePlans ------------------------------
(***************************************************************************)
(* The planners of tools/g3_probe/g3_pool.py: which pairs of addresses a   *)
(* run measures, in which order.  The order is a contract: an analyzer     *)
(* finds the sections of a result by their position alone.                 *)
(***************************************************************************)
EXTENDS PoolPages

CONSTANTS
  Baseline,           \* S1_IN_PAGE_CANDIDATES: an offset in another bank
  Anchor,             \* and one in the same bank and another row
  PilotProbes,        \* CENSUS_PILOT_PROBES
  SecondOffset,       \* CENSUS_SELF_SECOND_OFFSET
  AnchorCandidates,   \* TABLE_BUILD_ANCHOR_CANDIDATES
  ColumnProbe         \* TABLE_BUILD_COLUMN_PROBE

ASSUME PlanAssumption ==
  /\ {Baseline, Anchor, SecondOffset, ColumnProbe} \subseteq 1 .. PageBytes - 1
  /\ ToSet(PilotProbes) \cup ToSet(AnchorCandidates) \subseteq 1 .. PageBytes - 1
  /\ AnchorCandidates \in Seq(Nat) /\ Anchor \in ToSet(AnchorCandidates)

PageQuery(pages, section, role, bit, bit2, index, page, low_a, low_b) ==
  TypedQuery(section, role, bit, bit2, index,
             Half(pages, page, low_a), Half(pages, page, low_b))

CrossQuery(pages, section, role, bit, index, left, right, low) ==
  TypedQuery(section, role, bit, 0, index, Half(pages, left, 0), Half(pages, right, low))

\* Every plan begins with the triple of the first page.
Calibration(pages) ==
  [i \in 1..3 |->
     PageQuery(pages, "calibration", <<"floor", "baseline", "conflict">>[i], 0, 0, i,
               pa_pages(pages)[1], 0, <<0, Baseline, Anchor>>[i])]

SelfSection(pages, section, seq) ==
  [i \in DOMAIN seq |-> PageQuery(pages, section, "none", 0, 0, i, seq[i], 0, 0)]

-----------------------------------------------------------------------------
\* round() of i * (n - 1) / (k - 1): a half goes to the even neighbour.
Spread(i, n, k) ==
  LET num == i * (n - 1)
      low == num \div (k - 1)
      rest == 2 * (num % (k - 1))
  IN IF rest < k - 1 \/ (rest = k - 1 /\ low % 2 = 0) THEN low ELSE low + 1

select_sanity_queries(pages, cross_page) ==
  LET seq == pa_pages(pages)
      indexes == IF cross_page > 1 /\ Len(seq) > 1
                 THEN {Spread(i, Len(seq), cross_page) : i \in 0 .. cross_page - 1}
                 ELSE {0}
      sampled == [i \in 1 .. Cardinality(indexes) |-> seq[Sorted(indexes)[i] + 1]]
  IN Calibration(pages)
       \o [i \in 1 .. Len(sampled) - 1 |->
             CrossQuery(pages, "cross", "none", 0, i, sampled[1], sampled[i + 1], 0)]

_base_pages(pages, count) ==
  LET seq == pa_pages(pages) IN
  IF count <= 1 THEN <<seq[1]>>
  ELSE [j \in 1..count |-> seq[((j - 1) * (Len(seq) - 1)) \div (count - 1) + 1]]

\* Pages whose partner across one address bit is in the pool too, thinned out.
_page_partners(pages, bit, limit) ==
  LET seq == pa_pages(pages)
      lefts == SelectSeq(seq, LAMBDA p : /\ bit \notin BitsOf[p.pa]
                                         /\ Backing(pages, p.pa + 2 ^ bit) # {})
      stride == Len(lefts) \div limit
  IN IF lefts = <<>> THEN <<>>
     ELSE Prefix(Strided(lefts, IF stride > 1 THEN stride ELSE 1), limit)

Partner(pages, left, bit) == CHOOSE p \in Backing(pages, left.pa + 2 ^ bit) : TRUE

\* The highest bit of any page of the pool.
TopBit(pages) ==
  CHOOSE b \in 0 .. PaBits - 1 :
    /\ \E p \in pages : b \in BitsOf[p.pa]
    /\ \A p \in pages : \A c \in BitsOf[p.pa] : c <= b
PageLevelBits(pages) == IF \E p \in pages : p.pa # 0 THEN PageBits .. TopBit(pages) ELSE {}

select_bit_scan_queries(pages, in_page_bases, pairs_per_bit) ==
  LET bases == _base_pages(pages, in_page_bases)
      InPage(b) == [i \in DOMAIN bases |->
        PageQuery(pages, "in_page", "none", b - 1, 0, i, bases[i], 0, 2 ^ (b - 1))]
      PageLevel(i, bit) ==
        LET lefts == _page_partners(pages, bit, pairs_per_bit) IN
        [j \in DOMAIN lefts |->
           CrossQuery(pages, "page", "none", bit, j, lefts[j],
                      Partner(pages, lefts[j], bit), 0)]
  IN Calibration(pages) \o Sections(PageBits, InPage)
       \o OverSeq(Sorted(PageLevelBits(pages)), PageLevel)

-----------------------------------------------------------------------------
plan_pair_scan_queries(pages, in_page_bases, page_samples, anchor_samples) ==
  LET seq == pa_pages(pages)
      bases == _base_pages(pages, in_page_bases)
      OverBases(section, bit, bit2, low) ==
        [i \in DOMAIN bases |->
           PageQuery(pages, section, "none", bit, bit2, i, bases[i], 0, low)]
      AnchoredBit(b) == OverBases("anchored_bit", b - 1, 0, Xor[Anchor][2 ^ (b - 1)])
      Pairs(b1) == Sections(PageBits - b1,
        LAMBDA d : OverBases("pair", b1 - 1, b1 + d - 1, 2 ^ (b1 - 1) + 2 ^ (b1 + d - 1)))
      step == Len(seq) \div Larger(anchor_samples, 1)
      swept == IF anchor_samples > 0
               THEN Prefix(Strided(seq, Larger(1, step)), anchor_samples) ELSE <<>>
      Sweep == [i \in DOMAIN swept |->
        PageQuery(pages, "anchor_sweep", "none", 0, 0, i, swept[i], 0, Anchor)]
      Triple(bit, i, left, right) ==
        <<PageQuery(pages, "page_triple", "anchor", bit, 0, i, left, 0, Anchor),
          CrossQuery(pages, "page_triple", "single", bit, i, left, right, 0),
          CrossQuery(pages, "page_triple", "anchored", bit, i, left, right, Anchor)>>
      Triples(i, bit) ==
        OverSeq(_page_partners(pages, bit, page_samples),
                LAMBDA j, left : Triple(bit, j, left, Partner(pages, left, bit)))
  IN Calibration(pages) \o OverBases("anchor_base", 0, 0, Anchor)
       \o Sections(PageBits, AnchoredBit) \o Sections(PageBits - 1, Pairs)
       \o Sweep \o OverSeq(Sorted(PageLevelBits(pages)), Triples)

-----------------------------------------------------------------------------
PilotOffsets ==
  <<0, Anchor>> \o PilotProbes
    \o [i \in DOMAIN PilotProbes |-> Xor[Anchor][PilotProbes[i]]]

\* A byte address of an earlier run, in this pool.
_pa_query(pages, pa) == {Half(pages, p, in_page(pa)) : p \in Backing(pages, page_of(pa))}

Resolves(pages, pa) == _pa_query(pages, pa) # {}
Resolved(pages, pa) == CHOOSE side \in _pa_query(pages, pa) : TRUE

plan_census_queries(pages, second_stride, repeat_pages, reprobe_pairs, pilot_pages) ==
  LET seq == pa_pages(pages)
      Second(i, page) ==
        IF second_stride > 0 /\ (i - 1) % second_stride = 0
        THEN <<PageQuery(pages, "self_second", "none", 0, 0, i, page,
                         SecondOffset, SecondOffset)>>
        ELSE <<>>
      Reprobe(i, pair) ==
        IF Resolves(pages, pair[1]) /\ Resolves(pages, pair[2])
        THEN <<TypedQuery("reprobe", "none", 0, 0, i,
                          Resolved(pages, pair[1]), Resolved(pages, pair[2]))>>
        ELSE <<>>
      Lattice(i, page) ==
        Sections(Len(PilotOffsets), LAMBDA l :
          [d \in 1 .. Len(PilotOffsets) - l |->
             PageQuery(pages, "row_pilot", "none", l, l + d, i, page,
                       PilotOffsets[l], PilotOffsets[l + d])])
      Pilot(i, base) ==
        IF Backing(pages, base) = {} THEN <<>>
        ELSE Lattice(i, CHOOSE p \in Backing(pages, base) : TRUE)
  IN Calibration(pages) \o SelfSection(pages, "self", seq) \o OverSeq(seq, Second)
       \o SelfSection(pages, "repeat", Prefix(seq, repeat_pages))
       \o OverSeq(reprobe_pairs, Reprobe) \o OverSeq(pilot_pages, Pilot)

-----------------------------------------------------------------------------
\* The pages of rep_pas that the pool has, each once, in order.
Reps(pages, rep_pas) ==
  FoldLeft(LAMBDA reps, base :
             IF Backing(pages, base) = {} \/ base \in {r.pa : r \in ToSet(reps)} THEN reps
             ELSE Append(reps, CHOOSE p \in Backing(pages, base) : TRUE),
           <<>>, rep_pas)

BankPages(pages, bases) == SelectSeq(bases, LAMBDA base : Backing(pages, base) # {})

\* dict.fromkeys of the candidates and the column probe.
BankLattice ==
  AnchorCandidates \o (IF ColumnProbe \in ToSet(AnchorCandidates) THEN <<>> ELSE <<ColumnProbe>>)

\* Mutant: the second probe is also taken at the anchor itself.
BankMapBoth(pages, i, page) ==
  OverSeq(BankLattice, LAMBDA k, low :
    <<PageQuery(pages, "bank_map", "base", k, 0, i, page, 0, low),
      PageQuery(pages, "bank_map", "anchor", k, 0, i, page, Anchor, low)>>)

BankMap(pages, i, page) ==
  OverSeq(BankLattice, LAMBDA k, low :
    <<PageQuery(pages, "bank_map", "base", k, 0, i, page, 0, low)>>
      \o (IF low = Anchor THEN <<>>
          ELSE <<PageQuery(pages, "bank_map", "anchor", k, 0, i, page, Anchor, low)>>))

plan_table_build_queries(pages, rep_pas, bank_map_pages, repeat_pages) ==
  LET seq == pa_pages(pages)
      reps == Reps(pages, rep_pas)
      AnchorSweep(i, page) ==
        [c \in DOMAIN AnchorCandidates |->
           PageQuery(pages, "anchor_sweep", "none", c, 0, i, page, 0, AnchorCandidates[c])]
      Classify(i, page) ==
        OverSeq(reps, LAMBDA r, rep :
          IF rep.pa = page.pa THEN <<>>
          ELSE <<CrossQuery(pages, "classify", "none", r, i, page, rep, 0)>>)
      Mapped(i, base) == BankMap(pages, i, CHOOSE p \in Backing(pages, base) : TRUE)
  IN Calibration(pages) \o SelfSection(pages, "self", seq) \o OverSeq(seq, AnchorSweep)
       \o OverSeq(seq, Classify) \o OverSeq(BankPages(pages, bank_map_pages), Mapped)
       \o SelfSection(pages, "repeat", Prefix(seq, repeat_pages))

\* The pairs of a table build, in the order of the plan, by the bases of its
\* pages: what the analyzer expects at each row of the three sections.
Bases(seq) == [i \in DOMAIN seq |-> seq[i].pa]

AnchorPairs(bases) ==
  OverSeq(bases, LAMBDA i, base :
    [c \in DOMAIN AnchorCandidates |-> <<base, base + AnchorCandidates[c]>>])
ClassifyPairs(bases, reps) ==
  OverSeq(bases, LAMBDA i, base :
    OverSeq(reps, LAMBDA r, rep : IF rep = base THEN <<>> ELSE <<<<base, rep>>>>))
BankPairs(bases) ==
  OverSeq(bases, LAMBDA i, base :
    OverSeq(BankLattice, LAMBDA k, low :
      <<<<base, base + low>>>>
        \o IF low = Anchor THEN <<>> ELSE <<<<base + Anchor, base + low>>>>))

-----------------------------------------------------------------------------
\* The pairs whose two addresses are in the pool, and the pages they touch.
KeptPairs(pages, pair_pas) ==
  SelectSeq(pair_pas, LAMBDA t : Resolves(pages, t[1]) /\ Resolves(pages, t[2]))

SelfPages(pages, kept) ==
  SelectSeq(pa_pages(pages),
            LAMBDA p : \E t \in ToSet(kept) : p.pa \in {page_of(t[1]), page_of(t[2])})

plan_predict_check_queries(pages, pair_pas, repeat_pages) ==
  LET kept == KeptPairs(pages, pair_pas)
      touched == SelfPages(pages, kept)
  IN Calibration(pages) \o SelfSection(pages, "self", touched)
       \o [i \in DOMAIN kept |->
             TypedQuery("predict", "none", 0, 0, i,
                        Resolved(pages, kept[i][1]), Resolved(pages, kept[i][2]))]
       \o SelfSection(pages, "repeat", Prefix(touched, repeat_pages))
=============================================================================
