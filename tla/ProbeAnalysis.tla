----------------------------- MODULE ProbeAnalysis -----------------------------
(***************************************************************************)
(* One probe run of tools/g2_observer/run_g3_pool_probe.py and the offline *)
(* analyzer of its mode in tools/g3_probe: the orchestrator plans the      *)
(* queries over the observed pool, the harness measures every row, and the *)
(* analyzer cuts the result into sections by position alone and states     *)
(* what it decided about pairs of addresses.                               *)
(*                                                                         *)
(* The memory is hidden from the program.  One row of a run may be noisy,  *)
(* and everything measured after the self block reads drift cycles more.   *)
(***************************************************************************)
EXTENDS ProbePlans

CONSTANTS
  Worlds,         \* bound: [layout, gpu, drift, earlier] the runs may meet
  Modes,          \* --work-mode
  Args,           \* the other options of the command line
  Disturbances    \* bound: how far a noisy row is off, in cycles

VARIABLES
  world, mode,
  pages,          \* pool_map.csv
  selection,      \* the selection that summary.json records
  plan,           \* work.csv
  result,         \* result.csv: the work and two measurements a row
  noise,          \* the noisy row and what happened to it
  report,         \* the analyzer's outcome and what it claims
  pc

vars == <<world, mode, pages, selection, plan, result, noise, report, pc>>

AnalyzedModes == {"bit-scan", "pair-scan", "census", "table-build", "predict-check"}

ASSUME AnalysisAssumption ==
  /\ Modes \subseteq AnalyzedModes \cup {"sanity"}
  /\ Disturbances \subseteq Nat \ {0}
  /\ DOMAIN Args = {"in_page_bases", "pairs_per_bit", "page_samples", "anchor_samples",
                    "census_stride", "repeat_pages", "pilot_pages", "bank_map_pages",
                    "cross_page"}

NoReport == [outcome |-> "none", claims |-> {}]

Init ==
  /\ world \in Worlds /\ mode \in Modes
  /\ pages = {} /\ selection = <<>> /\ plan = <<>> /\ result = <<>>
  /\ noise = [row |-> 0, kind |-> "none", off |-> 0]
  /\ report = NoReport /\ pc = "select"

-----------------------------------------------------------------------------
(* The orchestrator.                                                       *)

\* The anchor-valid pages of an earlier sweep, a sequence of <<address, class>>.
mine_pilot_pages(swept, count) ==
  Prefix(Sorted({page_of(row[1]) : row \in {r \in ToSet(swept) : r[2] = "conflict"}}), count)

\* The first page of every component that this pool has.
load_seed_reps(thepages, components) ==
  LET backed == {p.pa : p \in thepages}
      RepOf(members) == Sorted(members \cap backed)[1]
      found == SelectSeq(components, LAMBDA c : c \cap backed # {})
  IN [i \in DOMAIN found |-> RepOf(found[i])]

BitScanWork(ps) ==
  [plan |-> select_bit_scan_queries(ps, Args.in_page_bases, Args.pairs_per_bit), sel |-> <<>>]

PairScanWork(ps) ==
  [plan |-> plan_pair_scan_queries(ps, Args.in_page_bases, Args.page_samples,
                                   Args.anchor_samples),
   sel |-> <<>>]

CensusWork(ps) ==
  LET pilots == mine_pilot_pages(world.earlier.swept, Args.pilot_pages) IN
  [plan |-> plan_census_queries(ps, Args.census_stride, Args.repeat_pages,
                                world.earlier.reprobe, pilots),
   sel |-> [reprobe_planned |-> Len(KeptPairs(ps, world.earlier.reprobe)),
            pilot_pages |-> ToSet(pilots),
            pilot_planned |-> Len(BankPages(ps, pilots))]]

TableBuildWork(ps) ==
  LET reps == load_seed_reps(ps, world.earlier.components)
      bank == mine_pilot_pages(world.earlier.swept, Args.bank_map_pages)
  IN [plan |-> plan_table_build_queries(ps, reps, bank, Args.repeat_pages),
      sel |-> [reps |-> Reps(ps, reps), bank_pages |-> BankPages(ps, bank),
               repeat |-> Len(Prefix(pa_pages(ps), Args.repeat_pages))]]

PredictWork(ps) ==
  LET kept == KeptPairs(ps, world.earlier.predicted)
      touched == SelfPages(ps, kept)
  IN [plan |-> plan_predict_check_queries(ps, world.earlier.predicted, Args.repeat_pages),
      sel |-> [pairs |-> kept, self |-> touched,
               repeat |-> Len(Prefix(touched, Args.repeat_pages))]]

Work(m, ps) ==
  CASE m = "bit-scan" -> BitScanWork(ps)
    [] m = "pair-scan" -> PairScanWork(ps)
    [] m = "census" -> CensusWork(ps)
    [] m = "table-build" -> TableBuildWork(ps)
    [] m = "predict-check" -> PredictWork(ps)
    [] m = "sanity" -> [plan |-> select_sanity_queries(ps, Args.cross_page), sel |-> <<>>]

\* The pool is mapped and observed; PoolMap refuses pages that do not tile.
SelectQueries ==
  /\ pc = "select"
  /\ LET ps == segments_to_pages(world.layout) IN
     /\ \A k \in DOMAIN world.layout.bases : Tiles(ps, k)
     /\ LET work == Work(mode, ps) IN
        /\ pages' = ps
        /\ plan' = work.plan
        /\ selection' = work.sel
  /\ pc' = "work"
  /\ UNCHANGED <<world, mode, result, noise, report>>

-----------------------------------------------------------------------------
(* The harness.                                                            *)

\* Everything after the self block is measured late.
Drifts(i) ==
  /\ plan[i].section \notin {"calibration", "self"}
  /\ \E j \in 1 .. i - 1 : plan[j].section = "self"

Measured(i, shift, torn) ==
  LET q == plan[i]
      cycles == shift + TrueCycles(world.gpu, TouchedPa(world.layout, q.a),
                                   TouchedPa(world.layout, q.b),
                                   IF Drifts(i) THEN world.drift ELSE 0)
  IN [a |-> q.a, b |-> q.b, cycles_a |-> cycles, cycles_b |-> cycles + torn]

\* parse_work_file refuses the whole list for one query out of its chunk.
HarnessRefuses ==
  /\ pc = "work"
  /\ \E i \in DOMAIN plan : ~InRange(world.layout, plan[i].a) \/ ~InRange(world.layout, plan[i].b)
  /\ report' = [outcome |-> "harness_refused", claims |-> {}]
  /\ pc' = "done"
  /\ UNCHANGED <<world, mode, pages, selection, plan, result, noise>>

\* What happened to the noisy row; torn means one of its two measurements.
Noises == {[row |-> 0, kind |-> "none", off |-> 0]}
            \cup [row : DOMAIN plan, kind : {"row"},
                  off : Disturbances \cup {-d : d \in Disturbances}]
            \cup [row : DOMAIN plan, kind : {"torn"}, off : {Max(Disturbances)}]

HarnessWork ==
  /\ pc = "work"
  /\ \A i \in DOMAIN plan : InRange(world.layout, plan[i].a) /\ InRange(world.layout, plan[i].b)
  /\ \E n \in Noises :
       LET Off(i, kind) == IF i = n.row /\ n.kind = kind THEN n.off ELSE 0 IN
       /\ noise' = n
       /\ result' = [i \in DOMAIN plan |-> Measured(i, Off(i, "row"), Off(i, "torn"))]
  /\ pc' = IF mode = "sanity" THEN "done" ELSE "analyze"
  /\ UNCHANGED <<world, mode, pages, selection, plan, report>>

-----------------------------------------------------------------------------
(* The analyzers.  A section is count rows after the ones before it.       *)

Total(counts) == FoldLeft(+, 0, counts)
Section(counts, k) ==
  LET before == Total(SubSeq(counts, 1, k - 1)) IN
  SubSeq(result, before + 1, before + counts[k])

PasOf(row) == <<pa_of(pages, row.a), pa_of(pages, row.b)>>

floor == result[1].cycles_a
baseline == result[2].cycles_a
amplitude == result[3].cycles_a - result[2].cycles_a

Torn(row) == Asymmetric(row.cycles_a, row.cycles_b, amplitude)
DriftOf(repeats, selfs) ==
  late_offset([i \in DOMAIN repeats |-> repeats[i].cycles_a - selfs[i].cycles_a])

Claim(kind, pas) == [kind |-> kind, a |-> pas[1], b |-> pas[2]]
Failed(outcome) == [outcome |-> outcome, claims |-> {}]
Analyzed(claims) == [outcome |-> "analyzed", claims |-> claims]

\* What a row's class says of its pair.
Decided(class, pas) ==
  CASE class \in {"conflict", "deep_conflict"} -> {Claim("conflict", pas)}
    [] class = "low" -> {Claim("low", pas)}
    [] OTHER -> {}

\* The self rows read the start of every page, in order.
SelfRowsFit(rows, seq) ==
  \A i \in DOMAIN rows : PasOf(rows[i]) = <<seq[i].pa, seq[i].pa>>

\* The cycles of the self pair of an address's page, 0 if there is none.
SelfCycles(rows, pa) ==
  LET own == {i \in DOMAIN rows : PasOf(rows[i])[1] = page_of(pa)} IN
  IF own = {} THEN 0 ELSE rows[CHOOSE i \in own : TRUE].cycles_a

SlowerSelf(rows, pas) == Larger(SelfCycles(rows, pas[1]), SelfCycles(rows, pas[2]))

-----------------------------------------------------------------------------
GlobalClass(row) == IF Torn(row) THEN "asymmetric" ELSE classify(row.cycles_a, baseline, amplitude)

OneBit(pas) == Cardinality(BitsOf[Xor[pas[1]][pas[2]]]) = 1

AnalyzeBitScan ==
  LET rest == 4 .. Len(result)
  IN IF ~CalibrationHolds(floor, baseline, amplitude) THEN Failed("degenerate")
     ELSE IF \E i \in rest : ~OneBit(PasOf(result[i])) THEN Failed("integrity")
     ELSE Analyzed(UNION {Decided(GlobalClass(result[i]), PasOf(result[i])) : i \in rest})

\* An anchored probe says whether the flip of its bit kept the bank.
Anchored(class, pas) ==
  LET flipped == <<pas[1], Xor[pas[2]][Anchor]>> IN
  CASE class = "conflict" -> {Claim("bank_kept", flipped)}
    [] class = "low" -> {Claim("bank_changed", flipped)}
    [] OTHER -> {}

\* Mutant: one base page with a valid anchor vouches for all.
AnchorHoldsSomewhere(again, t) ==
  \E i \in DOMAIN again :
    /\ \/ t.section = "anchored_bit" /\ again[i].section = "anchor_base"
       \/ t.section = "page_triple" /\ again[i].role = "anchor" /\ again[i].bit = t.bit
    /\ GlobalClass(result[i]) = "conflict"

\* The anchored rows count where the anchor conflicted: per base, per sample.
AnchorHolds(again, t) ==
  \E i \in DOMAIN again :
    /\ again[i].index = t.index
    /\ \/ t.section = "anchored_bit" /\ again[i].section = "anchor_base"
       \/ t.section = "page_triple" /\ again[i].role = "anchor" /\ again[i].bit = t.bit
    /\ GlobalClass(result[i]) = "conflict"

AnalyzePairScan ==
  LET again == plan_pair_scan_queries(pages, Args.in_page_bases, Args.page_samples,
                                      Args.anchor_samples)
      Interpreted(i) ==
        LET t == again[i]
            pas == query_pa(pages, t)
            class == GlobalClass(result[i])
        IN IF t.section = "calibration" THEN {}
           ELSE Decided(class, pas)
                  \cup IF (t.section = "anchored_bit" \/ t.role = "anchored") /\ AnchorHolds(again, t)
                       THEN Anchored(class, pas) ELSE {}
  IN IF Len(result) # Len(again) THEN Failed("integrity")
     ELSE IF \E i \in DOMAIN again : <<plan[i].a, plan[i].b>> # <<again[i].a, again[i].b>>
          THEN Failed("integrity")
     ELSE IF ~CalibrationHolds(floor, baseline, amplitude) THEN Failed("degenerate")
     ELSE Analyzed(UNION {Interpreted(i) : i \in DOMAIN again})

-----------------------------------------------------------------------------
(* The census: lambdas, re-probes of earlier pairs, the row pilot.         *)

CensusCounts ==
  LET n == Len(pa_pages(pages))
      stride == Args.census_stride
      offsets == Len(PilotOffsets)
  IN <<3, n, IF stride > 0 THEN (n + stride - 1) \div stride ELSE 0,
       IF Args.repeat_pages < n THEN Args.repeat_pages ELSE n,
       selection.reprobe_planned,
       (selection.pilot_planned * offsets * (offsets - 1)) \div 2>>

CensusClass(row, selfs, repeats) ==
  classify3(row.cycles_a + DriftOf(repeats, selfs), SlowerSelf(selfs, PasOf(row)),
            baseline, amplitude)

CensusVerdict(row, selfs, repeats) ==
  IF \E pa \in ToSet(PasOf(row)) : SelfCycles(selfs, pa) = 0 THEN "page_uncovered"
  ELSE IF Torn(row) THEN "asymmetric" ELSE CensusClass(row, selfs, repeats)

\* analyze_pilot: deep edges join banks, low edges inside a bank join rows.
analyze_pilot(rows, selfs, repeats) ==
  LET edges == {[at |-> PasOf(rows[i]),
                 class |-> IF Torn(rows[i]) THEN "asymmetric"
                           ELSE CensusClass(rows[i], selfs, repeats)] : i \in DOMAIN rows}
      Of(class) == {e.at : e \in {d \in edges : d.class = class}}
      items == UNION {ToSet(e.at) : e \in edges}
      banks == Classes(items, Of("deep_conflict"))
      rowset == Classes(items, {e \in Of("low") : ClassOf(banks, e[1]) = ClassOf(banks, e[2])})
      Together(kind, classes) == UNION {{Claim(kind, <<x, y>>) : x, y \in c} : c \in classes}
  IN Together("same_bank", banks) \cup Together("same_row", rowset)
       \cup {Claim("contradiction", e) :
               e \in {d \in Of("deep_conflict") : ClassOf(rowset, d[1]) = ClassOf(rowset, d[2])}}

AnalyzeCensus ==
  LET counts == CensusCounts
      selfs == Section(counts, 2)
      seconds == Section(counts, 3)
      repeats == Section(counts, 4)
      reprobes == Section(counts, 5)
      seq == pa_pages(pages)
      SecondOk(i) ==
        LET pa == seq[(i - 1) * Args.census_stride + 1].pa + SecondOffset IN
        PasOf(seconds[i]) = <<pa, pa>>
      Same(r, q) == r.a = q.a /\ r.b = q.b
      Reprobed(row) == Decided(CensusVerdict(row, selfs, repeats), PasOf(row))
  IN IF Len(result) # Total(counts) THEN Failed("integrity")
     ELSE IF \/ ~SelfRowsFit(selfs, seq)
             \/ \E i \in DOMAIN seconds : ~SecondOk(i)
             \/ \E i \in DOMAIN repeats : ~Same(repeats[i], selfs[i])
          THEN Failed("integrity")
     ELSE IF amplitude <= 0 THEN Failed("degenerate")
     ELSE Analyzed(UNION {Reprobed(row) : row \in ToSet(reprobes)}
                     \cup analyze_pilot(Section(counts, 6), selfs, repeats))

-----------------------------------------------------------------------------
(* The table build: edges, same-bank components, bank maps.                *)

TableCounts ==
  LET n == Len(pa_pages(pages))
      lattice == Len(BankLattice)
  IN <<3, n, n * Len(AnchorCandidates),
       Cardinality({p \in ToSet(pa_pages(pages)) \X ToSet(selection.reps) : p[1].pa # p[2].pa}),
       Len(selection.bank_pages)
         * (2 * lattice - IF Anchor \in ToSet(BankLattice) THEN 1 ELSE 0),
       selection.repeat>>

TableClass(row, selfs, repeats) ==
  IF Torn(row) THEN "asymmetric"
  ELSE label_of(row.cycles_a + DriftOf(repeats, selfs), SlowerSelf(selfs, PasOf(row)), amplitude)

\* Mutant: an offset in the anchor's row is taken for one in the base's row.
BankMapSwapped(base, low, from_base, from_anchor) ==
  IF "deep_conflict" \notin {from_base, from_anchor} THEN {}
  ELSE {Claim("same_bank", <<base, base + low>>)}
       \cup IF "low" \in {from_base, from_anchor}
            THEN {Claim("same_row", <<base, base + low>>)} ELSE {}

\* What the two probes of an offset of a bank map say, once the anchor is deep.
BankMapClaims(base, low, from_base, from_anchor) ==
  LET same_bank == "deep_conflict" \in {from_base, from_anchor} IN
  IF ~same_bank THEN {}
  ELSE {Claim("same_bank", <<base, base + low>>)}
       \cup CASE from_base # "low" /\ from_anchor = "low" ->
                   {Claim("same_row", <<base + Anchor, base + low>>)}
              [] from_base = "low" -> {Claim("same_row", <<base, base + low>>)}
              [] OTHER -> {}

AnalyzeTableBuild ==
  LET counts == TableCounts
      selfs == Section(counts, 2)
      anchors == Section(counts, 3)
      classified == Section(counts, 4)
      mapped == Section(counts, 5)
      repeats == Section(counts, 6)
      seq == pa_pages(pages)
      bases == Bases(seq)
      Fits(rows, pairs) == [i \in DOMAIN rows |-> PasOf(rows[i])] = pairs
      Label(row) == TableClass(row, selfs, repeats)
      deep == {PasOf(row) : row \in {r \in ToSet(classified) : Label(r) = "deep_conflict"}}
      components == Classes({p.pa : p \in ToSet(seq)}, deep)
      Probe(x, y) ==
        LET at == {i \in DOMAIN mapped : PasOf(mapped[i]) = <<x, y>>} IN
        IF at = {} THEN "missing" ELSE Label(mapped[CHOOSE i \in at : TRUE])
      Map(base) ==
        IF Probe(base, base + Anchor) # "deep_conflict" THEN {}
        ELSE UNION {BankMapClaims(base, low, Probe(base, base + low),
                                  Probe(base + Anchor, base + low)) : low \in ToSet(BankLattice)}
  IN IF Len(result) # Total(counts) THEN Failed("integrity")
     ELSE IF \/ ~SelfRowsFit(selfs, seq) \/ ~SelfRowsFit(repeats, seq)
             \/ ~Fits(anchors, AnchorPairs(bases))
             \/ ~Fits(classified, ClassifyPairs(bases, Bases(selection.reps)))
             \/ ~Fits(mapped, BankPairs(selection.bank_pages))
          THEN Failed("integrity")
     ELSE IF amplitude <= 0 THEN Failed("degenerate")
     \* The share of deep pairs is printed, whatever the number of pairs.
     ELSE IF classified = <<>> THEN Failed("division by zero")
     ELSE Analyzed(UNION {Decided(Label(row), PasOf(row)) :
                            row \in ToSet(anchors \o classified \o mapped)}
                     \cup UNION {{Claim("same_bank", <<x, y>>) : x, y \in c} : c \in components}
                     \cup UNION {Map(base) : base \in ToSet(selection.bank_pages)})

-----------------------------------------------------------------------------
(* gate_re_check: the predictions of a table against fresh measurements.   *)

AnalyzePredictCheck ==
  LET pairs == selection.pairs
      counts == <<3, Len(selection.self), Len(pairs), selection.repeat>>
      selfs == Section(counts, 2)
      predicted == Section(counts, 3)
      Label(row) == TableClass(row, selfs, Section(counts, 4))
      HardFlip(i) == {pairs[i][3], Label(predicted[i])} = {"deep_conflict", "low"}
  IN IF Len(result) # Total(counts) THEN Failed("integrity")
     ELSE IF \/ ~SelfRowsFit(selfs, selection.self)
             \/ \E i \in DOMAIN pairs : PasOf(predicted[i]) # <<pairs[i][1], pairs[i][2]>>
          THEN Failed("integrity")
     ELSE IF amplitude <= 0 THEN Failed("degenerate")
     ELSE Analyzed(UNION {Decided(Label(row), PasOf(row)) : row \in ToSet(predicted)}
                     \cup {Claim("falsified " \o pairs[i][3], PasOf(predicted[i])) :
                             i \in {j \in DOMAIN pairs : HardFlip(j)}})

Analyze ==
  /\ pc = "analyze"
  /\ report' = CASE mode = "bit-scan" -> AnalyzeBitScan
                [] mode = "pair-scan" -> AnalyzePairScan
                [] mode = "census" -> AnalyzeCensus
                [] mode = "table-build" -> AnalyzeTableBuild
                [] mode = "predict-check" -> AnalyzePredictCheck
  /\ pc' = "done"
  /\ UNCHANGED <<world, mode, pages, selection, plan, result, noise>>

Next == SelectQueries \/ HarnessRefuses \/ HarnessWork \/ Analyze

Spec == Init /\ [][Next]_vars

-----------------------------------------------------------------------------
Meaning(gpu, c) ==
  CASE c.kind \in {"conflict", "falsified low"} -> Conflict(gpu, c.a, c.b)
    [] c.kind \in {"low", "falsified deep_conflict"} -> ~Conflict(gpu, c.a, c.b)
    [] c.kind = "same_bank" -> SameBank(gpu, c.a, c.b)
    [] c.kind = "same_row" -> SameBank(gpu, c.a, c.b) /\ Row(gpu, c.a) = Row(gpu, c.b)
    [] c.kind = "bank_kept" -> SameBank(gpu, c.a, c.b)
    [] c.kind = "bank_changed" -> ~SameBank(gpu, c.a, c.b)
    [] c.kind = "contradiction" -> FALSE

IsAnchored(c) == c.kind \in {"bank_kept", "bank_changed"}

\* What an anchored probe relies on and no row of the run measures: the anchor
\* leads to another row, and on the other page of a triple it keeps the bank.
AnchorReaches(gpu, c) ==
  LET probed == Xor[c.b][Anchor] IN
  /\ Row(gpu, c.a) # Row(gpu, probed)
  /\ page_of(c.a) # page_of(c.b) => SameBank(gpu, c.b, probed)

\* The first page of the pool shows the two levels of the calibration triple.
FirstPageCalibrates ==
  LET first == pa_pages(pages)[1].pa IN
  /\ Conflict(world.gpu, first, first + Anchor)
  /\ ~Conflict(world.gpu, first, first + Baseline)

\* A page that two chunks share is addressed from the start of the page, but
\* the harness counts from the start of the chunk: only pools of whole pages
\* measure what they plan.
PageAligned ==
  world.layout.bytes % PageBytes = 0
    /\ \A k \in DOMAIN world.layout.bases : world.layout.bases[k] % PageBytes = 0

\* The scans hold the triple against its floor (check_calibration); the other
\* analyzers take any positive amplitude, so that a noisy row of the triple
\* passes for an amplitude on a page where there is none.
CalibrationJudged ==
  mode \in {"bit-scan", "pair-scan"} \/ noise.row \notin 1..3 \/ FirstPageCalibrates

\* Whatever one row of a run reads, and however far the late sections drift,
\* everything an analyzer or a relabeling of its constraints decided is true of
\* the memory: classes, banks and rows of the pilot, components, bank maps,
\* falsified predictions, and the anchored votes as far as the anchor reaches
\* (analyze_*.py, gate_re_check).
VerdictsTrue ==
  report.claims # {} /\ PageAligned /\ CalibrationJudged =>
    \A c \in report.claims :
      Meaning(world.gpu, c) \/ (IsAnchored(c) /\ ~AnchorReaches(world.gpu, c))

\* The harness and the analyzer take every list that the orchestrator plans for
\* a pool of whole pages: each row lies in its section with the addresses the
\* section asks for.  Only a calibration that the first page or the noisy row
\* spoils, and a table build without a pair to classify, end without a report.
OwnPlanAccepted ==
  pc = "done" /\ mode # "sanity" /\ PageAligned =>
    \/ report.outcome = "analyzed"
    \/ report.outcome = "degenerate" /\ (noise.row \in 1..3 \/ ~FirstPageCalibrates)
    \/ report.outcome = "division by zero" /\ selection.reps = <<>>
=============================================================================
