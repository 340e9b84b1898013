----------------------------- MODULE ProbeRelabel -----------------------------
(***************************************************************************)
(* The constraints of a scan, read a second time.  Both scans classify by  *)
(* global gates and throw away what a slow page pushes into the middle     *)
(* band; two later tools of tools/g3_probe label the published rows again, *)
(* with the latency of their pages: analyze_three_band.py takes it from a  *)
(* census, analyze_local_recal.py from the low rows of the scan itself.    *)
(*                                                                         *)
(* The mirror check of analyze_local_recal compares the published classes  *)
(* with the rule that made them, and the scan has held its calibration     *)
(* triple: neither refusal is reached from here.                           *)
(***************************************************************************)
EXTENDS ProbeAnalysis

\* A scan whose constraints are on disk: the bit scan writes the rows it could
\* read and fails only then.
ScanPublished ==
  /\ pc = "done"
  /\ \/ mode \in {"bit-scan", "pair-scan"} /\ report.outcome = "analyzed"
     \/ mode = "bit-scan" /\ report.outcome = "integrity"

\* The rows of constraints.csv, and of pair_constraints.csv.
Published ==
  IF mode = "bit-scan" THEN {i \in 4 .. Len(result) : OneBit(PasOf(result[i]))}
  ELSE 1 .. Len(result)

\* Asymmetric rows and the calibration keep their label.
Usable == {i \in Published : GlobalClass(result[i]) # "asymmetric"}
Relabeled == {i \in Usable : i > 3}

PagesOf(i) == {page_of(pa) : pa \in ToSet(PasOf(result[i]))}
SlowerPage(lambdas, i) == Max({lambdas[page] : page \in PagesOf(i)})

Publish(outcome, claims) ==
  /\ report' = [outcome |-> outcome, claims |-> claims]
  /\ pc' = "relabeled"
  /\ UNCHANGED <<world, mode, pages, selection, plan, result, noise>>

-----------------------------------------------------------------------------
(* analyze_three_band.                                                     *)

\* page_lambdas.csv of a census: its pool may lack a page of this one, and it
\* may have a noisy row if the scan had none.
CensusLambdas ==
  LET own == {p.pa : p \in pages}
      Quiet(covered) == [pa \in covered |-> Lambda(world.gpu, pa)]
  IN {Quiet(own)} \cup {Quiet(own \ {page}) : page \in own}
       \cup {[Quiet(own) EXCEPT ![page] = @ + shift] :
               page \in own,
               shift \in IF noise.row = 0 THEN Disturbances \cup {-d : d \in Disturbances} ELSE {}}

\* A page of a constraint without a census lambda is refused, never defaulted.
ThreeBand ==
  /\ ScanPublished
  /\ \E lambdas \in CensusLambdas :
       IF UNION {PagesOf(i) : i \in Usable} \subseteq DOMAIN lambdas
       THEN Publish("relabeled",
              UNION {Decided(classify3(result[i].cycles_a, SlowerPage(lambdas, i),
                                       baseline, amplitude), PasOf(result[i])) :
                       i \in Relabeled})
       ELSE Publish("page_missing", {})

-----------------------------------------------------------------------------
(* analyze_local_recal.                                                    *)

\* The low edge is local, the conflict gate global.
classify_local(value, local_base) ==
  CASE Reaches(value, baseline, HIGH_FRACTION, amplitude) -> "conflict"
    [] ~Reaches(value, local_base, LOW_FRACTION, amplitude) -> "low"
    [] OTHER -> "mid"

\* The low rows, the calibration's among them, and the least of a page.
LowRows == {i \in Usable : GlobalClass(result[i]) = "low"}
page_lambdas ==
  [page \in UNION {PagesOf(i) : i \in LowRows} |->
     Min({result[i].cycles_a : i \in {j \in LowRows : page \in PagesOf(j)}})]

GlobalMedian(candidates) ==
  LET ordered == SortSeq(SetToSeq(DOMAIN candidates),
                         LAMBDA p, q : candidates[p] < candidates[q])
  IN candidates[ordered[Len(ordered) \div 2 + 1]]

\* A page without a candidate takes the one of the first page of its chunk that
\* has one, or else the median.
resolve_lambdas(candidates) ==
  LET rows == ToSet(pa_pages(pages))
      ChunkOf(page) == (CHOOSE p \in rows : p.pa = page).chunk
      Siblings(page) == {p \in DOMAIN candidates : ChunkOf(p) = ChunkOf(page)}
  IN [page \in {p.pa : p \in rows} |->
        IF page \in DOMAIN candidates THEN candidates[page]
        ELSE IF Siblings(page) # {} THEN candidates[Min(Siblings(page))]
        ELSE GlobalMedian(candidates)]

LocalRecal ==
  /\ ScanPublished
  /\ IF LowRows = {} THEN Publish("no low pairs", {})
     ELSE LET lambdas == resolve_lambdas(page_lambdas) IN
          Publish("relabeled",
            UNION {Decided(classify_local(result[i].cycles_a, SlowerPage(lambdas, i)),
                           PasOf(result[i])) : i \in Relabeled})

RelabelNext == Next \/ ThreeBand \/ LocalRecal

RelabelSpec == Init /\ [][RelabelNext]_vars
=============================================================================
