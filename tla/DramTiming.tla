------------------------------ MODULE DramTiming ------------------------------
(***************************************************************************)
(* What the G3 probes measure and how one measurement is read.  The timing *)
(* of a pair of accesses is slow when both hit one bank in different rows; *)
(* bank and row are hidden functions of the framebuffer address.  They are *)
(* external, and only their shape is fixed, as the measurements of         *)
(* tools/g3_probe/*.py established it: inside a page the bank is the       *)
(* parity of some address bits, pages differ in which bits and in a seed,  *)
(* and the row is a set of address bits.                                   *)
(* An address is a number whose bits above PageBits name the page; its     *)
(* unit is the smallest stride that the probes tell apart.                 *)
(***************************************************************************)
EXTENDS Integers, Sequences, FiniteSets, SequencesExt, FiniteSetsExt

CONSTANTS
  PageBits,      \* in-page bits of an address, 21 in the code
  PaBits         \* bound: bits of a framebuffer address

ASSUME TimingAssumption ==
  /\ PageBits \in Nat \ {0}
  /\ PaBits \in Nat /\ PageBits < PaBits

PageBytes == 2 ^ PageBits
Addresses == 0 .. 2 ^ PaBits - 1

page_of(pa) == pa - (pa % PageBytes)
in_page(pa) == pa % PageBytes

\* The one bits of an address, and addresses combined bit by bit.
BitsOf == [x \in Addresses |-> {i \in 0 .. PaBits - 1 : (x \div 2 ^ i) % 2 = 1}]
FromBits(bits) == MapThenSumSet(LAMBDA i : 2 ^ i, bits)
Xor == [x \in Addresses |-> [y \in Addresses |-> FromBits(SymDiff(BitsOf[x], BitsOf[y]))]]

Larger(x, y) == IF x > y THEN x ELSE y

-----------------------------------------------------------------------------
(* The memory: gpu.seed and gpu.hash give each page its bank function,     *)
(* gpu.rows are the row bits, gpu.slow the pages with a longer latency.    *)

Bank(gpu, pa) ==
  (gpu.seed[page_of(pa)] + Cardinality(BitsOf[in_page(pa)] \cap gpu.hash[page_of(pa)])) % 2

\* Different pages are never the same row of a bank.
Row(gpu, pa) == <<page_of(pa), BitsOf[in_page(pa)] \cap gpu.rows>>

SameBank(gpu, x, y) == Bank(gpu, x) = Bank(gpu, y)
Conflict(gpu, x, y) == SameBank(gpu, x, y) /\ Row(gpu, x) # Row(gpu, y)

Penalty == 20
Lambda(gpu, pa) == IF page_of(pa) \in gpu.slow THEN 104 ELSE 100

\* Measurements after the self block of a run are shifted by the drift.
TrueCycles(gpu, x, y, drift) ==
  Larger(Lambda(gpu, x), Lambda(gpu, y))
    + (IF Conflict(gpu, x, y) THEN Penalty ELSE 0) + drift

-----------------------------------------------------------------------------
(* The bands, as percentages of the calibration amplitude.                 *)

LOW_FRACTION == 35
HIGH_FRACTION == 70
CENSUS_DEEP_FRACTION == 90
TABLE_DEEP_FRACTION == 60
SYMMETRY_FRACTION == 25

Reaches(value, base, fraction, amplitude) == 100 * (value - base) >= fraction * amplitude

\* The bit and pair scans: global gates over the baseline query.
classify(cycles, baseline, amplitude) ==
  CASE Reaches(cycles, baseline, HIGH_FRACTION, amplitude) -> "conflict"
    [] ~Reaches(cycles, baseline, LOW_FRACTION, amplitude) -> "low"
    [] OTHER -> "mid"

\* The census: a low edge over the slower page, global gates above it.
classify3(value, lambda_max, baseline, amplitude) ==
  CASE Reaches(value, baseline, CENSUS_DEEP_FRACTION, amplitude) -> "deep_conflict"
    [] Reaches(value, baseline, HIGH_FRACTION, amplitude) -> "shoulder"
    [] ~Reaches(value, lambda_max, LOW_FRACTION, amplitude) -> "low"
    [] OTHER -> "mid"

\* The table build and the prediction check: both gates over the slower page.
label_of(value, lambda_max, amplitude) ==
  CASE Reaches(value, lambda_max, TABLE_DEEP_FRACTION, amplitude) -> "deep_conflict"
    [] ~Reaches(value, lambda_max, LOW_FRACTION, amplitude) -> "low"
    [] OTHER -> "mid"

Asymmetric(cycles_a, cycles_b, amplitude) ==
  \/ 100 * (cycles_a - cycles_b) > SYMMETRY_FRACTION * amplitude
  \/ 100 * (cycles_b - cycles_a) > SYMMETRY_FRACTION * amplitude

\* check_calibration; the later analyzers only demand a positive amplitude.
CalibrationHolds(floor, baseline, amplitude) ==
  /\ amplitude > 0
  /\ floor >= baseline - Larger(8, amplitude \div 2)
  /\ ~Reaches(floor, baseline, LOW_FRACTION, amplitude)

\* The middle of the differences between the repeated and the first self pairs.
late_offset(deltas) ==
  IF deltas = <<>> THEN 0
  ELSE -SortSeq(deltas, LAMBDA x, y : x < y)[(Len(deltas) \div 2) + 1]

-----------------------------------------------------------------------------
\* UnionFind: the partition of the items that the edges generate.
Classes(items, edges) ==
  LET Merge(e, partition) ==
        LET left == CHOOSE c \in partition : e[1] \in c
            right == CHOOSE c \in partition : e[2] \in c
        IN (partition \ {left, right}) \cup {left \cup right}
  IN FoldSet(Merge, {{i} : i \in items}, edges)

ClassOf(classes, item) == CHOOSE c \in classes : item \in c
=============================================================================
