------------------------------ MODULE L2Units ------------------------------
(***************************************************************************)
(* How the L2 probe cuts the probed allocations into units, sectors or     *)
(* lines of the cache (src/src/injector/l2_probe.cu): units are aligned,   *)
(* numbered through all ranges, and the ones at a range's edges belong to  *)
(* it only in part. The cache sampler computes the same windows again      *)
(* (src/tools/g8_cache/cache_model.py, draw_byte).                         *)
(*                                                                         *)
(* A layout is the sequence of probed ranges in the order of their         *)
(* addresses, as run_l2_probe_pass sorts them.                             *)
(***************************************************************************)
EXTENDS Integers, Sequences, FiniteSetsExt

CONSTANT UnitBytes      \* 32 or 128

ASSUME UnitAssumption == UnitBytes \in Nat \ {0}

\* L2ProbeRange; cls is the lifetime class the workload gives the allocation.
ProbeRange == [base : Nat, bytes : Nat \ {0}, cls : STRING]

Align(address) == (address \div UnitBytes) * UnitBytes

End(range) == range.base + range.bytes

units_overlapping(range) ==
  (End(range) - Align(range.base) + UnitBytes - 1) \div UnitBytes

first_unit(layout, i) ==
  MapThenSumSet(LAMBDA j : units_overlapping(layout[j]), 1 .. (i - 1))

total_units(layout) == first_unit(layout, Len(layout) + 1)

UnitIds(layout) == 0 .. (total_units(layout) - 1)

\* The ranges the constructor of L2Prober refuses.
SharesUnit(layout) ==
  \E i \in 2 .. Len(layout) : Align(layout[i].base) < End(layout[i - 1])

\* range_of: the range a unit belongs to.
range_of(layout, unit) ==
  CHOOSE i \in 1 .. Len(layout) :
    first_unit(layout, i) <= unit /\ unit < first_unit(layout, i + 1)

\* The addresses of the aligned block of memory a unit stands for.
Block(layout, unit) ==
  LET i == range_of(layout, unit)
      aligned == Align(layout[i].base)
      k == unit - first_unit(layout, i)
  IN (aligned + k * UnitBytes) .. (aligned + (k + 1) * UnitBytes - 1)

\* The part of it inside the range: unit_resident_bytes and draw_byte.
Window(layout, unit) ==
  LET range == layout[range_of(layout, unit)]
  IN {address \in Block(layout, unit) : range.base <= address /\ address < End(range)}
=============================================================================
