----------------------------- MODULE ProbeLedger -----------------------------
(***************************************************************************)
(* What the G2, G3 and G4 scripts conclude from the rows of the page table *)
(* observer (src/tools/g2_observer): the ledger of an allocation, the      *)
(* pages of an aliased range, the samples of a scratch allocation, the     *)
(* VA to PA map and its lookups.  Everything here is a pure operator.      *)
(*                                                                         *)
(* Addresses count half pages, so that allocations may begin and end       *)
(* inside a page.  A row is MAP or FREE [type, time, base, len], HEADER    *)
(* (one query of the page table: offset, written, remaining, complete,     *)
(* map_offset) or ENTRY (index, frame); rows of one query share time, base *)
(* and offset.  UUIDs, address space ids and raw PTE words are left out:   *)
(* one GPU and one address space are observed.                             *)
(***************************************************************************)
EXTENDS Integers, FiniteSets, Sequences

CONSTANTS
  PageSize,      \* mapping_page_size, in address units
  SysFrames      \* frames whose PTE aperture is not VIDEO

OfType(rows, type) == {r \in rows : r.type = type}

\* A PTE yields a framebuffer PA only if its aperture is VIDEO.
decode_pte(entry) == entry.frame \notin SysFrames

\* Matched by containment: RM packs sibling allocations into one range.
Covers(row, a) ==
  row.base <= a.base /\ a.base + a.size <= row.base + row.len

pte_signature(row) == <<row.time, row.base, row.offset>>

EntriesOf(rows, header) ==
  {e \in OfType(rows, "ENTRY") : pte_signature(e) = pte_signature(header)}

PageVa(header, entry) ==
  header.base + header.offset + entry.index * PageSize - header.map_offset

\* A query whose entries are all at hand.
CompleteQuery(rows, header) ==
  /\ header.complete
  /\ Cardinality(EntriesOf(rows, header)) = header.written
  /\ header.remaining = 0

Larger(x, y) == IF x > y THEN x ELSE y
Smaller(x, y) == IF x < y THEN x ELSE y
Earliest(S) == CHOOSE t \in S : \A u \in S : t <= u

\* The part of allocation a that an entry covers; "of" tells queries apart.
Segment(a, header, entry) ==
  [va |-> PageVa(header, entry), frame |-> entry.frame, of |-> header.time,
   from |-> Larger(a.base, PageVa(header, entry)),
   to |-> Smaller(a.base + a.size, PageVa(header, entry) + PageSize)]

\* Segments of a with a non-empty extent, local or not, over complete queries.
Extents(rows, a, headers) ==
  {s \in UNION {{Segment(a, h, e) : e \in EntriesOf(rows, h)} :
                 h \in {g \in headers : CompleteQuery(rows, g)}} :
     s.from < s.to}

\* The clipped segments tile the allocation with no gap and no overlap.
Tiles(a, segments) ==
  \A u \in a.base .. (a.base + a.size - 1) :
     Cardinality({s \in segments : s.from <= u /\ u < s.to}) = 1

\* mapped_at and unmapped_at of the rows that cover a; None is "not seen".
None == -1

MappedAt(maps) == IF maps = {} THEN 0 ELSE Earliest({m.time : m \in maps})

UnmappedAt(frees, mapped_at) ==
  LET later == {t \in {f.time : f \in frees} : t > mapped_at}
  IN  IF later = {} THEN None ELSE Earliest(later)

Failing(conditions) == {name \in DOMAIN conditions : conditions[name]}

build_allocation_ledger(rows, a, allocated_at, teardown_end) ==
  LET near(type)  == {r \in OfType(rows, type) : Covers(r, a)}
      headers     == near("HEADER")
      mapped_at   == MappedAt(near("MAP"))
      unmapped_at == UnmappedAt(near("FREE"), mapped_at)
      extents     == Extents(rows, a, headers)
      segments    == {s \in extents : decode_pte(s)}
      failures    == Failing(
        [maps         |-> Cardinality(near("MAP")) # 1,
         no_header    |-> headers = {},
         pending_free |-> headers # {} /\ unmapped_at = None,
         outlived     |-> headers # {} /\ unmapped_at > teardown_end,
         incomplete   |-> \E h \in headers : ~CompleteQuery(rows, h),
         non_local    |-> segments # extents,
         coverage     |-> headers # {} /\ ~Tiles(a, segments),
         late_map     |-> segments # {} /\ mapped_at >= allocated_at])
  IN  [alloc |-> a, segments |-> segments, failures |-> failures,
       mapped_at |-> mapped_at, unmapped_at |-> unmapped_at]

-----------------------------------------------------------------------------
(* The ledgers of the pool and of the injection run.                       *)

OpenTeardown == 1000

\* Before the release each allocation must show exactly the pending notice.
build_preledger(rows, allocs, allocated_at) ==
  LET ledgers == {build_allocation_ledger(rows, a, allocated_at, OpenTeardown) :
                    a \in allocs}
  IN  [ok |-> \A l \in ledgers : l.failures = {"pending_free"},
       ledgers |-> ledgers]

\* After teardown the strict ledger must be clean.
build_final_ledger(rows, allocs, allocated_at, teardown_end) ==
  LET ledgers == {build_allocation_ledger(rows, a, allocated_at, teardown_end) :
                    a \in allocs}
  IN  [ok |-> \A l \in ledgers : l.failures = {},
       ledgers |-> ledgers]

\* Clipped segments of one page collapse into the page's row.
map_rows_from_segments(ledgers) ==
  UNION {{[alloc |-> l.alloc, va |-> s.va, frame |-> s.frame, active |-> l.alloc.active] :
            s \in l.segments} : l \in ledgers}

\* Every row of either map, with the same stable fields, in the other.
diff_map_rows(gate, final) == (gate \ final) \cup (final \ gate)

-----------------------------------------------------------------------------
(* The pages of one of two aliased ranges, by exact base.                  *)

collect_pages(rows, base) ==
  LET at(type) == {r \in OfType(rows, type) : r.base = base}
      headers  == at("HEADER")
      found    == UNION {{[va |-> PageVa(h, e), frame |-> e.frame] :
                            e \in EntriesOf(rows, h)} :
                          h \in {g \in headers : CompleteQuery(rows, g)}}
      pages    == {p \in found : decode_pte(p)}
  IN  [failures |-> Failing(
         [maps       |-> Cardinality(at("MAP")) # 1,
          no_header  |-> headers = {},
          frees      |-> Cardinality(at("FREE")) # 1,
          incomplete |-> \E h \in headers : ~CompleteQuery(rows, h),
          non_local  |-> pages # found,
          conflict   |-> \E p, q \in pages : p.va = q.va /\ p.frame # q.frame]),
       pages |-> pages,
       mapped_at |-> MappedAt(at("MAP")),
       unmapped_at |-> UnmappedAt(at("FREE"), 0)]

Offsets(pages, base) == {p.va - base : p \in pages}

FrameAt(pages, va) == (CHOOSE p \in pages : p.va = va).frame

\* Same offsets, same frame at each, and two VA pages behind each frame.
DoubleMapped(first, base1, second, base2) ==
  /\ Offsets(first, base1) = Offsets(second, base2)
  /\ \A o \in Offsets(first, base1) :
        FrameAt(first, base1 + o) = FrameAt(second, base2 + o)
  /\ \A f \in {p.frame : p \in first \cup second} :
        Cardinality({p \in first : p.frame = f}) + Cardinality({p \in second : p.frame = f}) = 2

-----------------------------------------------------------------------------
(* The samples of the scratch allocation, from the rows of its phases.     *)

Between(rows, type, from, to) ==
  {r \in OfType(rows, type) : from <= r.time /\ r.time <= to}

\* divmod(map_offset + offset - query_offset, page_size) of a requested VA.
SampleOf(header, captured, offset) ==
  LET relative == header.map_offset + offset - header.offset
  IN  {[va |-> header.base + offset - (offset % PageSize), frame |-> e.frame] :
         e \in {c \in captured : /\ relative >= 0
                                 /\ relative < header.size
                                 /\ c.index = relative \div PageSize}}

ScratchLedger(rows, a, times) ==
  LET maps     == Between(rows, "MAP", times.begin, times.allocated)
      headers  == Between(rows, "HEADER", times.begin, times.allocated)
      captured == Between(rows, "ENTRY", times.begin, times.allocated)
      frees    == Between(rows, "FREE", times.free_begin, times.free_end)
      single   == Cardinality(maps) = 1 /\ Cardinality(headers) = 1
                    /\ Cardinality(frees) = 1
      header   == CHOOSE h \in headers : TRUE
      samples  == UNION {SampleOf(header, captured, o) : o \in 0 .. (a.size - 1)}
      exact(r) == r.base = a.base /\ r.len = a.size
  IN  [ok |-> /\ single
              /\ \A r \in maps \cup frees : exact(r)
              /\ header.base = a.base /\ header.complete /\ header.remaining = 0
              /\ \A i \in 0 .. (header.written - 1) : \E e \in captured : e.index = i
              /\ \A e, f \in captured : e.index = f.index => e.frame = f.frame
              /\ \A o \in 0 .. (a.size - 1) : SampleOf(header, captured, o) # {},
       local |-> \A e \in captured : decode_pte(e),
       samples |-> IF single THEN samples ELSE {}]

-----------------------------------------------------------------------------
(* Lookups in a published map (va_pa_lookup.py).                           *)

conflicts(map) == {r.va : r \in {q \in map : \E p \in map : p.va = q.va /\ p.frame # q.frame}}

forward(map, va) ==
  {[frame |-> r.frame, in_page_offset |-> va - r.va] :
     r \in {q \in map : /\ decode_pte(q) /\ q.active
                        /\ q.va <= va /\ va < q.va + PageSize}}

reverse(map, frame) == {r.va : r \in {q \in map : q.frame = frame}}
=============================================================================
