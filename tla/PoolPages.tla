------------------------------ MODULE PoolPages ------------------------------
(***************************************************************************)
(* The probe pool of tools/g3_probe/g3_pool.py: chunks that the harness    *)
(* allocates, the pages that the observer saw behind them, and the address *)
(* arithmetic of PoolMap between an offset in a chunk and a framebuffer    *)
(* address.  A layout is [bytes, bases, table]: the size of every chunk,   *)
(* the virtual address cudaMalloc returned for each, and the page table.   *)
(***************************************************************************)
EXTENDS DramTiming

PageRecord(chunk, va, pa) == [chunk |-> chunk, va |-> va, pa |-> pa]

\* segments_to_pages: one row per chunk and page, the page's full extent.
segments_to_pages(layout) ==
  UNION {{PageRecord(k, page_of(x), layout.table[page_of(x)]) :
            x \in layout.bases[k] .. layout.bases[k] + layout.bytes - 1} :
         k \in DOMAIN layout.bases}

chunk_pages(pages, chunk) == {p \in pages : p.chunk = chunk}

\* The pages of a chunk tile its virtual range, or PoolMap raises.
Tiles(pages, chunk) ==
  \A p, q \in chunk_pages(pages, chunk) :
    p.va < q.va => \E r \in chunk_pages(pages, chunk) : r.va = p.va + PageBytes

chunk_base_va(pages, chunk) ==
  CHOOSE va \in {p.va : p \in chunk_pages(pages, chunk)} :
    \A q \in chunk_pages(pages, chunk) : va <= q.va

\* One page per framebuffer page, in address order: of a page that two chunks
\* share, the row of the later chunk is the one that stays.
pa_pages(pages) ==
  SetToSortSeq({p \in pages : \A q \in pages : q.pa = p.pa => q.chunk <= p.chunk},
               LAMBDA p, q : p.pa < q.pa)

OffsetOf(pages, page) == page.va - chunk_base_va(pages, page.chunk)

\* Where a query means to go: the address of the page map.
pa_of(pages, side) ==
  LET va == chunk_base_va(pages, side.chunk) + side.ofs
      page == CHOOSE p \in chunk_pages(pages, side.chunk) : p.va = page_of(va)
  IN page.pa + (va - page.va)

Covered(pages, side) ==
  \E p \in chunk_pages(pages, side.chunk) :
    p.va = page_of(chunk_base_va(pages, side.chunk) + side.ofs)

query_pa(pages, q) == <<pa_of(pages, q.a), pa_of(pages, q.b)>>

\* Where the harness goes: the chunk's pointer plus the offset, through the
\* page table.
TouchedPa(layout, side) ==
  LET va == layout.bases[side.chunk] + side.ofs IN
  layout.table[page_of(va)] + in_page(va)

\* parse_work_file of the harness.
InRange(layout, side) ==
  side.chunk \in DOMAIN layout.bases /\ side.ofs >= 0 /\ side.ofs + 1 <= layout.bytes

-----------------------------------------------------------------------------
Half(pages, page, low) == [chunk |-> page.chunk, ofs |-> OffsetOf(pages, page) + low]

\* A query of a plan and its role there; unused indexes are 0.
TypedQuery(section, role, bit, bit2, index, a, b) ==
  [section |-> section, role |-> role, bit |-> bit, bit2 |-> bit2, index |-> index,
   a |-> a, b |-> b]

\* Concatenation of Op(1) to Op(n).
Sections(n, Op(_)) == FlattenSeq([i \in 1..n |-> Op(i)])
OverSeq(seq, Op(_, _)) == FlattenSeq([i \in DOMAIN seq |-> Op(i, seq[i])])

Sorted(S) == SetToSortSeq(S, LAMBDA x, y : x < y)

\* Every stride-th element from the first.
Strided(seq, stride) ==
  [i \in 1 .. (Len(seq) + stride - 1) \div stride |-> seq[(i - 1) * stride + 1]]
Prefix(seq, n) == SubSeq(seq, 1, IF n < Len(seq) THEN n ELSE Len(seq))

\* The pool page behind a framebuffer page, if the pool has it.
Backing(pages, base) == {p \in ToSet(pa_pages(pages)) : p.pa = base}
=============================================================================
