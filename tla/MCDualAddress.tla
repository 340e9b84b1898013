---------------------------- MODULE MCDualAddress ----------------------------
(* A small instance of DualAddress: three pages of eight bytes over four     *)
(* framebuffer pages, of which the last is outside the bank table.           *)
EXTENDS DualAddress, TLC

Pages == {8, 16, 24}
MCUniverse == {0, 8, 16}
MCLinked == {8, 16}

Alloc(id, label, base, size, shape, dtype, written, active) ==
  [id |-> id, device |-> 0, base |-> base, size |-> size, active |-> active,
   label |-> label, shape |-> shape, dtype |-> dtype, written |-> written]

Binding(name, base, shape, written) ==
  Alloc(name, name, base, 4 * Product(shape), shape, "float32", written, TRUE)
Internal(id, base, size, written) ==
  Alloc(id, "TENSORRT_INTERNAL_UNKNOWN", base, size, <<>>, "int8", written, TRUE)

\* Siblings in one page and an allocation over two pages; a freed range below an
\* active one; no internal allocation.
Shared == <<Binding("TENSOR:data", 8, <<1>>, FALSE), Internal("trt-1", 12, 8, TRUE),
            Binding("TENSOR:prob", 20, <<1>>, TRUE), Internal("trt-2", 24, 6, FALSE)>>
Freed == <<[Internal("trt-0", 8, 8, FALSE) EXCEPT !.active = FALSE],
           Binding("TENSOR:data", 8, <<1, 2>>, FALSE), Internal("trt-1", 18, 4, FALSE)>>
NoInternal == <<Binding("TENSOR:data", 12, <<2>>, FALSE), Binding("TENSOR:prob", 24, <<1>>, TRUE)>>

Late == Internal("trt-late", 30, 2, FALSE)

Names(allocs) == {allocs[i].id : i \in {j \in DOMAIN allocs : allocs[j].active}}

\* Any page table, seen entirely; or one regular table of which any page is seen
\* badly or not at all, or whose map also lists a freed allocation.
Regular == (8 :> 16) @@ (16 :> 8) @@ (24 :> 0)
AllLocal == [p \in Pages |-> "local"]

MCRuns ==
  {[allocs |-> allocs, late |-> Late, listed |-> Names(allocs), table |-> table, seen |-> AllLocal] :
     allocs \in {Shared, Freed, NoInternal}, table \in [Pages -> {0, 8, 16, 24}]}
  \cup
  {[allocs |-> allocs, late |-> Late, listed |-> Names(allocs), table |-> Regular, seen |-> seen] :
     allocs \in {Shared, Freed}, seen \in [Pages -> {"local", "host", "none"}]}
  \cup
  {[allocs |-> Freed, late |-> Late, listed |-> {Freed[i].id : i \in DOMAIN Freed},
    table |-> Regular, seen |-> AllLocal]}

Target(id, offset, bit, va) ==
  [target_id |-> <<id, offset, bit>>, id |-> id, offset |-> offset, bit |-> bit, va |-> va,
   frame |-> 0, in_page |-> 0]

\* Several bits of one byte, a bit twice, two bytes of one allocation, a stale
\* address after a good one, and files that read_injection_work refuses.
MCHandWorks ==
  {<<Target("TENSOR:data", 1, 0, 9), Target("TENSOR:data", 1, 1, 9)>>,
   <<Target("TENSOR:data", 1, 0, 9), Target("TENSOR:data", 1, 0, 9)>>,
   <<Target("TENSOR:data", 0, 0, 8), Target("trt-1", 3, 1, 15)>>,
   <<Target("trt-1", 1, 1, 13), Target("trt-1", 2, 0, 14)>>,
   <<Target("TENSOR:data", 0, 0, 8), Target("trt-1", 0, 1, 8)>>,
   <<Target("trt-0", 0, 0, 8)>>,
   <<Target("TENSOR:data", 0, 8, 8)>>, <<>>}

MCEngineValues == {{}, {0}, {1}}
=============================================================================
