-------------------------- MODULE DualAddressProofs --------------------------
(***************************************************************************)
(* What the chain of addresses and the gated injection guarantee, for any  *)
(* run: any registry, page table, bank table, work file and engine.        *)
(*                                                                         *)
(* Three facts carry the proofs.  The join leaves no frame to two pages,   *)
(* and a row to each page of an allocation, so that the snapshot can be    *)
(* read in both directions and the middle of any row is a byte of its      *)
(* allocation.  After k flips a byte of memory holds the bits that an odd  *)
(* number of the first k targets name (FlipsAt), and the record of target  *)
(* k holds what was there after k - 1.  Since targets are taken back from  *)
(* the last to the first, memory is again what the next record saved: the  *)
(* allocations of the targets after k hold k flips, also where the engine  *)
(* wrote, or the restore would have thrown.                                *)
(***************************************************************************)
EXTENDS DualAddress, WellFoundedInduction, FiniteSetTheorems, TLAPS

\* The page of an address, and the offset in it.
LEMMA PageSplit ==
  ASSUME NEW va \in Nat
  PROVE  /\ PageOf(va) \in Nat /\ PageOf(va) <= va /\ va < PageOf(va) + PageBytes
         /\ va % PageBytes = va - PageOf(va) /\ va % PageBytes \in 0 .. PageBytes - 1
BY DualAssumption DEF PageOf

\* An offset added to an aligned page is found again.
LEMMA OnPage ==
  ASSUME NEW p \in Nat, p % PageBytes = 0, NEW i \in 0 .. PageBytes - 1
  PROVE  (p + i) % PageBytes = i /\ PageOf(p + i) = p
<1>1. (p + i) % PageBytes = i
  <2>1. PICK q \in Nat : p = PageBytes * q
    BY DualAssumption
  <2> QED BY <2>1, DualAssumption
<1> QED BY <1>1, DualAssumption DEF PageOf

\* A page starts at a multiple of its size.
LEMMA PageIsAligned ==
  ASSUME NEW va \in Nat
  PROVE  PageOf(va) % PageBytes = 0
BY DualAssumption DEF PageOf
-----------------------------------------------------------------------------
(* The registry of a process.                                              *)

\* What IsRegistry says of the entries.
LEMMA Entries ==
  ASSUME NEW reg, IsRegistry(reg)
  PROVE  /\ Len(reg) \in Nat /\ DOMAIN reg = 1 .. Len(reg)
         /\ ToSet(reg) = {reg[i] : i \in DOMAIN reg}
         /\ \A a \in ToSet(reg) :
              /\ a.base \in Nat /\ a.base >= 1 /\ a.size \in Nat /\ a.size >= 1
              /\ inclusive_end(a) = a.base + a.size - 1 /\ inclusive_end(a) \in Nat
              /\ Bytes(a) = a.base .. a.base + a.size - 1
         /\ \A a, b \in ToSet(reg) : a.id = b.id => a = b
         /\ \A i, j \in DOMAIN reg : reg[i].id = reg[j].id => i = j
<1>1. Len(reg) \in Nat /\ DOMAIN reg = 1 .. Len(reg)
  BY DEF IsRegistry
<1>2. ToSet(reg) = {reg[i] : i \in DOMAIN reg}
  BY DEF ToSet
<1>3. \A i \in DOMAIN reg : reg[i].base \in 1 .. MaxVa /\ reg[i].size \in Nat \ {0}
  BY DEF IsRegistry
<1>4. \A a \in ToSet(reg) : a.base \in 1 .. MaxVa /\ a.size \in Nat \ {0}
  BY <1>2, <1>3
<1>5. \A i, j \in DOMAIN reg : reg[i].id = reg[j].id => i = j
  BY DEF IsRegistry, UniqueIds
<1> QED BY <1>1, <1>2, <1>4, <1>5, MaxVaAssumption DEF inclusive_end, Bytes

\* The forward lookup finds each byte of an active allocation.
LEMMA Forward ==
  ASSUME NEW reg, IsRegistry(reg), NEW a \in load_allocations(reg),
         NEW offset \in Nat, offset < a.size
  PROVE  allocation_bit_to_gpu_va(reg, a.id, offset) = {a.base + offset}
<1>1. PICK i \in DOMAIN reg : a = reg[i]
  BY Entries DEF load_allocations
<1>2. HasId(reg, a.id) /\ FirstWithId(reg, a.id) = i
  <2>1. \A j \in DOMAIN reg : reg[j].id = a.id => j = i
    BY <1>1, Entries
  <2>2. i \in Nat
    BY <1>1, Entries
  <2> QED BY <1>1, <2>1, <2>2 DEF HasId, FirstWithId
<1>3. reg[i].active
  BY <1>1 DEF load_allocations
<1> QED BY <1>1, <1>2, <1>3 DEF allocation_bit_to_gpu_va

\* What the forward lookup answers is a byte of the allocation of that id.
LEMMA ForwardAnswers ==
  ASSUME NEW reg, IsRegistry(reg), NEW id, NEW offset \in Nat,
         NEW va \in allocation_bit_to_gpu_va(reg, id, offset)
  PROVE  \E a \in load_allocations(reg) :
           a.id = id /\ offset < a.size /\ va = a.base + offset
<1>1. PICK j \in DOMAIN reg :
        /\ HasId(reg, id) /\ j = FirstWithId(reg, id)
        /\ reg[j].active /\ offset < reg[j].size /\ va = reg[j].base + offset
  BY DEF allocation_bit_to_gpu_va
<1>2. reg[j].id = id
  <2>1. PICK i \in DOMAIN reg : reg[i].id = id
    BY <1>1 DEF HasId
  <2>2. \A k \in DOMAIN reg : reg[k].id = id => k = i
    BY <2>1, Entries
  <2>3. i \in Nat
    BY <2>1, Entries
  <2>4. FirstWithId(reg, id) = i
    BY <2>1, <2>2, <2>3 DEF FirstWithId
  <2> QED BY <1>1, <2>1, <2>4
<1> QED BY <1>1, <1>2, Entries DEF load_allocations

\* The reverse lookup comes back to the byte.
LEMMA BackAgain ==
  ASSUME NEW reg, IsRegistry(reg), NEW a \in load_allocations(reg),
         NEW offset \in Nat, offset < a.size
  PROVE  gpu_va_to_allocation_bit(reg, a.device, a.base + offset) =
           {[id |-> a.id, offset |-> offset]}
<1>1. PICK i \in DOMAIN reg : a = reg[i]
  BY Entries DEF load_allocations
<1>2. \A j \in DOMAIN reg :
        /\ reg[j] \in ToSet(reg) /\ j \in Nat
        /\ reg[j].base \in Nat /\ reg[j].size \in Nat /\ reg[j].size >= 1
        /\ inclusive_end(reg[j]) = reg[j].base + reg[j].size - 1
  BY Entries
<1>3. Covers(reg[i], a.device, a.base + offset)
  BY <1>1, <1>2 DEF Covers, load_allocations
<1>4. \A j \in DOMAIN reg : Covers(reg[j], a.device, a.base + offset) => j = i
  <2> SUFFICES ASSUME NEW j \in DOMAIN reg, j # i, Covers(reg[j], a.device, a.base + offset)
               PROVE  FALSE
    OBVIOUS
  <2>1. ~Overlaps(reg[i], reg[j])
    BY <1>1, <1>3 DEF IsRegistry, ActiveDisjoint, Covers
  <2>2. reg[j].base <= a.base + offset /\ a.base + offset < reg[j].base + reg[j].size
    BY <1>1, <1>2 DEF Covers
  <2>3. reg[i].base <= inclusive_end(reg[j]) /\ reg[j].base <= inclusive_end(reg[i])
    BY <1>1, <1>2, <2>2
  <2> QED BY <2>1, <2>3 DEF Overlaps
<1>5. {j \in DOMAIN reg : /\ Covers(reg[j], a.device, a.base + offset)
                          /\ \A k \in DOMAIN reg :
                               Covers(reg[k], a.device, a.base + offset) => j <= k} = {i}
  BY <1>1, <1>2, <1>3, <1>4
<1>6. (a.base + offset) - reg[i].base = offset
  BY <1>1, <1>2
<1>7. gpu_va_to_allocation_bit(reg, a.device, a.base + offset) =
        {[id |-> reg[i].id, offset |-> (a.base + offset) - reg[i].base]}
  BY <1>5 DEF gpu_va_to_allocation_bit
<1> QED BY <1>1, <1>6, <1>7

\* The page table of a run.
Place(r, va) == r.table[PageOf(va)] + (va % PageBytes)
Places(r) == {r.table[p] + i : p \in DOMAIN r.table, i \in 0 .. PageBytes - 1}

\* Physical and PhysicalBytes, with the run as an argument.
LEMMA WhereItIs ==
  /\ \A va : Physical(va) = Place(run, va)
  /\ PhysicalBytes = Places(run)
BY DEF Physical, Place, PhysicalBytes, Places

\* A byte of an active allocation of a run has a place.
LEMMA Mapped ==
  ASSUME NEW r \in Runs, NEW a \in load_allocations(r.allocs), NEW va \in Bytes(a)
  PROVE  /\ a \in ToSet(r.allocs) /\ va \in Nat
         /\ PageOf(va) \in PagesOf(a) /\ PageOf(va) \in DOMAIN r.table
         /\ r.table[PageOf(va)] \in Nat /\ r.table[PageOf(va)] % PageBytes = 0
         /\ Place(r, va) \in Places(r)
<1>1. IsRegistry(r.allocs)
  BY RunAssumption
<1>2. a \in ToSet(r.allocs)
  BY DEF load_allocations
<1>3. va \in Nat
  BY <1>1, <1>2, Entries
<1>4. PageOf(va) \in PagesOf(a)
  BY DEF PagesOf, Bytes
<1>5. PageOf(va) \in DOMAIN r.table
  BY <1>4, RunAssumption
<1>6. r.table[PageOf(va)] \in Nat /\ r.table[PageOf(va)] % PageBytes = 0
  BY <1>5, RunAssumption
<1>7. va % PageBytes \in 0 .. PageBytes - 1
  BY <1>3, PageSplit
<1> QED BY <1>2, <1>3, <1>4, <1>5, <1>6, <1>7 DEF Place, Places

-----------------------------------------------------------------------------
(* Flips.                                                                  *)

\* The targets among the first k of work file w that name bit b of a physical byte,
\* and what the flips of the first k make of a byte.
Hits(r, w, k, x, b) == {i \in 1 .. k : Place(r, w[i].va) = x /\ w[i].bit = b}
FlipsAt(r, w, k, x) == {b \in 0..7 : Cardinality(Hits(r, w, k, x, b)) % 2 = 1}

\* No flip makes nothing of a byte.
LEMMA NoFlips == \A r, w, x : FlipsAt(r, w, 0, x) = {}
<1> TAKE r, w, x
<1>1. \A b : Hits(r, w, 0, x, b) = {}
  BY DEF Hits
<1>2. Cardinality({}) = 0
  BY FS_EmptySet
<1> QED BY <1>1, <1>2 DEF FlipsAt

\* One more target changes its own byte, by its own bit.
LEMMA OneMoreFlip ==
  ASSUME NEW r, NEW w, NEW k \in Nat, NEW x, w[k + 1].bit \in 0..7
  PROVE  FlipsAt(r, w, k + 1, x) =
           IF Place(r, w[k + 1].va) = x THEN Xor(FlipsAt(r, w, k, x), {w[k + 1].bit})
                                        ELSE FlipsAt(r, w, k, x)
<1> DEFINE H(n, b) == Hits(r, w, n, x, b)
<1>1. \A b : IsFiniteSet(H(k, b)) /\ Cardinality(H(k, b)) \in Nat /\ k + 1 \notin H(k, b)
  <2> TAKE b
  <2>1. IsFiniteSet(1 .. k) /\ H(k, b) \subseteq 1 .. k
    BY SMTT(40), FS_Interval DEF Hits
  <2>2. IsFiniteSet(H(k, b))
    BY <2>1, FS_Subset
  <2> QED BY <2>1, <2>2, FS_CardinalityType
<1>2. \A b : H(k + 1, b) = IF Place(r, w[k + 1].va) = x /\ w[k + 1].bit = b
                             THEN H(k, b) \cup {k + 1} ELSE H(k, b)
  BY DEF Hits
<1> HIDE DEF H
<1>3. \A b : Cardinality(H(k + 1, b)) =
              IF Place(r, w[k + 1].va) = x /\ w[k + 1].bit = b
                THEN Cardinality(H(k, b)) + 1 ELSE Cardinality(H(k, b))
  <2> TAKE b
  <2>1. Cardinality(H(k, b) \cup {k + 1}) = Cardinality(H(k, b)) + 1
    BY <1>1, FS_AddElement
  <2> QED BY <1>2, <2>1
<1>4. \A n \in Nat : (n + 1) % 2 = 1 <=> ~(n % 2 = 1)
  OBVIOUS
<1>5. \A b \in 0..7 : b \in FlipsAt(r, w, k + 1, x) <=>
        IF Place(r, w[k + 1].va) = x /\ w[k + 1].bit = b
          THEN b \notin FlipsAt(r, w, k, x) ELSE b \in FlipsAt(r, w, k, x)
  BY <1>1, <1>3, <1>4 DEF FlipsAt, H
<1>6. FlipsAt(r, w, k, x) \subseteq 0..7 /\ FlipsAt(r, w, k + 1, x) \subseteq 0..7
  BY DEF FlipsAt
<1> HIDE DEF FlipsAt
<1> QED BY <1>5, <1>6 DEF Xor

\* Flipping a bit twice.
LEMMA XorTwice == \A s, b : Xor(Xor(s, {b}), {b}) = s
BY DEF Xor
-----------------------------------------------------------------------------
(* Targets and snapshot.                                                   *)

\* Target t names a byte of allocation a, and a bit of it.
Owns(r, a, t) ==
  /\ a \in load_allocations(r.allocs) /\ a.id = t.id
  /\ t.offset < a.size /\ t.va = a.base + t.offset
Aims(r, t) == t.offset \in Nat /\ t.bit \in 0..7 /\ \E a : Owns(r, a, t)

\* The registry of a run, also when the engine has allocated.
Grown(r, reg) ==
  \/ reg = r.allocs
  \/ Accepts(r.allocs, r.late) /\ reg = Append(r.allocs, r.late)

\* An allocation of the engine leaves the others, and their ids, as they were.
LEMMA GrownKeeps ==
  ASSUME NEW r \in Runs, NEW reg, Grown(r, reg)
  PROVE  /\ load_allocations(r.allocs) \subseteq load_allocations(reg)
         /\ \A d \in ToSet(reg), a \in ToSet(r.allocs) : d.id = a.id => d = a
<1> DEFINE s == r.allocs
<1>1. IsRegistry(s)
  BY RunAssumption
<1>2. CASE reg = s
  BY <1>1, <1>2, Entries
<1>3. CASE Accepts(s, r.late) /\ reg = Append(s, r.late)
  <2>1. s \in Seq(ToSet(s))
    BY <1>1 DEF IsRegistry
  <2>2. ToSet(reg) = ToSet(s) \cup {r.late}
    <3>1. \A i \in 1 .. Len(s) : Append(s, r.late)[i] = s[i]
      BY <2>1
    <3>2. Append(s, r.late)[Len(s) + 1] = r.late
          /\ DOMAIN Append(s, r.late) = 1 .. Len(s) + 1 /\ DOMAIN s = 1 .. Len(s)
          /\ Len(s) \in Nat
      BY <2>1
    <3> HIDE DEF s
    <3> QED BY <1>3, <3>1, <3>2 DEF ToSet
  <2>3. \A a \in ToSet(s) : a.id # r.late.id
    BY <1>1, <1>3, Entries DEF Accepts
  <2>4. \A d, a \in ToSet(s) : d.id = a.id => d = a
    BY <1>1, Entries
  <2> QED BY <2>2, <2>3, <2>4 DEF load_allocations
<1> QED BY <1>2, <1>3 DEF Grown

\* One descriptor has the id of a target, and the target's byte lies in it.
LEMMA OwnerIs ==
  ASSUME NEW r \in Runs, NEW reg, Grown(r, reg), NEW a, NEW t, Owns(r, a, t), t.offset \in Nat
  PROVE  /\ {d \in ToSet(reg) : d.id = t.id /\ d.active} = {a}
         /\ t.va \in Bytes(a) /\ Place(r, t.va) \in Places(r)
<1>1. a \in load_allocations(reg) /\ a \in load_allocations(r.allocs) /\ a \in ToSet(r.allocs)
  BY GrownKeeps DEF Owns, load_allocations
<1>2. {d \in ToSet(reg) : d.id = t.id /\ d.active} = {a}
  BY <1>1, GrownKeeps DEF Owns, load_allocations
<1>3. t.va \in Bytes(a)
  <2>1. a.base \in Nat /\ a.size \in Nat /\ Bytes(a) = a.base .. a.base + a.size - 1
    BY <1>1, Entries, RunAssumption
  <2> QED BY <2>1 DEF Owns
<1> QED BY <1>1, <1>2, <1>3, Mapped

\* build_rows of a run.
RowOf(r, a, page) ==
  [id |-> a.id, label |-> a.label, base |-> a.base, size |-> a.size,
   page |-> page, frame |-> r.table[page],
   start |-> Larger(a.base, page) - page,
   end |-> Smaller(a.base + a.size, page + PageBytes) - page,
   linked |-> r.table[page] \in Linked]

\* What the join has established of a snapshot.
Joined(r, rs) ==
  /\ \A a \in load_allocations(r.allocs) : \A page \in PagesOf(a) : RowOf(r, a, page) \in rs
  /\ \A x \in rs : \E a \in load_allocations(r.allocs) : \E page \in PagesOf(a) :
       x = RowOf(r, a, page)
  /\ \A a, b \in load_allocations(r.allocs) : \A p \in PagesOf(a), q \in PagesOf(b) :
       r.table[p] = r.table[q] => p = q
  /\ \A x, y \in rs : ~RowsOverlap(x, y)

\* A row is a part of one page and of its allocation.
LEMMA RowIsPart ==
  ASSUME NEW r \in Runs, NEW a \in load_allocations(r.allocs), NEW page \in PagesOf(a)
  PROVE  LET x == RowOf(r, a, page) IN
         /\ page \in Nat /\ page % PageBytes = 0 /\ page \in DOMAIN r.table
         /\ a.base \in Nat /\ a.base >= 1 /\ a.size \in Nat
         /\ x.start \in Nat /\ x.end \in Nat
         /\ x.start < x.end /\ x.end <= PageBytes
         /\ \A va \in Nat : PageOf(va) = page =>
              (va \in Bytes(a) <=> x.start <= va - page /\ va - page < x.end)
<1>1. /\ a.base \in Nat /\ a.base >= 1 /\ a.size \in Nat /\ a.size >= 1
      /\ Bytes(a) = a.base .. a.base + a.size - 1
  BY Entries, RunAssumption DEF load_allocations
<1>2. PICK va \in Bytes(a) : page = PageOf(va)
  BY DEF PagesOf, Bytes
<1>3. /\ page \in Nat /\ page <= va /\ va < page + PageBytes /\ page % PageBytes = 0
      /\ page \in DOMAIN r.table /\ va \in Nat
  BY <1>1, <1>2, PageSplit, PageIsAligned, Mapped
<1>4. \A v \in Nat : PageOf(v) = page => page <= v /\ v < page + PageBytes
  BY PageSplit
<1>5. PageBytes \in Nat
  BY DualAssumption
<1> DEFINE s == Larger(a.base, page) - page
           e == Smaller(a.base + a.size, page + PageBytes) - page
<1>6. /\ s \in Nat /\ e \in Nat /\ s < e /\ e <= PageBytes
      /\ \A v \in Nat : page <= v /\ v < page + PageBytes =>
           (v \in Bytes(a) <=> s <= v - page /\ v - page < e)
  <2>1. a.base <= va /\ va < a.base + a.size
    BY <1>1, <1>2
  <2>2. /\ s = IF a.base > page THEN a.base - page ELSE 0
        /\ e = IF a.base + a.size < page + PageBytes THEN (a.base + a.size) - page ELSE PageBytes
    BY <1>1, <1>3, <1>5 DEF Larger, Smaller
  <2> HIDE DEF s, e
  <2>3. s \in Nat /\ e \in Nat /\ s < e /\ e <= PageBytes
    <3>1. s \in Nat /\ s <= va - page
      BY <1>1, <1>3, <2>1, <2>2
    <3>2. e \in Nat /\ va - page < e /\ e <= PageBytes
      <4>1. CASE a.base + a.size < page + PageBytes
        <5>1. e = (a.base + a.size) - page
          BY <2>2, <4>1
        <5> QED BY <1>1, <1>3, <1>5, <2>1, <4>1, <5>1
      <4>2. CASE ~(a.base + a.size < page + PageBytes)
        <5>1. e = PageBytes
          BY <2>2, <4>2
        <5> QED BY <1>3, <1>5, <5>1
      <4> QED BY <4>1, <4>2
    <3>3. va - page \in Nat
      BY <1>3
    <3> QED BY <3>1, <3>2, <3>3
  <2>4. ASSUME NEW v \in Nat, page <= v, v < page + PageBytes
        PROVE  v \in Bytes(a) <=> s <= v - page /\ v - page < e
    <3>1. v \in Bytes(a) <=> a.base <= v /\ v < a.base + a.size
      BY <1>1
    <3>2. a.base <= v <=> s <= v - page
      BY <1>1, <1>3, <2>2, <2>4
    <3>3. v < a.base + a.size <=> v - page < e
      BY <1>1, <1>3, <1>5, <2>2, <2>4, SMTT(30)
    <3> QED BY <3>1, <3>2, <3>3
  <2> QED BY <2>3, <2>4
<1>7. RowOf(r, a, page).start = s /\ RowOf(r, a, page).end = e
  BY DEF RowOf
<1> HIDE DEF s, e
<1> QED BY <1>1, <1>3, <1>4, <1>6, <1>7

\* build_target: the middle of a row is a byte of the allocation, at the place that
\* the chain names.
LEMMA TargetAims ==
  ASSUME NEW r \in Runs, NEW rs, Joined(r, rs), NEW x \in rs, NEW id, NEW bit \in 0..7
  PROVE  LET t == build_target(x, id, bit) IN
         /\ Aims(r, t) /\ t.va \in Nat /\ t.va # 0 /\ t.bit = bit /\ t.target_id = id
         /\ t.frame + t.in_page = Place(r, t.va)
<1>1. PICK a \in load_allocations(r.allocs) : \E page \in PagesOf(a) : x = RowOf(r, a, page)
  BY DEF Joined
<1>2. PICK page \in PagesOf(a) : x = RowOf(r, a, page)
  BY <1>1
<1>3. /\ page \in Nat /\ page % PageBytes = 0
      /\ a.base \in Nat /\ a.base >= 1 /\ a.size \in Nat
      /\ x.start \in Nat /\ x.end \in Nat
      /\ x.start < x.end /\ x.end <= PageBytes
      /\ \A va \in Nat : PageOf(va) = page =>
           (va \in Bytes(a) <=> x.start <= va - page /\ va - page < x.end)
  BY <1>2, RowIsPart
<1>4. /\ x.id = a.id /\ x.base = a.base /\ x.page = page /\ x.frame = r.table[page]
  BY <1>2 DEF RowOf
<1> DEFINE m == (x.start + x.end) \div 2
           va == page + m
<1>5. /\ m \in Nat /\ x.start <= m /\ m < x.end /\ m \in 0 .. PageBytes - 1
  BY <1>3, DualAssumption
<1> HIDE DEF m
<1>6. va \in Nat /\ PageOf(va) = page /\ va % PageBytes = m /\ va - page = m
  BY <1>3, <1>5, OnPage
<1>7. va \in Bytes(a)
  BY <1>3, <1>5, <1>6
<1>8. a.base <= va /\ va < a.base + a.size
  <2>1. Bytes(a) = a.base .. a.base + a.size - 1
    BY Entries, RunAssumption DEF load_allocations
  <2> QED BY <1>3, <1>6, <1>7, <2>1
<1> DEFINE t == build_target(x, id, bit)
<1>9. /\ t.id = a.id /\ t.bit = bit /\ t.target_id = id /\ t.frame = r.table[page]
      /\ t.in_page = m /\ t.offset = page + m - a.base /\ t.va = a.base + (page + m - a.base)
  BY <1>4 DEF build_target, m
<1> HIDE DEF t
<1>10. t.va = va /\ t.offset \in Nat /\ t.offset < a.size /\ t.va = a.base + t.offset
  BY <1>3, <1>5, <1>6, <1>8, <1>9
<1>11. t.frame + t.in_page = Place(r, t.va)
  BY <1>6, <1>9, <1>10 DEF Place
<1> QED BY <1>3, <1>6, <1>8, <1>9, <1>10, <1>11 DEF t, Aims, Owns

\* run_build: what speaks against nothing is joined.
LEMMA SnapshotJoins ==
  ASSUME run \in Runs, registry = run.allocs, Joinable(load_allocations(run.allocs))
  PROVE  Joined(run, build_rows(load_allocations(run.allocs)))
<1> DEFINE A == load_allocations(run.allocs)
           rs == build_rows(A)
<1>1. \A a, page : SnapshotRow(a, page) = RowOf(run, a, page)
  BY DEF SnapshotRow, RowOf
<1>2. rs = UNION {{RowOf(run, a, p) : p \in PagesOf(a)} : a \in A}
  BY <1>1 DEF build_rows
<1>3. \A a \in A : \A page \in PagesOf(a) : RowOf(run, a, page) \in rs
  BY <1>2
<1>4. \A x \in rs : \E a \in A : \E page \in PagesOf(a) : x = RowOf(run, a, page)
  BY <1>2
<1>5. \A a \in A : \A p \in PagesOf(a) : UsablePage(a, p)
  BY DEF Joinable
<1>6. \A a, b \in A : \A p \in PagesOf(a), q \in PagesOf(b) :
        run.table[p] = run.table[q] => p = q
  BY <1>5 DEF UsablePage
<1>7. \A x, y \in rs : ~RowsOverlap(x, y)
  BY DEF Joinable
<1> HIDE DEF rs
<1> QED BY <1>3, <1>4, <1>6, <1>7 DEF Joined, rs

\* A joined snapshot answers for every byte, and for each physical one once.
LEMMA JoinedAnswers ==
  ASSUME run \in Runs, Joined(run, rows)
  PROVE  LET bytes == UNION {Bytes(a) : a \in load_allocations(run.allocs)} IN
         /\ \A va \in bytes :
              \E r \in rows :
                /\ lookup_va(va) = {r}
                /\ r.frame + (va - r.page) = Physical(va)
                /\ r \in lookup_pa(Physical(va))
         /\ \A x, y \in bytes : Physical(x) = Physical(y) => x = y
<1> DEFINE A == load_allocations(run.allocs)
<1>1. ASSUME NEW a \in A, NEW va \in Bytes(a)
      PROVE  \E r \in rows :
               /\ lookup_va(va) = {r}
               /\ r.frame + (va - r.page) = Physical(va)
               /\ r \in lookup_pa(Physical(va))
  <2> DEFINE p == PageOf(va)
             r == RowOf(run, a, p)
             frame == run.table[p]
  <2>1. /\ va \in Nat /\ p \in PagesOf(a) /\ frame \in Nat /\ frame % PageBytes = 0
        /\ va % PageBytes = va - p /\ va - p \in 0 .. PageBytes - 1
    BY <1>1, Mapped, PageSplit
  <2>2. r \in rows /\ r.page = p /\ r.frame = frame
    BY <2>1 DEF Joined, RowOf
  <2>3. r.start <= va - p /\ va - p < r.end
    BY <1>1, <2>1, RowIsPart
  <2>4. Physical(va) = frame + (va - p) /\ PageOf(Physical(va)) = frame
    BY <2>1, OnPage DEF Physical
  <2>5. ASSUME NEW x \in rows, x.page = p, x.start <= va - p, va - p < x.end
        PROVE  x = r
    <3>1. PICK b \in A : \E q \in PagesOf(b) : x = RowOf(run, b, q)
      BY DEF Joined
    <3>2. x.start \in Nat /\ x.end \in Nat /\ r.start \in Nat /\ r.end \in Nat
      BY <2>1, <3>1, RowIsPart
    <3>3. x.start < r.end /\ r.start < x.end
      BY <2>1, <2>3, <2>5, <3>2
    <3>4. ~RowsOverlap(x, r)
      BY <2>2 DEF Joined
    <3> HIDE DEF r
    <3> QED BY <2>2, <2>5, <3>3, <3>4 DEF RowsOverlap
  <2> HIDE DEF r
  <2>6. lookup_va(va) = {r}
    BY <2>2, <2>3, <2>5 DEF lookup_va
  <2>7. r \in lookup_pa(Physical(va))
    BY <2>2, <2>4 DEF lookup_pa
  <2> QED BY <2>2, <2>4, <2>6, <2>7
<1>2. ASSUME NEW a \in A, NEW b \in A, NEW x \in Bytes(a), NEW y \in Bytes(b),
             Physical(x) = Physical(y)
      PROVE  x = y
  <2> DEFINE p == PageOf(x)
             q == PageOf(y)
  <2>1. /\ x \in Nat /\ p \in PagesOf(a) /\ run.table[p] \in Nat
        /\ run.table[p] % PageBytes = 0 /\ p \in Nat
        /\ x % PageBytes = x - p /\ x % PageBytes \in 0 .. PageBytes - 1
    BY Mapped, PageSplit
  <2>2. /\ y \in Nat /\ q \in PagesOf(b) /\ run.table[q] \in Nat
        /\ run.table[q] % PageBytes = 0 /\ q \in Nat
        /\ y % PageBytes = y - q /\ y % PageBytes \in 0 .. PageBytes - 1
    BY Mapped, PageSplit
  <2>3. run.table[p] + (x % PageBytes) = run.table[q] + (y % PageBytes)
    BY <1>2 DEF Physical
  <2> HIDE DEF p, q
  <2>4. run.table[p] = run.table[q] /\ x % PageBytes = y % PageBytes
    <3>1. /\ PageOf(run.table[p] + (x % PageBytes)) = run.table[p]
          /\ (run.table[p] + (x % PageBytes)) % PageBytes = x % PageBytes
      BY <2>1, OnPage
    <3>2. /\ PageOf(run.table[q] + (y % PageBytes)) = run.table[q]
          /\ (run.table[q] + (y % PageBytes)) % PageBytes = y % PageBytes
      BY <2>2, OnPage
    <3> QED BY <2>3, <3>1, <3>2
  <2>5. p = q
    BY <2>1, <2>2, <2>4 DEF Joined
  <2> QED BY <2>1, <2>2, <2>4, <2>5
<1> QED BY <1>1, <1>2

-----------------------------------------------------------------------------
(* The choice of targets.                                                  *)

\* A bounded measure has a least value.
LEMMA LeastValue ==
  ASSUME NEW S, S # {}, NEW f, NEW lo \in Int, \A s \in S : f[s] \in Int /\ lo <= f[s]
  PROVE  \E m \in S : \A s \in S : f[m] <= f[s]
<1> DEFINE T == {f[s] - lo : s \in S}
<1>1. T \subseteq Nat /\ T # {}
  OBVIOUS
<1> HIDE DEF T
<1>2. PICK n \in T : \A k \in T : ~(<<k, n>> \in OpToRel(<, Nat))
  BY <1>1, WFMin, NatLessThanWellFounded, Zenon
<1>3. \A k \in T : n <= k
  <2> TAKE k \in T
  <2>1. k \in Nat /\ n \in Nat /\ <<k, n>> \in Nat \X Nat
    BY <1>1
  <2>2. k < n => <<k, n>> \in OpToRel(<, Nat)
    BY <2>1 DEF OpToRel
  <2>3. ~(k < n)
    BY <1>2, <2>2, Zenon
  <2> QED BY <2>1, <2>3
<1>4. PICK m \in S : n = f[m] - lo
  BY DEF T
<1> QED BY SMTT(40), <1>3, <1>4 DEF T

\* Keys of five integers, one key to an element: the sort has a first element.
LEMMA FirstInOrder ==
  ASSUME NEW S, S # {}, NEW K, NEW lo \in Int,
         \A s \in S : \A i \in 1 .. 5 : K[s][i] \in Int /\ lo <= K[s][i],
         \A s \in S : DOMAIN K[s] = 1 .. 5,
         \A s, u \in S : (\A i \in 1 .. 5 : K[s][i] = K[u][i]) => s = u
  PROVE  \E m \in S : \A s \in S : s = m \/ Before(K[m], K[s])
<1>1. ASSUME NEW T, T \subseteq S, T # {}, NEW i \in 1 .. 5
      PROVE  \E m \in T : \A s \in T : K[m][i] <= K[s][i]
  <2> DEFINE f == [s \in T |-> K[s][i]]
  <2>1. \A s \in T : f[s] \in Int /\ lo <= f[s] /\ f[s] = K[s][i]
    BY <1>1
  <2> HIDE DEF f
  <2>2. \E m \in T : \A s \in T : f[m] <= f[s]
    BY <1>1, <2>1, LeastValue
  <2> QED BY <2>1, <2>2
<1>0. 1 \in 1 .. 5 /\ 2 \in 1 .. 5 /\ 3 \in 1 .. 5 /\ 4 \in 1 .. 5 /\ 5 \in 1 .. 5
  OBVIOUS
<1>2. PICK a \in S : \A s \in S : K[a][1] <= K[s][1]
  BY <1>0, <1>1, Zenon
<1> DEFINE S1 == {s \in S : K[s][1] = K[a][1]}
<1>3. PICK b \in S1 : \A s \in S1 : K[b][2] <= K[s][2]
  <2>1. S1 \subseteq S /\ a \in S1
    OBVIOUS
  <2> HIDE DEF S1
  <2> QED BY <1>0, <1>1, <2>1, Zenon
<1> DEFINE S2 == {s \in S1 : K[s][2] = K[b][2]}
<1>4. PICK c \in S2 : \A s \in S2 : K[c][3] <= K[s][3]
  <2>1. S2 \subseteq S /\ b \in S2
    OBVIOUS
  <2> HIDE DEF S2
  <2> QED BY <1>0, <1>1, <2>1, Zenon
<1> DEFINE S3 == {s \in S2 : K[s][3] = K[c][3]}
<1>5. PICK d \in S3 : \A s \in S3 : K[d][4] <= K[s][4]
  <2>1. S3 \subseteq S /\ c \in S3
    OBVIOUS
  <2> HIDE DEF S3
  <2> QED BY <1>0, <1>1, <2>1, Zenon
<1> DEFINE S4 == {s \in S3 : K[s][4] = K[d][4]}
<1>6. PICK e \in S4 : \A s \in S4 : K[e][5] <= K[s][5]
  <2>1. S4 \subseteq S /\ d \in S4
    OBVIOUS
  <2> HIDE DEF S4
  <2> QED BY <1>0, <1>1, <2>1, Zenon
<1>7. ASSUME NEW s \in S, s # e PROVE Before(K[e], K[s])
  <2> DEFINE x == K[e]
             y == K[s]
  <2>1. \A i \in 1 .. 5 : x[i] \in Int /\ y[i] \in Int
    OBVIOUS
  <2>2. DOMAIN x = 1 .. 5 /\ ~(\A i \in 1 .. 5 : x[i] = y[i])
    BY <1>7
  <2>3. /\ x[1] <= y[1]
        /\ x[1] = y[1] => x[2] <= y[2]
        /\ x[1] = y[1] /\ x[2] = y[2] => x[3] <= y[3]
        /\ x[1] = y[1] /\ x[2] = y[2] /\ x[3] = y[3] => x[4] <= y[4]
        /\ x[1] = y[1] /\ x[2] = y[2] /\ x[3] = y[3] /\ x[4] = y[4] => x[5] <= y[5]
    BY <1>2, <1>3, <1>4, <1>5, <1>6
  <2> HIDE DEF x, y
  <2>4. \E i \in 1 .. 5 : x[i] < y[i] /\ \A j \in 1 .. i - 1 : x[j] = y[j]
    <3>1. CASE x[1] < y[1]
      BY <3>1
    <3>2. CASE x[1] = y[1] /\ x[2] < y[2]
      BY <3>2
    <3>3. CASE x[1] = y[1] /\ x[2] = y[2] /\ x[3] < y[3]
      BY <3>3
    <3>4. CASE x[1] = y[1] /\ x[2] = y[2] /\ x[3] = y[3] /\ x[4] < y[4]
      BY <3>4
    <3>5. CASE x[1] = y[1] /\ x[2] = y[2] /\ x[3] = y[3] /\ x[4] = y[4] /\ x[5] < y[5]
      BY <3>5
    <3> QED BY <2>1, <2>2, <2>3, <3>1, <3>2, <3>3, <3>4, <3>5
  <2> QED BY <2>2, <2>4 DEF Before, x, y
<1> QED BY <1>7

\* Both keys tell the rows of a joined snapshot apart.
LEMMA RowsSorted ==
  ASSUME NEW r \in Runs, NEW rs, Joined(r, rs), NEW S \in SUBSET rs, S # {}
  PROVE  Least(S, BindingKey) \in S /\ Least(S, InternalKey) \in S
<1>1. \A x \in S : /\ x.frame \in Nat /\ x.page \in Nat /\ x.start \in Nat /\ x.end \in Nat
                   /\ x.size \in Nat /\ x.size <= MaxVa /\ x.start < x.end
  <2> TAKE x \in S
  <2>1. PICK a \in load_allocations(r.allocs) : \E page \in PagesOf(a) : x = RowOf(r, a, page)
    BY DEF Joined
  <2>2. PICK page \in PagesOf(a) : x = RowOf(r, a, page)
    BY <2>1
  <2>3. x.frame = r.table[page] /\ x.page = page /\ x.size = a.size
    BY <2>2 DEF RowOf
  <2>4. /\ page \in Nat /\ page \in DOMAIN r.table /\ a.size \in Nat
        /\ x.start \in Nat /\ x.end \in Nat /\ x.start < x.end
    BY <2>2, RowIsPart
  <2>5. a.size <= MaxVa
    <3>1. PICK i \in DOMAIN r.allocs : a = r.allocs[i]
      BY Entries, RunAssumption DEF load_allocations
    <3>2. ~RangeOverflows(a) /\ a.base \in 1 .. MaxVa /\ a.size \in Nat
      BY <3>1, RunAssumption DEF IsRegistry
    <3> QED BY <3>2, MaxVaAssumption DEF RangeOverflows
  <2> QED BY <2>3, <2>4, <2>5, RunAssumption
<1>2. \A x, y \in S : x.page = y.page /\ x.start = y.start => x = y
  BY <1>1 DEF Joined, RowsOverlap
<1>3. \A b : Rank(b) \in {0, 1}
  BY DEF Rank
<1>4. 0 - MaxVa \in Int /\ MaxVa \in Nat
  BY MaxVaAssumption
<1>5. Least(S, BindingKey) \in S
  <2> DEFINE K == [x \in S |-> BindingKey(x)]
  <2>1. \A x \in S : /\ DOMAIN K[x] = 1 .. 5
                     /\ K[x][1] = Rank(x.linked) /\ K[x][2] = Rank(x.label = "TENSOR:data")
                     /\ K[x][3] = x.frame /\ K[x][4] = x.page /\ K[x][5] = x.start
    BY DEF BindingKey
  <2>2. \A x \in S : K[x] = BindingKey(x)
    OBVIOUS
  <2> HIDE DEF K
  <2>3. \A x \in S : \A i \in 1 .. 5 : K[x][i] \in Int /\ 0 - MaxVa <= K[x][i]
    BY <1>1, <1>3, <1>4, <2>1
  <2>4. \A x, y \in S : (\A i \in 1 .. 5 : K[x][i] = K[y][i]) => x = y
    BY <1>2, <2>1
  <2>5. \E m \in S : \A x \in S : x = m \/ Before(K[m], K[x])
    BY <1>4, <2>1, <2>3, <2>4, FirstInOrder
  <2>6. \E m \in S : \A x \in S : x = m \/ Before(BindingKey(m), BindingKey(x))
    BY <2>2, <2>5
  <2> QED BY <2>6 DEF Least
<1>6. Least(S, InternalKey) \in S
  <2> DEFINE K == [x \in S |-> InternalKey(x)]
  <2>1. \A x \in S : /\ DOMAIN K[x] = 1 .. 5
                     /\ K[x][1] = Rank(x.linked) /\ K[x][2] = -x.size
                     /\ K[x][3] = x.frame /\ K[x][4] = x.page /\ K[x][5] = x.start
    BY DEF InternalKey
  <2>2. \A x \in S : K[x] = InternalKey(x)
    OBVIOUS
  <2> HIDE DEF K
  <2>3. \A x \in S : \A i \in 1 .. 5 : K[x][i] \in Int /\ 0 - MaxVa <= K[x][i]
    BY <1>1, <1>3, <1>4, <2>1
  <2>4. \A x, y \in S : (\A i \in 1 .. 5 : K[x][i] = K[y][i]) => x = y
    BY <1>2, <2>1
  <2>5. \E m \in S : \A x \in S : x = m \/ Before(K[m], K[x])
    BY <1>4, <2>1, <2>3, <2>4, FirstInOrder
  <2>6. \E m \in S : \A x \in S : x = m \/ Before(InternalKey(m), InternalKey(x))
    BY <2>2, <2>5
  <2> QED BY <2>6 DEF Least
<1> QED BY <1>5, <1>6

-----------------------------------------------------------------------------
(* The inductive invariant.                                                *)

IsSeq(s) == s \in Seq(ToSet(s))

Clean(r, m) == \A x \in Places(r) : m[x] = {}

Aiming(r, w) == \A i \in 1 .. Len(w) : Aims(r, w[i])

\* What the script chose is in order.
Chosen(r, w) ==
  /\ Len(w) = 2 /\ w[1].target_id # w[2].target_id
  /\ \A i \in 1 .. 2 : /\ Aims(r, w[i]) /\ w[i].va # 0
                       /\ w[i].frame + w[i].in_page = Place(r, w[i].va)

\* Record k tells what the flips before it had made of its target's allocation.
RecordsTell(r, w, recs) ==
  \A k \in 1 .. Len(recs) :
    /\ recs[k].target = w[k]
    /\ recs[k].before = FlipsAt(r, w, k - 1, Place(r, w[k].va))
    /\ recs[k].after = FlipsAt(r, w, k, Place(r, w[k].va))
    /\ \A a : Owns(r, a, w[k]) =>
         recs[k].before_full = [x \in Bytes(a) |-> FlipsAt(r, w, k - 1, Place(r, x))]

\* Memory holds the first k flips.
Holds(r, w, k, m) == \A x \in Places(r) : m[x] = FlipsAt(r, w, k, x)

\* The allocations of the targets after k hold the first k flips, also where
\* the engine wrote.
Back(r, w, k, m) ==
  \A i \in k + 1 .. Len(w) : \A a : Owns(r, a, w[i]) =>
    \A va \in Bytes(a) : m[Place(r, va)] = FlipsAt(r, w, k, Place(r, va))

Shape ==
  /\ run \in Runs /\ next \in Nat
  /\ pc \in {"clean", "gate", "snapshot", "released", "flip", "infer", "restore",
             "written", "thrown", "ended"}
  /\ tensors = BindTensors(run.allocs)
  /\ IsSeq(work) /\ \A i \in DOMAIN work : work[i].bit \in Nat /\ work[i].offset \in Nat
  /\ IsSeq(records)
  /\ DOMAIN mem = Places(run)

\* The registry grows only in the inference, after the script has copied it.
Copied ==
  /\ Grown(run, registry)
  /\ pc \notin {"restore", "written", "thrown"} => registry = run.allocs
  /\ \/ gate_copy = run.allocs
     \/ pc \in {"clean", "written", "thrown"} /\ rows = {} /\ ~byScript /\ work = <<>>
  /\ rows # {} => Joined(run, rows)

\* Before the first flip nothing is disturbed, and nothing is when the run is refused.
Quiet ==
  /\ pc \in {"clean", "gate", "snapshot", "released"} =>
       records = <<>> /\ next = 1 /\ rewritten = 0
  /\ pc \in {"clean", "gate", "snapshot"} => ~byScript /\ work = <<>>
  /\ pc \in {"clean", "gate", "snapshot", "released", "ended"} => Clean(run, mem)
  /\ thrown \in {"refused", "timeout"} \/ verdict = "REFUSED" => Clean(run, mem)
  /\ pc # "thrown" => thrown = "no"
  /\ pc = "written" => trouble # "sticky"
  /\ verdict # "none" => pc \in {"written", "thrown", "ended"}
  /\ byScript => pc = "ended" \/ thrown = "timeout" \/ Chosen(run, work)

\* The flips are held in order, and undone in the reverse order.
Flipped ==
  /\ pc \in {"flip", "infer", "restore", "written"} =>
       Aiming(run, work) /\ RecordsTell(run, work, records)
  /\ pc \in {"infer", "restore", "written"} => Len(records) = Len(work)
  /\ pc \in {"flip", "infer"} =>
       /\ next \in 1 .. Len(work) + 1 /\ Len(records) = next - 1 /\ rewritten = 0
       /\ Holds(run, work, next - 1, mem)
  /\ pc = "infer" => next = Len(work) + 1
  /\ pc = "restore" =>
       /\ next <= Len(work)
       /\ rewritten = 0 => Holds(run, work, next, mem)
       /\ Back(run, work, next, mem)
       /\ outcome \in Outcomes
  /\ pc = "written" => Back(run, work, 0, mem)
  /\ pc = "written" /\ byScript => outcome \in Outcomes

DualInv == Shape /\ Copied /\ Quiet /\ Flipped /\ ThrowsForAReason

\* The empty sequence.
LEMMA EmptyIsSeq == IsSeq(<<>>) /\ Len(<<>>) = 0
BY DEF IsSeq, ToSet

\* A sequence with one element more.
LEMMA AppendIsSeq ==
  ASSUME NEW s, NEW e, IsSeq(s)
  PROVE  /\ IsSeq(Append(s, e)) /\ Len(Append(s, e)) = Len(s) + 1 /\ Len(s) \in Nat
         /\ \A i \in 1 .. Len(s) : Append(s, e)[i] = s[i]
         /\ Append(s, e)[Len(s) + 1] = e
<1>1. s \in Seq(ToSet(s)) /\ DOMAIN s = 1 .. Len(s) /\ Len(s) \in Nat
  BY DEF IsSeq
<1> DEFINE u == Append(s, e)
<1>2. /\ Len(u) = Len(s) + 1 /\ DOMAIN u = 1 .. Len(s) + 1
      /\ \A i \in 1 .. Len(s) : u[i] = s[i]
      /\ u[Len(s) + 1] = e
      /\ u \in Seq(ToSet(s) \cup {e})
  <2>1. s \in Seq(ToSet(s) \cup {e})
    BY <1>1
  <2> QED BY <1>1, <2>1
<1>3. u \in Seq(ToSet(u))
  <2> HIDE DEF u
  <2> QED BY <1>2 DEF ToSet
<1> QED BY <1>1, <1>2, <1>3 DEF IsSeq

\* The invariant holds before the gate.
LEMMA Starts == Init => DualInv
<1> SUFFICES ASSUME Init PROVE DualInv
  OBVIOUS
<1>1. Shape
  <2>1. DOMAIN mem = Places(run)
    BY WhereItIs DEF Init
  <2> QED BY <2>1, EmptyIsSeq DEF Init, Shape
<1>2. Copied
  <2>1. Grown(run, registry)
    BY DEF Init, Grown
  <2> QED BY <2>1 DEF Init, Copied
<1>3. Quiet
  BY WhereItIs DEF Init, Quiet, Clean
<1>4. Flipped
  BY DEF Init, Flipped
<1>5. ThrowsForAReason
  BY DEF Init, ThrowsForAReason
<1> QED BY <1>1, <1>2, <1>3, <1>4, <1>5 DEF DualInv

-----------------------------------------------------------------------------
(* The steps before the runner.                                            *)

\* The copy of the registry that waits at the gate.
LEMMA StepGate == DualInv /\ WriteGateRegistry => DualInv'
<1> SUFFICES ASSUME DualInv, WriteGateRegistry PROVE DualInv'
  OBVIOUS
<1> USE DEF DualInv
<1>0. \/ pc' = "thrown" /\ thrown' = "file" /\ gate_copy' = gate_copy
      \/ pc' = "gate" /\ thrown' = thrown /\ gate_copy' = registry
  BY DEF WriteGateRegistry, Throw
<1>1. Shape'
  BY <1>0 DEF Shape, WriteGateRegistry
<1>2. Copied'
  <2>1. Grown(run, registry)' /\ (registry = run.allocs)'
    BY DEF Copied, WriteGateRegistry
  <2>2. ~byScript /\ work = <<>>
    BY DEF Quiet, WriteGateRegistry
  <2> QED BY <1>0, <2>1, <2>2 DEF Copied, WriteGateRegistry
<1>3. Quiet'
  BY <1>0 DEF Quiet, WriteGateRegistry
<1>4. Flipped'
  BY <1>0 DEF Flipped, WriteGateRegistry
<1>5. ThrowsForAReason'
  <2>1. thrown' \in {"no", "file"} /\ ~byScript' /\ verdict' = "none"
    BY <1>0 DEF Quiet, WriteGateRegistry
  <2> QED BY <2>1 DEF ThrowsForAReason
<1> QED BY <1>1, <1>2, <1>3, <1>4, <1>5

\* A release that never comes.
LEMMA StepTimesOut == DualInv /\ ReleaseTimesOut => DualInv'
<1> SUFFICES ASSUME DualInv, ReleaseTimesOut PROVE DualInv'
  OBVIOUS
<1> USE DEF DualInv, Throw
<1>1. Shape'
  BY DEF Shape, ReleaseTimesOut
<1>2. Copied'
  BY DEF Copied, ReleaseTimesOut
<1>3. Quiet'
  <2>1. Clean(run, mem) /\ verdict = "none"
    BY DEF Quiet, ReleaseTimesOut
  <2> QED BY <2>1 DEF Quiet, ReleaseTimesOut
<1>4. Flipped'
  BY DEF Flipped, ReleaseTimesOut
<1>5. ThrowsForAReason'
  <2>1. thrown' = "timeout" /\ verdict' = "none"
    BY DEF Quiet, ReleaseTimesOut
  <2> QED BY <2>1 DEF ThrowsForAReason
<1> QED BY <1>1, <1>2, <1>3, <1>4, <1>5

\* run_build joins the snapshot, or refuses it.
LEMMA StepSnapshot == DualInv /\ BuildSnapshot => DualInv'
<1> SUFFICES ASSUME DualInv, BuildSnapshot PROVE DualInv'
  OBVIOUS
<1> USE DEF DualInv
<1>1. Shape'
  BY DEF Shape, BuildSnapshot
<1>2. Copied'
  <2>1. registry = run.allocs /\ gate_copy = run.allocs /\ run \in Runs
    BY DEF Copied, Shape, BuildSnapshot
  <2>2. rows' # {} => Joined(run, rows')
    <3>1. CASE rows' = rows
      BY <3>1 DEF Copied
    <3>2. CASE /\ Joinable(load_allocations(gate_copy))
               /\ rows' = build_rows(load_allocations(gate_copy))
      BY <2>1, <3>2, SnapshotJoins
    <3> QED BY <3>1, <3>2 DEF BuildSnapshot
  <2> QED BY <2>1, <2>2 DEF Copied, BuildSnapshot
<1>3. Quiet'
  <2>1. records = <<>> /\ next = 1 /\ rewritten = 0 /\ Clean(run, mem) /\ thrown = "no"
        /\ work = <<>> /\ verdict = "none"
    BY DEF Quiet, BuildSnapshot
  <2>2. ~byScript
    BY DEF Quiet, BuildSnapshot
  <2> QED BY <2>1, <2>2 DEF Quiet, BuildSnapshot
<1>4. Flipped'
  BY DEF Flipped, BuildSnapshot
<1>5. ThrowsForAReason'
  <2>1. thrown = "no" /\ thrown' = "no" /\ verdict' # "FAIL_CLOSED"
    BY DEF Quiet, BuildSnapshot
  <2> QED BY <2>1 DEF ThrowsForAReason
<1> QED BY <1>1, <1>2, <1>3, <1>4, <1>5

\* select_targets chooses two bytes that the chain leads to, or refuses.
LEMMA StepSelect == DualInv /\ SelectTargets => DualInv'
<1> SUFFICES ASSUME DualInv, SelectTargets PROVE DualInv'
  OBVIOUS
<1> USE DEF DualInv
<1>0. /\ registry = run.allocs /\ gate_copy = run.allocs /\ run \in Runs
      /\ records = <<>> /\ next = 1 /\ rewritten = 0 /\ Clean(run, mem) /\ thrown = "no"
      /\ work = <<>> /\ verdict = "none"
  BY DEF Copied, Shape, Quiet, SelectTargets
<1>1. \/ /\ work' = select_targets /\ pc' = "released" /\ verdict' = verdict
         /\ Chosen(run, work') /\ IsSeq(work')
         /\ \A i \in DOMAIN work' : work'[i].bit \in Nat /\ work'[i].offset \in Nat
      \/ work' = work /\ pc' = "ended" /\ verdict' = "REFUSED"
  <2>1. CASE BindingRows # {} /\ InternalRows # {}
    <3> DEFINE x == Least(BindingRows, BindingKey)
               y == Least(InternalRows, InternalKey)
               t == build_target(x, "t1-binding", BindingBit)
               u == build_target(y, "t2-internal", InternalBit)
    <3>1. Joined(run, rows)
      BY <2>1 DEF Copied, BindingRows
    <3>2. BindingRows \in SUBSET rows /\ InternalRows \in SUBSET rows
      BY DEF BindingRows, InternalRows
    <3>3. x \in rows /\ y \in rows
      BY <1>0, <2>1, <3>1, <3>2, RowsSorted
    <3>4. BindingBit \in 0..7 /\ InternalBit \in 0..7
      BY DualAssumption
    <3> HIDE DEF x, y
    <3>5. Aims(run, t) /\ t.va # 0 /\ t.target_id = "t1-binding"
          /\ t.frame + t.in_page = Place(run, t.va)
      BY <1>0, <3>1, <3>3, <3>4, TargetAims
    <3>6. Aims(run, u) /\ u.va # 0 /\ u.target_id = "t2-internal"
          /\ u.frame + u.in_page = Place(run, u.va)
      BY <1>0, <3>1, <3>3, <3>4, TargetAims
    <3>7. work' = <<t, u>>
      BY <2>1 DEF SelectTargets, select_targets, x, y
    <3> HIDE DEF t, u
    <3>8. Len(work') = 2 /\ work'[1] = t /\ work'[2] = u /\ DOMAIN work' = 1 .. 2
          /\ 1 .. 2 = {1, 2}
      BY <3>7
    <3>9. Chosen(run, work')
      BY <3>5, <3>6, <3>8 DEF Chosen
    <3>10. IsSeq(work')
      <4>1. ToSet(work') = {t, u}
        BY <3>8 DEF ToSet
      <4> QED BY <3>7, <4>1 DEF IsSeq
    <3>11. \A i \in DOMAIN work' : work'[i].bit \in Nat /\ work'[i].offset \in Nat
      BY <3>5, <3>6, <3>8 DEF Aims
    <3> QED BY <2>1, <3>9, <3>10, <3>11 DEF SelectTargets
  <2>2. CASE ~(BindingRows # {} /\ InternalRows # {})
    BY <2>2 DEF SelectTargets
  <2> QED BY <2>1, <2>2
<1>2. Shape'
  BY <1>1 DEF Shape, SelectTargets
<1>3. Copied'
  BY <1>0, <1>1 DEF Copied, SelectTargets
<1>4. Quiet'
  BY <1>0, <1>1 DEF Quiet, SelectTargets
<1>5. Flipped'
  BY <1>1 DEF Flipped, SelectTargets
<1>6. ThrowsForAReason'
  <2>1. thrown' = "no" /\ verdict' # "FAIL_CLOSED"
    BY <1>0, <1>1 DEF SelectTargets
  <2> QED BY <2>1 DEF ThrowsForAReason
<1> QED BY <1>2, <1>3, <1>4, <1>5, <1>6

\* A work file by hand may say anything.
LEMMA StepByHand == DualInv /\ (\E w \in HandWorks : WorkByHand(w)) => DualInv'
<1> SUFFICES ASSUME DualInv, NEW w \in HandWorks, WorkByHand(w) PROVE DualInv'
  OBVIOUS
<1> USE DEF DualInv
<1>1. Shape'
  BY HandAssumption DEF Shape, WorkByHand, IsSeq
<1>2. Copied'
  BY DEF Copied, WorkByHand
<1>3. Quiet'
  <2>1. ~byScript
    BY DEF Quiet, WorkByHand
  <2> QED BY <2>1 DEF Quiet, WorkByHand
<1>4. Flipped'
  BY DEF Flipped, WorkByHand
<1>5. ThrowsForAReason'
  <2>1. thrown' = "no" /\ verdict' = "none"
    BY DEF Quiet, WorkByHand
  <2> QED BY <2>1 DEF ThrowsForAReason
<1> QED BY <1>1, <1>2, <1>3, <1>4, <1>5

-----------------------------------------------------------------------------
(* The runner.                                                             *)

\* What passes the pre-flight aims at live allocations; the script's choice passes.
LEMMA StepPreFlight == DualInv /\ PreFlight => DualInv'
<1> SUFFICES ASSUME DualInv, PreFlight PROVE DualInv'
  OBVIOUS
<1> USE DEF DualInv
<1>0. /\ registry = run.allocs /\ run \in Runs
      /\ records = <<>> /\ next = 1 /\ rewritten = 0 /\ Clean(run, mem)
      /\ thrown = "no" /\ verdict = "none"
  BY DEF Copied, Shape, Quiet, PreFlight
<1>1. IsRegistry(registry)
  BY <1>0, RunAssumption
<1>2. Len(work) \in Nat /\ DOMAIN work = 1 .. Len(work)
  BY DEF Shape, IsSeq
<1>3. ASSUME WorkReads, Resolves PROVE Aiming(run, work)
  <2> SUFFICES ASSUME NEW i \in 1 .. Len(work) PROVE Aims(run, work[i])
    BY DEF Aiming
  <2>1. work[i].bit \in Nat /\ work[i].offset \in Nat /\ work[i].bit <= 7
    BY <1>2, <1>3 DEF Shape, WorkReads
  <2>2. allocation_bit_to_gpu_va(registry, work[i].id, work[i].offset) = {work[i].va}
    BY <1>2, <1>3 DEF Resolves
  <2>3. \E a \in load_allocations(registry) :
          a.id = work[i].id /\ work[i].offset < a.size /\ work[i].va = a.base + work[i].offset
    <3> DEFINE u == work[i]
    <3>1. u.va \in allocation_bit_to_gpu_va(registry, u.id, u.offset) /\ u.offset \in Nat
      BY <2>1, <2>2
    <3> HIDE DEF u
    <3>2. \E a \in load_allocations(registry) :
            a.id = u.id /\ u.offset < a.size /\ u.va = a.base + u.offset
      BY <1>1, <3>1, ForwardAnswers
    <3> QED BY <3>2 DEF u
  <2>4. \E a : Owns(run, a, work[i])
    BY <1>0, <2>3 DEF Owns
  <2>5. work[i].bit \in 0..7
    BY <2>1
  <2> QED BY <2>1, <2>4, <2>5 DEF Aims
<1>4. ASSUME Chosen(run, work) PROVE WorkReads /\ Resolves
  <2>1. Len(work) = 2 /\ \A i \in 1 .. 2 : Aims(run, work[i]) /\ work[i].va # 0
    BY <1>4 DEF Chosen
  <2>2. WorkReads
    BY <1>2, <2>1, EmptyIsSeq DEF WorkReads, Aims
  <2>3. ASSUME NEW i \in DOMAIN work
        PROVE  allocation_bit_to_gpu_va(registry, work[i].id, work[i].offset) = {work[i].va}
    <3>1. PICK a : Owns(run, a, work[i]) /\ work[i].offset \in Nat
      BY <1>2, <2>1 DEF Aims
    <3> DEFINE offset == work[i].offset
    <3>2. a \in load_allocations(registry) /\ offset \in Nat /\ offset < a.size
          /\ a.id = work[i].id /\ work[i].va = a.base + offset
      BY <1>0, <3>1 DEF Owns
    <3> HIDE DEF offset
    <3>3. allocation_bit_to_gpu_va(registry, a.id, offset) = {a.base + offset}
      BY <1>1, <3>2, Forward
    <3> QED BY <3>2, <3>3 DEF offset
  <2> QED BY <2>2, <2>3 DEF Resolves
<1>5. \/ pc' = "flip" /\ thrown' = thrown /\ Aiming(run, work)
      \/ pc' = "thrown" /\ thrown' = "refused" /\ ~Chosen(run, work)
      \/ pc' = "thrown" /\ thrown' = "file" /\ trouble = "disk"
  BY <1>3, <1>4 DEF PreFlight, Throw
<1>6. Shape'
  BY <1>5 DEF Shape, PreFlight
<1>7. Copied'
  BY <1>0, <1>5 DEF Copied, PreFlight
<1>8. Quiet'
  BY <1>0, <1>5 DEF Quiet, PreFlight
<1>9. Flipped'
  <2>1. RecordsTell(run, work, records) /\ Len(records) = 0
    BY <1>0, EmptyIsSeq DEF RecordsTell
  <2>2. Holds(run, work, next - 1, mem)
    <3>1. next - 1 = 0
      BY <1>0
    <3>2. Holds(run, work, 0, mem)
      BY <1>0, NoFlips DEF Holds, Clean
    <3> QED BY <3>1, <3>2
  <2> QED BY <1>0, <1>2, <1>5, <2>1, <2>2 DEF Flipped, PreFlight
<1>10. ThrowsForAReason'
  <2>1. thrown' = "refused" => ~byScript
    BY <1>0, <1>5 DEF Quiet, PreFlight
  <2>2. thrown' \in {"no", "refused", "file"} /\ verdict' = "none"
    BY <1>0, <1>5 DEF PreFlight
  <2>3. byScript' = byScript /\ trouble' = trouble
    BY DEF PreFlight
  <2>4. thrown' = "file" => trouble = "disk"
    BY <1>0, <1>5
  <2> QED BY <2>1, <2>2, <2>3, <2>4 DEF ThrowsForAReason
<1> QED BY <1>6, <1>7, <1>8, <1>9, <1>10

\* One flip on the way in, and one on the way back, as any byte sees it.
LEMMA FlipOn ==
  ASSUME NEW r \in Runs, NEW w, NEW k \in Nat, k >= 1, Aims(r, w[k]),
         NEW m, DOMAIN m = Places(r), NEW x \in Places(r)
  PROVE  LET n == [m EXCEPT ![Place(r, w[k].va)] = Xor(@, {w[k].bit})] IN
         /\ DOMAIN n = Places(r)
         /\ m[x] = FlipsAt(r, w, k - 1, x) => n[x] = FlipsAt(r, w, k, x)
         /\ m[x] = FlipsAt(r, w, k, x) => n[x] = FlipsAt(r, w, k - 1, x)
<1> DEFINE j == k - 1
           n == [m EXCEPT ![Place(r, w[k].va)] = Xor(@, {w[k].bit})]
<1>1. j \in Nat /\ j + 1 = k
  OBVIOUS
<1>2. w[j + 1].bit \in 0..7
  BY <1>1 DEF Aims
<1> HIDE DEF j
<1>3. FlipsAt(r, w, k, x) =
        IF Place(r, w[k].va) = x THEN Xor(FlipsAt(r, w, j, x), {w[k].bit})
                                 ELSE FlipsAt(r, w, j, x)
  BY <1>1, <1>2, OneMoreFlip
<1>4. /\ DOMAIN n = Places(r)
      /\ n[x] = IF Place(r, w[k].va) = x THEN Xor(m[x], {w[k].bit}) ELSE m[x]
  OBVIOUS
<1> HIDE DEF n
<1>5. Xor(Xor(FlipsAt(r, w, j, x), {w[k].bit}), {w[k].bit}) = FlipsAt(r, w, j, x)
  BY XorTwice
<1>6. /\ m[x] = FlipsAt(r, w, j, x) => n[x] = FlipsAt(r, w, k, x)
      /\ m[x] = FlipsAt(r, w, k, x) => n[x] = FlipsAt(r, w, j, x)
  BY <1>3, <1>4, <1>5
<1> QED BY <1>4, <1>6 DEF j, n

\* The guard fails only where two bytes of the allocation are one.
LEMMA GuardTells ==
  ASSUME run \in Runs, NEW a \in load_allocations(run.allocs), NEW va \in Bytes(a), NEW bit,
         NEW m, NEW n, DOMAIN m = Places(run),
         n = [m EXCEPT ![Place(run, va)] = Xor(@, {bit})],
         \A x, y \in Bytes(a) : Physical(x) = Physical(y) => x = y
  PROVE  GuardHolds(Content(m, a), Content(n, a), va, bit)
<1>1. \A x \in Bytes(a) : Physical(x) = Place(run, x) /\ Place(run, x) \in DOMAIN m
  BY Mapped, WhereItIs
<1>2. \A x \in Bytes(a) : n[Physical(x)] = IF x = va THEN Xor(m[Physical(x)], {bit})
                                                     ELSE m[Physical(x)]
  BY <1>1
<1> QED BY <1>2 DEF GuardHolds, Content

\* The descriptor that the runner finds for a target.
LEMMA TargetIs ==
  ASSUME run \in Runs, Grown(run, registry), NEW t, Aims(run, t)
  PROVE  \E o \in load_allocations(run.allocs) :
           /\ Descriptors(t.id) = {o} /\ Owns(run, o, t)
           /\ \A a : Owns(run, a, t) => a = o
           /\ o.base + t.offset = t.va /\ t.va \in Bytes(o)
           /\ Physical(t.va) = Place(run, t.va) /\ Place(run, t.va) \in Places(run)
           /\ t.offset \in Nat /\ t.offset < o.size
<1>1. PICK o : Owns(run, o, t)
  BY DEF Aims
<1>2. t.offset \in Nat
  BY DEF Aims
<1>3. \A a : Owns(run, a, t) => Descriptors(t.id) = {a}
  <2> TAKE a
  <2> HAVE Owns(run, a, t)
  <2> QED BY <1>2, OwnerIs DEF Descriptors
<1>4. Descriptors(t.id) = {o} /\ \A a : Owns(run, a, t) => a = o
  BY <1>1, <1>3
<1>5. t.va \in Bytes(o) /\ Place(run, t.va) \in Places(run)
  BY <1>1, <1>2, OwnerIs
<1> QED BY <1>1, <1>2, <1>4, <1>5, WhereItIs DEF Owns

\* One more flip, with its record; only an aliased allocation stops it.
LEMMA StepFlip == DualInv /\ FlipTarget => DualInv'
<1> SUFFICES ASSUME DualInv, FlipTarget PROVE DualInv'
  OBVIOUS
<1> USE DEF DualInv
<1> DEFINE t == work[next]
<1>0. /\ registry = run.allocs /\ Grown(run, registry) /\ run \in Runs /\ DOMAIN mem = Places(run)
      /\ Aiming(run, work) /\ RecordsTell(run, work, records)
      /\ next \in 1 .. Len(work) + 1 /\ Len(records) = next - 1 /\ rewritten = 0
      /\ Holds(run, work, next - 1, mem) /\ IsSeq(records) /\ next <= Len(work) /\ next \in Nat
      /\ thrown = "no" /\ verdict = "none" /\ Len(work) \in Nat /\ next >= 1
  BY DEF Copied, Shape, Quiet, Flipped, FlipTarget, IsSeq
<1>1. Aims(run, t)
  BY <1>0 DEF Aiming
<1>2. PICK o \in load_allocations(run.allocs) :
        /\ Descriptors(t.id) = {o} /\ Owns(run, o, t)
        /\ \A a : Owns(run, a, t) => a = o
        /\ o.base + t.offset = t.va /\ t.va \in Bytes(o)
        /\ Physical(t.va) = Place(run, t.va) /\ Place(run, t.va) \in Places(run)
        /\ t.offset \in Nat /\ t.offset < o.size
  BY <1>0, <1>1, TargetIs
<1> DEFINE e == G4TargetRecord(t, o, mem')
<1>3. /\ mem' = [mem EXCEPT ![Place(run, t.va)] = Xor(@, {t.bit})]
      /\ records' = Append(records, e)
      /\ \/ next' = next + 1 /\ pc' = pc /\ thrown' = thrown
         \/ /\ pc' = "thrown" /\ thrown' = "target" /\ next' = next
            /\ ~(/\ GuardHolds(Content(mem, o), Content(mem', o), t.va, t.bit)
                 /\ gpu_va_to_allocation_bit(registry, o.device, t.va) =
                      {[id |-> t.id, offset |-> t.offset]})
  BY <1>2 DEF FlipTarget, flip_device_bit, Throw
<1>4. /\ DOMAIN mem' = Places(run)
      /\ Holds(run, work, next, mem')
  <2>1. \A x \in Places(run) : mem[x] = FlipsAt(run, work, next - 1, x)
    BY <1>0 DEF Holds
  <2>2. \A x \in Places(run) : mem'[x] = FlipsAt(run, work, next, x)
    BY ZenonT(40), <1>0, <1>1, <1>3, <2>1, FlipOn
  <2> QED BY <1>0, <1>3, <2>2 DEF Holds
<1>5. /\ e.target = t
      /\ e.before = FlipsAt(run, work, next - 1, Place(run, t.va))
      /\ e.after = FlipsAt(run, work, next, Place(run, t.va))
      /\ \A a : Owns(run, a, t) =>
           e.before_full = [x \in Bytes(a) |-> FlipsAt(run, work, next - 1, Place(run, x))]
  <2>1. /\ e.target = t /\ e.before_full = Content(mem, o)
        /\ e.before = mem[Place(run, t.va)] /\ e.after = mem'[Place(run, t.va)]
    BY <1>2 DEF G4TargetRecord
  <2>2. \A x \in Bytes(o) : mem[Physical(x)] = FlipsAt(run, work, next - 1, Place(run, x))
    BY <1>0, Mapped, WhereItIs DEF Holds
  <2>3. Content(mem, o) = [x \in Bytes(o) |-> FlipsAt(run, work, next - 1, Place(run, x))]
    BY <2>2 DEF Content
  <2> HIDE DEF e
  <2> QED BY <1>0, <1>2, <1>4, <2>1, <2>3 DEF Holds
<1> HIDE DEF e
<1>6. IsSeq(records') /\ Len(records') = next /\ RecordsTell(run, work, records')
  <2>1. /\ IsSeq(records') /\ Len(records') = Len(records) + 1
        /\ \A i \in 1 .. Len(records) : records'[i] = records[i]
        /\ records'[Len(records) + 1] = e
    BY <1>0, <1>3, AppendIsSeq
  <2>2. records'[next] = e /\ Len(records') = next
        /\ \A i \in 1 .. next : i = next \/ i \in 1 .. Len(records)
    BY <1>0, <2>1
  <2>3. ASSUME NEW i \in 1 .. next
        PROVE  /\ records'[i].target = work[i]
               /\ records'[i].before = FlipsAt(run, work, i - 1, Place(run, work[i].va))
               /\ records'[i].after = FlipsAt(run, work, i, Place(run, work[i].va))
               /\ \A a : Owns(run, a, work[i]) =>
                    records'[i].before_full =
                      [x \in Bytes(a) |-> FlipsAt(run, work, i - 1, Place(run, x))]
    <3>1. CASE i = next
      BY <1>5, <2>2, <3>1
    <3>2. CASE i \in 1 .. Len(records)
      <4>1. records'[i] = records[i]
        BY <2>1, <3>2
      <4> QED BY <1>0, <3>2, <4>1 DEF RecordsTell
    <3> QED BY <2>2, <3>1, <3>2
  <2> QED BY <2>1, <2>2, <2>3 DEF RecordsTell
<1>7. Shape'
  BY <1>3, <1>4, <1>6 DEF Shape, FlipTarget
<1>8. Copied'
  BY <1>0, <1>3 DEF Copied, FlipTarget
<1>9. Quiet'
  BY <1>0, <1>3 DEF Quiet, FlipTarget
<1>10. Flipped'
  <2>1. (next + 1) - 1 = next /\ next + 1 \in 1 .. Len(work) + 1
    BY <1>0
  <2> QED BY <1>0, <1>3, <1>4, <1>6, <2>1 DEF Flipped, FlipTarget
<1>11. ThrowsForAReason'
  <2>1. CASE thrown' = "no"
    BY <1>0, <2>1 DEF ThrowsForAReason, FlipTarget
  <2>2. CASE /\ thrown' = "target"
             /\ ~(/\ GuardHolds(Content(mem, o), Content(mem', o), t.va, t.bit)
                  /\ gpu_va_to_allocation_bit(registry, o.device, t.va) =
                       {[id |-> t.id, offset |-> t.offset]})
    <3>1. gpu_va_to_allocation_bit(registry, o.device, t.va) =
            {[id |-> t.id, offset |-> t.offset]}
      <4>1. IsRegistry(registry) /\ o.id = t.id
        BY <1>0, <1>2, RunAssumption DEF Owns
      <4> QED BY <1>0, <1>2, <4>1, BackAgain
    <3>2. ~GuardHolds(Content(mem, o), Content(mem', o), t.va, t.bit)
      BY <2>2, <3>1
    <3>3. \E x, y \in Bytes(o) : x # y /\ Physical(x) = Physical(y)
      BY <1>0, <1>2, <1>3, <3>2, GuardTells
    <3>4. AliasedAllocation
      BY <1>0, <3>3 DEF AliasedAllocation
    <3>5. AliasedAllocation'
      BY <3>4 DEF AliasedAllocation, FlipTarget, Physical, PageOf
    <3> QED BY <1>0, <2>2, <3>5 DEF ThrowsForAReason, FlipTarget
  <2> QED BY <1>0, <1>3, <2>1, <2>2
<1> QED BY <1>7, <1>8, <1>9, <1>10, <1>11

\* The end of the flips.
LEMMA StepAllFlipped == DualInv /\ AllFlipped => DualInv'
<1> SUFFICES ASSUME DualInv, AllFlipped PROVE DualInv'
  OBVIOUS
<1> USE DEF DualInv
<1>1. Shape'
  BY DEF Shape, AllFlipped
<1>2. Copied'
  BY DEF Copied, AllFlipped
<1>3. Quiet'
  BY DEF Quiet, AllFlipped
<1>4. Flipped'
  <2>1. Len(work) \in Nat
    BY DEF Shape, IsSeq
  <2>2. next = Len(work) + 1
    BY <2>1 DEF Flipped, AllFlipped
  <2>3. (next - 1) = Len(work)
    BY <2>1, <2>2
  <2> QED BY <2>2, <2>3 DEF Flipped, AllFlipped
<1>5. ThrowsForAReason'
  <2>1. thrown' = "no" /\ verdict' = "none"
    BY DEF Quiet, AllFlipped
  <2> QED BY <2>1 DEF ThrowsForAReason
<1> QED BY <1>1, <1>2, <1>3, <1>4, <1>5

\* The inference may write, or allocate, and leaves the records.
LEMMA StepInference == DualInv /\ InjectedInference => DualInv'
<1> SUFFICES ASSUME DualInv, InjectedInference PROVE DualInv'
  OBVIOUS
<1> USE DEF DualInv
<1>0. /\ registry = run.allocs /\ run \in Runs /\ DOMAIN mem = Places(run)
      /\ Aiming(run, work) /\ RecordsTell(run, work, records)
      /\ Len(records) = Len(work) /\ next = Len(work) + 1 /\ rewritten = 0
      /\ Holds(run, work, next - 1, mem) /\ Len(work) \in Nat
      /\ thrown = "no" /\ verdict = "none" /\ next' = Len(work) /\ pc' = "restore"
  BY DEF Copied, Shape, Quiet, Flipped, InjectedInference, IsSeq
<1>1. /\ DOMAIN mem' = Places(run)
      /\ rewritten' = 0 => mem' = mem
      /\ Grown(run, registry')
  <2>1. CASE UNCHANGED <<mem, registry, rewritten>>
    BY <1>0, <2>1 DEF Copied
  <2>2. CASE \E va \in EngineBytes, value \in EngineValues :
               /\ mem' = [mem EXCEPT ![Physical(va)] = value]
               /\ rewritten' = va
               /\ UNCHANGED registry
    <3>1. PICK va \in EngineBytes : rewritten' = va
      BY <2>2
    <3>2. \A a \in ToSet(registry) : a.base >= 1 /\ a.base \in Nat /\ inclusive_end(a) \in Nat
      BY <1>0, RunAssumption, Entries
    <3>3. va # 0
      BY <3>1, <3>2 DEF EngineBytes, Bytes
    <3>4. DOMAIN mem' = Places(run) /\ registry' = registry
      BY <1>0, <2>2
    <3> QED BY <1>0, <3>1, <3>3, <3>4 DEF Copied
  <2>3. CASE /\ registry' = add_allocation(registry, run.late)
             /\ UNCHANGED <<mem, rewritten>>
    BY <1>0, <2>3 DEF Grown, add_allocation
  <2> QED BY <2>1, <2>2, <2>3 DEF InjectedInference
<1>2. outcome' \in Outcomes
  <2>1. OutcomesOf(mem) \cup {"DUE_INVALID_OUTPUT"} \subseteq Outcomes
    BY DEF OutcomesOf, Outcomes
  <2> QED BY <2>1 DEF InjectedInference
<1>3. Shape'
  BY <1>0, <1>1 DEF Shape, InjectedInference
<1>4. Copied'
  BY <1>0, <1>1 DEF Copied, InjectedInference
<1>5. Quiet'
  BY <1>0 DEF Quiet, InjectedInference
<1>6. Flipped'
  <2>1. next - 1 = Len(work)
    BY <1>0
  <2>2. Holds(run, work, Len(work), mem)
    BY <1>0, <2>1
  <2>3. rewritten' = 0 => Holds(run, work, Len(work), mem')
    BY <1>1, <2>2
  <2>4. Back(run, work, Len(work), mem')
    <3>1. Len(work) + 1 .. Len(work) = {}
      BY <1>0
    <3> QED BY <3>1 DEF Back
  <2> QED BY <1>0, <1>2, <2>3, <2>4 DEF Flipped, InjectedInference
<1>7. ThrowsForAReason'
  <2>1. thrown' = "no" /\ verdict' = "none"
    BY <1>0 DEF InjectedInference
  <2> QED BY <2>1 DEF ThrowsForAReason
<1> QED BY <1>3, <1>4, <1>5, <1>6, <1>7

\* A flip taken back; only what the engine wrote stops it.
LEMMA StepRestore == DualInv /\ RestoreTarget => DualInv'
<1> SUFFICES ASSUME DualInv, RestoreTarget PROVE DualInv'
  OBVIOUS
<1> USE DEF DualInv
<1> DEFINE t == work[next]
           rec == records[next]
           k == next - 1
<1>0. /\ Grown(run, registry) /\ run \in Runs /\ DOMAIN mem = Places(run)
      /\ Aiming(run, work) /\ RecordsTell(run, work, records)
      /\ Len(records) = Len(work) /\ next <= Len(work) /\ next \in Nat /\ next >= 1
      /\ Back(run, work, next, mem) /\ outcome \in Outcomes
      /\ rewritten = 0 => Holds(run, work, next, mem)
      /\ thrown = "no" /\ verdict = "none" /\ Len(work) \in Nat
  BY DEF Copied, Shape, Quiet, Flipped, RestoreTarget, IsSeq
<1>1. Aims(run, t)
  BY <1>0 DEF Aiming
<1>2. PICK o \in load_allocations(run.allocs) :
        /\ Descriptors(t.id) = {o} /\ Owns(run, o, t)
        /\ \A a : Owns(run, a, t) => a = o
        /\ o.base + t.offset = t.va /\ t.va \in Bytes(o)
        /\ Physical(t.va) = Place(run, t.va) /\ Place(run, t.va) \in Places(run)
        /\ t.offset \in Nat /\ t.offset < o.size
  BY <1>0, <1>1, TargetIs
<1>3. /\ rec.target = t
      /\ rec.before = FlipsAt(run, work, k, Place(run, t.va))
      /\ rec.before_full = [x \in Bytes(o) |-> FlipsAt(run, work, k, Place(run, x))]
  BY <1>0, <1>2 DEF RecordsTell
<1> HIDE DEF rec
<1>4. /\ mem' = [mem EXCEPT ![Place(run, t.va)] = Xor(@, {t.bit})]
      /\ \/ next' = k /\ pc' = pc /\ thrown' = thrown /\ Restored(rec, o, mem')
         \/ pc' = "thrown" /\ thrown' = "restore" /\ next' = next /\ ~Restored(rec, o, mem')
  BY <1>2, <1>3 DEF RestoreTarget, flip_device_bit, Throw, ToRestore, rec
<1> HIDE DEF t
<1>5. DOMAIN mem' = Places(run)
  BY <1>0, <1>4
<1>6. \A x \in Places(run) :
        mem[x] = FlipsAt(run, work, next, x) => mem'[x] = FlipsAt(run, work, k, x)
  BY ZenonT(40), <1>0, <1>1, <1>4, FlipOn DEF t
<1>7. rewritten = 0 => Holds(run, work, k, mem')
  BY <1>0, <1>6 DEF Holds
<1>8. Holds(run, work, k, mem') => Restored(rec, o, mem')
  <2> SUFFICES ASSUME Holds(run, work, k, mem') PROVE Restored(rec, o, mem')
    OBVIOUS
  <2>1. \A x \in Bytes(o) : mem'[Physical(x)] = FlipsAt(run, work, k, Place(run, x))
    BY <1>0, Mapped, WhereItIs DEF Holds
  <2>2. Content(mem', o) = [x \in Bytes(o) |-> FlipsAt(run, work, k, Place(run, x))]
    BY <2>1 DEF Content
  <2>3. o.base + rec.target.offset = t.va
    BY <1>2, <1>3 DEF t
  <2>4. mem'[Physical(t.va)] = FlipsAt(run, work, k, Place(run, t.va))
    BY <1>2, <2>1
  <2> QED BY <1>3, <2>2, <2>3, <2>4 DEF Restored
<1>9. Restored(rec, o, mem') => Back(run, work, k, mem')
  <2> SUFFICES ASSUME Restored(rec, o, mem'),
                      NEW i \in k + 1 .. Len(work), NEW a, Owns(run, a, work[i]),
                      NEW va \in Bytes(a)
               PROVE  mem'[Place(run, va)] = FlipsAt(run, work, k, Place(run, va))
    BY DEF Back
  <2>1. CASE i = next
    <3>1. a = o
      BY <1>2, <2>1 DEF t
    <3>2. Content(mem', o) = [x \in Bytes(o) |-> FlipsAt(run, work, k, Place(run, x))]
      BY <1>3 DEF Restored
    <3>3. Content(mem', o)[va] = mem'[Place(run, va)]
      BY <3>1, WhereItIs DEF Content
    <3> QED BY <3>1, <3>2, <3>3
  <2>2. CASE i \in next + 1 .. Len(work)
    <3>1. mem[Place(run, va)] = FlipsAt(run, work, next, Place(run, va))
      BY <1>0, <2>2 DEF Back
    <3>2. Place(run, va) \in Places(run)
      BY <1>0, Mapped DEF Owns
    <3> QED BY <1>6, <3>1, <3>2
  <2> QED BY <1>0, <2>1, <2>2
<1>10. Shape'
  BY <1>0, <1>4, <1>5 DEF Shape, RestoreTarget
<1>11. Copied'
  BY <1>0, <1>4 DEF Copied, RestoreTarget
<1>12. Quiet'
  BY <1>0, <1>4 DEF Quiet, RestoreTarget
<1>13. Flipped'
  <2>1. k <= Len(work)
    BY <1>0
  <2> HIDE DEF k
  <2> QED BY <1>0, <1>4, <1>7, <1>9, <2>1 DEF Flipped, RestoreTarget
<1>14. ThrowsForAReason'
  <2>1. thrown' = "restore" => rewritten # 0
    BY <1>0, <1>4, <1>7, <1>8
  <2>2. thrown' \in {"no", "restore"} /\ verdict' = "none" /\ rewritten' = rewritten
    BY <1>0, <1>4 DEF RestoreTarget
  <2> QED BY <2>1, <2>2 DEF ThrowsForAReason
<1> QED BY <1>10, <1>11, <1>12, <1>13, <1>14

\* Memory that is restored computes what it computed.
LEMMA StepSanity == DualInv /\ SanityInference => DualInv'
<1> SUFFICES ASSUME DualInv, SanityInference PROVE DualInv'
  OBVIOUS
<1> USE DEF DualInv
<1>0. /\ next = 0 /\ Back(run, work, 0, mem) /\ outcome \in Outcomes
      /\ rewritten = 0 => Holds(run, work, 0, mem)
      /\ thrown = "no" /\ verdict = "none" /\ DOMAIN mem = Places(run)
  BY DEF Quiet, Flipped, Shape, SanityInference
<1>1. \/ pc' = "written" /\ thrown' = thrown /\ trouble # "sticky"
      \/ pc' = "thrown" /\ thrown' = "sanity" /\ rewritten # 0
      \/ pc' = "thrown" /\ thrown' = "file" /\ trouble = "disk"
  <2>1. CASE WriteResults
    BY <2>1 DEF WriteResults, Throw, SanityInference, CudaWorks
  <2>2. CASE /\ pc' = "thrown" /\ thrown' = "sanity"
             /\ \E again \in OutcomesOf(mem) : again # "BENIGN"
    <3>1. ~(\A x \in DOMAIN mem : mem[x] = {})
      BY <2>2 DEF OutcomesOf
    <3>2. ~Holds(run, work, 0, mem)
      BY <1>0, <3>1, NoFlips DEF Holds
    <3> QED BY <1>0, <2>2, <3>2
  <2> QED BY <2>1, <2>2 DEF SanityInference, Throw
<1>2. Shape'
  BY <1>1 DEF Shape, SanityInference
<1>3. Copied'
  BY <1>1 DEF Copied, SanityInference
<1>4. Quiet'
  BY <1>0, <1>1 DEF Quiet, SanityInference
<1>5. Flipped'
  BY <1>0, <1>1 DEF Flipped, SanityInference
<1>6. ThrowsForAReason'
  <2>1. thrown' \in {"no", "sanity", "file"} /\ verdict' = "none"
        /\ rewritten' = rewritten /\ trouble' = trouble
    BY <1>0, <1>1 DEF SanityInference
  <2> QED BY <1>0, <1>1, <2>1 DEF ThrowsForAReason
<1> QED BY <1>2, <1>3, <1>4, <1>5, <1>6

\* A failed call that nothing catches ends the runner, wherever its flip stands.
LEMMA StepCudaThrows == DualInv /\ CudaThrows => DualInv'
<1> SUFFICES ASSUME DualInv, CudaThrows PROVE DualInv'
  OBVIOUS
<1> USE DEF DualInv, Throw
<1>0. pc' = "thrown" /\ thrown' = "cuda" /\ thrown = "no" /\ trouble' # "no" /\ verdict' = "none"
  BY DEF Quiet, CudaThrows, CudaWorks
<1>1. Shape'
  <2>1. DOMAIN mem' = DOMAIN mem
    BY DEF CudaThrows, flip_device_bit
  <2> QED BY <1>0, <2>1 DEF Shape, CudaThrows
<1>2. Copied'
  <2>1. pc = "clean" => ~byScript /\ work = <<>>
    BY DEF Quiet
  <2> QED BY <1>0, <2>1 DEF Copied, CudaThrows
<1>3. Quiet'
  BY <1>0 DEF Quiet, CudaThrows
<1>4. Flipped'
  BY <1>0 DEF Flipped
<1>5. ThrowsForAReason'
  BY <1>0 DEF ThrowsForAReason
<1> QED BY <1>1, <1>2, <1>3, <1>4, <1>5

\* What fails around the runner changes nothing in it.
LEMMA StepFails == DualInv /\ (\E what \in Troubles : Fails(what)) => DualInv'
<1> SUFFICES ASSUME DualInv, NEW what \in Troubles, Fails(what) PROVE DualInv'
  OBVIOUS
<1> USE DEF DualInv, Fails
<1>1. Shape'
  BY DEF Shape
<1>2. Copied'
  BY DEF Copied
<1>3. Quiet'
  BY DEF Quiet
<1>4. Flipped'
  BY DEF Flipped
<1>5. ThrowsForAReason'
  <2>1. thrown' = "no" /\ verdict' = "none"
    BY DEF Quiet
  <2> QED BY <2>1 DEF ThrowsForAReason
<1> QED BY <1>1, <1>2, <1>3, <1>4, <1>5

\* The records of a run that passed satisfy the script.
LEMMA StepJudge == DualInv /\ JudgeRun => DualInv'
<1> SUFFICES ASSUME DualInv, JudgeRun PROVE DualInv'
  OBVIOUS
<1> USE DEF DualInv
<1>1. pc = "written" => verify_result_rows
  <2> SUFFICES ASSUME pc = "written" PROVE verify_result_rows
    OBVIOUS
  <2>0. /\ Chosen(run, work) /\ outcome \in Outcomes
        /\ Aiming(run, work) /\ RecordsTell(run, work, records)
        /\ Len(records) = Len(work) /\ IsSeq(records) /\ IsSeq(work)
    BY DEF Shape, Quiet, Flipped, JudgeRun
  <2>1. Len(work) = 2 /\ DOMAIN work = 1 .. 2 /\ DOMAIN records = 1 .. 2 /\ 1 .. 2 = {1, 2}
    BY <2>0 DEF Chosen, IsSeq
  <2>2. \A i \in 1 .. 2 :
          /\ records[i].target = work[i]
          /\ records[i].after = Xor(records[i].before, {work[i].bit})
    <3> TAKE i \in 1 .. 2
    <3> DEFINE k == i - 1
               x == Place(run, work[i].va)
    <3>1. /\ records[i].target = work[i]
          /\ records[i].before = FlipsAt(run, work, k, x)
          /\ records[i].after = FlipsAt(run, work, i, x)
      BY <2>0, <2>1 DEF RecordsTell
    <3>2. work[i].bit \in 0..7
      BY <2>0, <2>1 DEF Aiming, Aims
    <3>3. k \in Nat /\ k + 1 = i
      OBVIOUS
    <3> HIDE DEF k, x
    <3>4. x = Place(run, work[i].va)
      BY DEF x
    <3>5. FlipsAt(run, work, k + 1, x) = Xor(FlipsAt(run, work, k, x), {work[i].bit})
      BY <3>2, <3>3, <3>4, OneMoreFlip
    <3> QED BY <3>1, <3>3, <3>5
  <2>3. Cardinality({r.target.target_id : r \in ToSet(records)}) = 2
    <3> DEFINE x == work[1].target_id
               y == work[2].target_id
    <3>1. ToSet(records) = {records[1], records[2]}
      BY <2>1 DEF ToSet
    <3>2. {r.target.target_id : r \in ToSet(records)} = {x, y}
      BY <2>1, <2>2, <3>1
    <3>3. x # y
      BY <2>0 DEF Chosen
    <3> HIDE DEF x, y
    <3>4. IsFiniteSet({x}) /\ Cardinality({x}) = 1
      BY FS_Singleton
    <3>5. Cardinality({x} \cup {y}) = 1 + 1
      BY <3>3, <3>4, FS_AddElement
    <3>6. {x} \cup {y} = {x, y}
      OBVIOUS
    <3> DEFINE ids == {r.target.target_id : r \in ToSet(records)}
    <3>7. ids = {x, y}
      BY <3>2
    <3>8. Cardinality({x, y}) = 2
      BY <3>5, <3>6
    <3> HIDE DEF ids
    <3>9. Cardinality(ids) = 2
      BY <3>7, <3>8
    <3> QED BY <3>9 DEF ids
  <2> QED BY <2>0, <2>1, <2>2, <2>3 DEF verify_result_rows
<1>2. verdict' = "FAIL_CLOSED" => pc = "written" /\ registry # gate_copy
  BY <1>1 DEF JudgeRun
<1>3. registry # gate_copy => Len(registry) > Len(gate_copy)
  <2>1. gate_copy = run.allocs /\ Grown(run, registry) /\ IsSeq(run.allocs)
    <3>1. run \in Runs /\ Grown(run, registry)
      BY DEF Shape, Copied
    <3>2. gate_copy = run.allocs
      BY DEF Copied, JudgeRun
    <3> QED BY <3>1, <3>2, RunAssumption DEF IsRegistry, IsSeq
  <2>2. registry # gate_copy => registry = Append(gate_copy, run.late)
    BY <2>1 DEF Grown
  <2>3. /\ Len(Append(gate_copy, run.late)) = Len(gate_copy) + 1
        /\ Len(gate_copy) \in Nat
    BY <2>1, AppendIsSeq
  <2> QED BY <2>2, <2>3
<1>4. verdict' \notin {"REFUSED", "none"} /\ verdict = "none"
  BY DEF JudgeRun
<1>5. Shape'
  BY DEF Shape, JudgeRun
<1>6. Copied'
  BY DEF Copied, JudgeRun
<1>7. Quiet'
  BY <1>4 DEF Quiet, JudgeRun
<1>8. Flipped'
  BY DEF Flipped, JudgeRun
<1>9. ThrowsForAReason'
  <2>1. AliasedAllocation' <=> AliasedAllocation
    BY DEF AliasedAllocation, JudgeRun, Physical, PageOf
  <2> QED BY <1>2, <1>3, <2>1 DEF ThrowsForAReason, JudgeRun
<1> QED BY <1>5, <1>6, <1>7, <1>8, <1>9

-----------------------------------------------------------------------------
(* The validation of the maps.                                             *)

\* An element's bits lie in its bytes, and lead back to it.
LEMMA ElementBits ==
  ASSUME NEW size \in {1, 4}, NEW count \in Nat, NEW element \in Nat, NEW bit \in Nat,
         element < count, bit < size * 8
  PROVE  LET byte_offset == element * size + (bit \div 8) IN
         /\ byte_offset \in Nat /\ byte_offset < count * size /\ bit % 8 \in 0..7
         /\ byte_offset \div size = element
         /\ (byte_offset % size) * 8 + (bit % 8) = bit
<1>1. CASE size = 1
  <2>1. bit \div 8 = 0 /\ bit % 8 = bit
    BY <1>1
  <2> QED BY <1>1, <2>1
<1>2. CASE size = 4
  <2> DEFINE q == bit \div 8
  <2>1. q \in 0 .. 3 /\ bit = q * 8 + (bit % 8) /\ bit % 8 \in 0..7
    BY <1>2
  <2> HIDE DEF q
  <2>2. (element * 4 + q) \div 4 = element /\ (element * 4 + q) % 4 = q
    BY <2>1
  <2>3. element * 4 + q \in Nat /\ element * 4 + q < count * 4
    BY <2>1
  <2> QED BY <1>2, <2>1, <2>2, <2>3 DEF q
<1> QED BY <1>1, <1>2

\* The bindings of a run: the bit that the forward map answers lies in the
\* allocation of that name, and the reverse map leads back to it.
LEMMA TensorBack ==
  ASSUME NEW r \in Runs, NEW a \in load_allocations(r.allocs),
         NEW element \in Nat, NEW bit \in Nat,
         NEW mapped \in tensor_bit_to_gpu_va(BindTensors(r.allocs), a.label, element, bit)
  PROVE  /\ mapped.byte_offset \in Nat /\ mapped.byte_offset < a.size
         /\ mapped.va = a.base + mapped.byte_offset
         /\ gpu_va_to_tensor_bit(BindTensors(r.allocs), mapped.va, mapped.bit_in_byte) = {mapped}
<1> DEFINE ts == BindTensors(r.allocs)
           bound == ToSet(ts)
<1>1. \A t \in bound :
        /\ t.base \in Nat /\ t.dtype \in {"uint8", "int8", "float32", "int32"}
        /\ tensor_element_count(t) \in Nat
        /\ \A u \in bound : u = t \/ TensorEnd(u) <= t.base \/ TensorEnd(t) <= u.base
        /\ \A b \in load_allocations(r.allocs) : b.label = t.name =>
             b.base = t.base /\ tensor_required_bytes(t) <= b.size
  BY BindAssumption
<1> HIDE DEF ts
<1>2. PICK t \in bound : /\ t.name = a.label /\ element < tensor_element_count(t)
                         /\ bit < dtype_size_bytes(t) * 8
                         /\ mapped = ForwardAddress(t, element, bit)
  BY DEF tensor_bit_to_gpu_va, ts
<1> HIDE DEF bound
<1> DEFINE size == dtype_size_bytes(t)
           count == tensor_element_count(t)
           offset == element * size + (bit \div 8)
<1>3. size \in {1, 4} /\ count \in Nat /\ t.base \in Nat /\ a.size \in Nat
  <2>1. size \in {1, 4}
    BY <1>1, <1>2 DEF dtype_size_bytes, ElementBytes
  <2>2. a.size \in Nat
    BY Entries, RunAssumption DEF load_allocations
  <2> QED BY <1>1, <2>1, <2>2
<1>4. a.base = t.base /\ count * size <= a.size /\ TensorEnd(t) = t.base + count * size
  BY <1>1, <1>2 DEF tensor_required_bytes, TensorEnd
<1>5. /\ mapped.byte_offset = offset /\ mapped.bit_in_byte = bit % 8
      /\ mapped.va = t.base + offset
      /\ mapped = [tensor |-> t.name, element |-> element, element_bit |-> bit,
                   byte_offset |-> offset, bit_in_byte |-> bit % 8, va |-> t.base + offset]
  BY <1>2 DEF ForwardAddress
<1> HIDE DEF size, count
<1>6. /\ offset \in Nat /\ offset < count * size /\ bit % 8 \in 0..7
      /\ offset \div size = element
      /\ (offset % size) * 8 + (bit % 8) = bit
  <2>1. element < count /\ bit < size * 8
    BY <1>2 DEF size, count
  <2> QED BY <1>3, <2>1, ElementBits
<1>7. count * size \in Nat
  BY <1>3
<1> HIDE DEF offset
<1>8. HoldsAddress(t, mapped.va)
  BY <1>3, <1>4, <1>5, <1>6, <1>7 DEF HoldsAddress
<1>9. \A u \in bound : HoldsAddress(u, mapped.va) => u = t
  <2> TAKE u \in bound
  <2> HAVE HoldsAddress(u, mapped.va)
  <2>1. u = t \/ TensorEnd(u) <= t.base \/ TensorEnd(t) <= u.base
    BY <1>1, <1>2
  <2>2. u.base \in Nat /\ u.base <= mapped.va /\ mapped.va < TensorEnd(u)
        /\ mapped.va \in Nat /\ t.base <= mapped.va /\ mapped.va < TensorEnd(t)
    BY <1>1, <1>3, <1>5, <1>6, <1>8 DEF HoldsAddress
  <2>3. TensorEnd(t) \in Int
    BY <1>3, <1>4, <1>7
  <2>4. TensorEnd(u) \in Int
    <3>1. dtype_size_bytes(u) \in {1, 4} /\ tensor_element_count(u) \in Nat
      BY <1>1 DEF dtype_size_bytes, ElementBytes
    <3> QED BY <2>2, <3>1 DEF TensorEnd, tensor_required_bytes
  <2> QED BY <1>3, <2>1, <2>2, <2>3, <2>4
<1>10. ReverseAddress(t, mapped.va, mapped.bit_in_byte) = mapped
  <2>1. mapped.va - t.base = offset
    BY <1>3, <1>5, <1>6
  <2>2. ReverseAddress(t, mapped.va, mapped.bit_in_byte) =
          [tensor |-> t.name, element |-> offset \div size,
           element_bit |-> (offset % size) * 8 + mapped.bit_in_byte,
           byte_offset |-> offset, bit_in_byte |-> mapped.bit_in_byte, va |-> mapped.va]
    BY <2>1 DEF ReverseAddress, size
  <2> QED BY <1>5, <1>6, <2>2
<1>11. {u \in bound : HoldsAddress(u, mapped.va) /\ mapped.bit_in_byte < 8} = {t}
  BY <1>2, <1>5, <1>6, <1>8, <1>9
<1>12. gpu_va_to_tensor_bit(ts, mapped.va, mapped.bit_in_byte) = {mapped}
  BY <1>10, <1>11 DEF gpu_va_to_tensor_bit, bound
<1> QED BY <1>3, <1>4, <1>5, <1>6, <1>7, <1>12 DEF ts

\* The single flip of the validation, which only an aliased buffer stops.
LEMMA StepValidate ==
  DualInv /\ (\E element \in 0 .. 1, bit \in 0 .. 31 : ValidateMaps(element, bit)) => DualInv'
<1> SUFFICES ASSUME DualInv, NEW element \in 0 .. 1, NEW bit \in 0 .. 31,
                    ValidateMaps(element, bit)
             PROVE  DualInv'
  OBVIOUS
<1> USE DEF DualInv
<1>0. /\ registry = run.allocs /\ run \in Runs /\ DOMAIN mem = Places(run)
      /\ tensors = BindTensors(run.allocs) /\ Grown(run, registry)
      /\ records = <<>> /\ work = <<>>
      /\ thrown = "no" /\ verdict = "none" /\ rows' = rows
  BY DEF Copied, Shape, Quiet, ValidateMaps
<1>1. IsRegistry(registry)
  BY <1>0, RunAssumption
<1>2. PICK a \in ToSet(registry) :
      \E mapped \in tensor_bit_to_gpu_va(tensors, "TENSOR:data", element, bit) :
        LET va == a.base + mapped.byte_offset IN
        /\ a.active /\ a.label = "TENSOR:data"
        /\ mem' = flip_device_bit(va, mapped.bit_in_byte)
        /\ IF /\ va = mapped.va
              /\ GuardHolds(Content(mem, a), Content(mem', a), va, mapped.bit_in_byte)
              /\ gpu_va_to_tensor_bit(tensors, va, mapped.bit_in_byte) = {mapped}
              /\ gpu_va_to_allocation_bit(registry, a.device, va) =
                   {[id |-> a.id, offset |-> mapped.byte_offset]}
              /\ allocation_bit_to_gpu_va(registry, a.id, mapped.byte_offset) = {va}
           THEN \E injected \in OutcomesOf(mem') :
                  IF injected = "DUE_INVALID_OUTPUT" THEN Throw("output")
                                                     ELSE WriteResults
           ELSE Throw("validation")
  BY DEF ValidateMaps
<1>3. PICK mapped \in tensor_bit_to_gpu_va(tensors, "TENSOR:data", element, bit) :
        LET va == a.base + mapped.byte_offset IN
        /\ a.active /\ a.label = "TENSOR:data"
        /\ mem' = flip_device_bit(va, mapped.bit_in_byte)
        /\ IF /\ va = mapped.va
              /\ GuardHolds(Content(mem, a), Content(mem', a), va, mapped.bit_in_byte)
              /\ gpu_va_to_tensor_bit(tensors, va, mapped.bit_in_byte) = {mapped}
              /\ gpu_va_to_allocation_bit(registry, a.device, va) =
                   {[id |-> a.id, offset |-> mapped.byte_offset]}
              /\ allocation_bit_to_gpu_va(registry, a.id, mapped.byte_offset) = {va}
           THEN \E injected \in OutcomesOf(mem') :
                  IF injected = "DUE_INVALID_OUTPUT" THEN Throw("output")
                                                     ELSE WriteResults
           ELSE Throw("validation")
  BY <1>2
<1> DEFINE offset == mapped.byte_offset
           va == a.base + offset
<1>4. a \in load_allocations(registry) /\ a.label = "TENSOR:data"
  BY <1>3 DEF load_allocations
<1>5. /\ offset \in Nat /\ offset < a.size /\ mapped.va = va
      /\ gpu_va_to_tensor_bit(tensors, va, mapped.bit_in_byte) = {mapped}
  <2>1. element \in Nat /\ bit \in Nat
    OBVIOUS
  <2> QED BY <1>0, <1>4, <2>1, TensorBack
<1>6. DOMAIN mem' = Places(run)
  BY <1>0, <1>3 DEF flip_device_bit
<1>7. \/ pc' = "written" /\ thrown' = "no"
      \/ pc' = "thrown" /\ thrown' \in {"output", "file"}
      \/ pc' = "thrown" /\ thrown' = "validation" /\ AliasedAllocation
  <2>1. gpu_va_to_allocation_bit(registry, a.device, va) = {[id |-> a.id, offset |-> offset]}
    BY <1>1, <1>4, <1>5, BackAgain
  <2>2. allocation_bit_to_gpu_va(registry, a.id, offset) = {va}
    BY <1>1, <1>4, <1>5, Forward
  <2>3. ASSUME ~GuardHolds(Content(mem, a), Content(mem', a), va, mapped.bit_in_byte)
        PROVE  AliasedAllocation
    <3>1. mem' = [mem EXCEPT ![Place(run, va)] = Xor(@, {mapped.bit_in_byte})]
      BY <1>3, WhereItIs DEF flip_device_bit
    <3>2. va \in Bytes(a)
      <4>1. a.base \in Nat /\ a.size \in Nat /\ Bytes(a) = a.base .. a.base + a.size - 1
        BY <1>1, <1>4, Entries DEF load_allocations
      <4> QED BY <1>5, <4>1
    <3> HIDE DEF va
    <3>3. ~(\A x, y \in Bytes(a) : Physical(x) = Physical(y) => x = y)
      BY <1>0, <1>4, <2>3, <3>1, <3>2, GuardTells
    <3> QED BY <1>4, <3>3 DEF AliasedAllocation
  <2> HIDE DEF va, offset
  <2>4. \/ pc' = "written" /\ thrown' = thrown
        \/ pc' = "thrown" /\ thrown' \in {"output", "file"}
        \/ /\ pc' = "thrown" /\ thrown' = "validation"
           /\ ~GuardHolds(Content(mem, a), Content(mem', a), va, mapped.bit_in_byte)
    BY <1>3, <1>5, <2>1, <2>2 DEF Throw, WriteResults, va, offset
  <2> QED BY <1>0, <2>3, <2>4
<1>8. Shape'
  BY <1>6, <1>7 DEF Shape, ValidateMaps
<1>9. Copied'
  <2>1. ~byScript /\ gate_copy' = gate_copy /\ registry' = registry /\ run' = run
    BY DEF Quiet, ValidateMaps
  <2>2. rows' # {} => Joined(run, rows')
    BY <1>0 DEF Copied
  <2> QED BY <1>0, <1>7, <2>1, <2>2 DEF Copied, ValidateMaps
<1>10. Quiet'
  <2>1. ~byScript /\ trouble # "sticky"
    BY DEF Quiet, ValidateMaps, CudaWorks
  <2> QED BY <1>0, <1>7, <2>1 DEF Quiet, ValidateMaps
<1>11. Flipped'
  <2>1. ~byScript
    BY DEF Quiet, ValidateMaps
  <2>2. /\ Aiming(run, work) /\ RecordsTell(run, work, records) /\ Back(run, work, 0, mem')
        /\ Len(records) = Len(work)
    BY <1>0, EmptyIsSeq DEF Aiming, RecordsTell, Back
  <2> QED BY <1>7, <2>1, <2>2 DEF Flipped, ValidateMaps
<1>12. ThrowsForAReason'
  <2>1. AliasedAllocation' <=> AliasedAllocation
    BY DEF AliasedAllocation, ValidateMaps, Physical, PageOf
  <2>2. thrown' \in {"no", "output", "file", "validation"} /\ verdict' = "none" /\ ~byScript'
    BY <1>0, <1>7 DEF Quiet, ValidateMaps
  <2> QED BY <1>7, <2>1, <2>2 DEF ThrowsForAReason
<1> QED BY <1>8, <1>9, <1>10, <1>11, <1>12

-----------------------------------------------------------------------------
\* A step that changes nothing.
LEMMA Stays == DualInv /\ UNCHANGED vars => DualInv'
<1> SUFFICES ASSUME DualInv, UNCHANGED vars PROVE DualInv'
  OBVIOUS
<1> USE DEF DualInv, vars
<1>1. Shape'
  BY DEF Shape
<1>2. Copied'
  BY DEF Copied
<1>3. Quiet'
  BY DEF Quiet
<1>4. Flipped'
  BY DEF Flipped
<1>5. ThrowsForAReason'
  BY DEF ThrowsForAReason, AliasedAllocation, Physical, PageOf
<1> QED BY <1>1, <1>2, <1>3, <1>4, <1>5

\* The invariant of the chain: which flips memory holds at each step, on what
\* registry and what snapshot.
THEOREM ChainInvariant == Spec => []DualInv
<1>1. Init => DualInv
  BY Starts
<1>2. DualInv /\ [Next]_vars => DualInv'
  BY StepValidate, StepGate, StepSnapshot, StepSelect, StepByHand, StepPreFlight, StepFlip,
     StepAllFlipped, StepInference, StepRestore, StepSanity, StepJudge, StepTimesOut,
     StepCudaThrows, StepFails, Stays
     DEF Next
<1> QED BY <1>1, <1>2, PTL DEF Spec

\* A snapshot that build_snapshot.py writes answers for every byte of every active
\* allocation with exactly one row, and leads back from each physical byte to one
\* allocation byte.
THEOREM SnapshotLeadsBack == Spec => []SnapshotIsBijection
<1>1. DualInv => SnapshotIsBijection
  <2> SUFFICES ASSUME DualInv, rows # {} PROVE
        /\ \A va \in Resident :
             \E r \in rows :
               /\ lookup_va(va) = {r}
               /\ r.frame + (va - r.page) = Physical(va)
               /\ r \in lookup_pa(Physical(va))
        /\ \A x, y \in Resident : Physical(x) = Physical(y) => x = y
    BY DEF SnapshotIsBijection
  <2>1. run \in Runs /\ gate_copy = run.allocs /\ Joined(run, rows)
    BY DEF DualInv, Shape, Copied
  <2>2. Resident = UNION {Bytes(a) : a \in load_allocations(run.allocs)}
    BY <2>1 DEF Resident
  <2> QED BY <2>1, <2>2, JoinedAnswers
<1> QED BY <1>1, ChainInvariant, PTL

\* The injected inference runs on memory that differs from the clean one by the
\* work file's bits, at the bytes that their chains name, and by nothing else; a
\* refused work file or snapshot, or a release that never came, has changed nothing.
THEOREM InjectsWhatWasAsked == Spec => []InjectedExactly
<1>1. DualInv => InjectedExactly
  <2> SUFFICES ASSUME DualInv PROVE InjectedExactly
    OBVIOUS
  <2>1. thrown \in {"refused", "timeout"} \/ verdict = "REFUSED" =>
          \A x \in PhysicalBytes : mem[x] = {}
    BY WhereItIs DEF DualInv, Quiet, Clean
  <2>2. ASSUME pc = "infer", NEW x \in PhysicalBytes
        PROVE  mem[x] = {b \in 0..7 : Cardinality({i \in DOMAIN work :
                           PlaceOf(work[i]) = x /\ work[i].bit = b}) % 2 = 1}
    <3> DEFINE n == Len(work)
    <3>1. /\ next - 1 = n /\ DOMAIN work = 1 .. n
          /\ Holds(run, work, next - 1, mem)
      BY <2>2 DEF DualInv, Shape, Flipped, IsSeq
    <3>2. mem[x] = FlipsAt(run, work, n, x)
      BY <3>1, WhereItIs DEF Holds
    <3>3. \A i \in 1 .. n : PlaceOf(work[i]) = Place(run, work[i].va)
      <4>1. CASE byScript
        <5>1. Chosen(run, work)
          BY <2>2, <4>1 DEF DualInv, Quiet
        <5> QED BY <4>1, <5>1 DEF Chosen, PlaceOf
      <4>2. CASE ~byScript
        BY <4>2, WhereItIs DEF PlaceOf
      <4> QED BY <4>1, <4>2
    <3> HIDE DEF n
    <3>4. \A b : {i \in DOMAIN work : PlaceOf(work[i]) = x /\ work[i].bit = b} =
                 Hits(run, work, n, x, b)
      BY <3>1, <3>3 DEF Hits
    <3> QED BY <3>2, <3>4 DEF FlipsAt
  <2> QED BY <2>1, <2>2 DEF InjectedExactly
<1> QED BY <1>1, ChainInvariant, PTL

\* A runner that reports its targets has put every byte of their allocations back,
\* whatever the engine wrote while the faults were held, on a device that was not
\* lost before.
THEOREM ReportedIsRestored == Spec => []PassMeansRestored
<1>1. DualInv => PassMeansRestored
  <2>0. DualInv /\ pc = "written" => trouble # "sticky"
    BY DEF DualInv, Quiet
  <2> SUFFICES ASSUME DualInv, pc = "written", NEW i \in DOMAIN records,
                      NEW a \in Descriptors(records[i].target.id), NEW va \in Bytes(a)
               PROVE  mem[Physical(va)] = {}
    BY <2>0 DEF PassMeansRestored
  <2>1. /\ run \in Runs /\ Grown(run, registry) /\ Aiming(run, work)
        /\ RecordsTell(run, work, records) /\ Back(run, work, 0, mem)
        /\ Len(records) = Len(work) /\ DOMAIN records = 1 .. Len(work)
    BY DEF DualInv, Shape, Copied, Flipped, IsSeq
  <2>2. i \in 1 .. Len(work) /\ records[i].target = work[i] /\ Aims(run, work[i])
    BY <2>1 DEF RecordsTell, Aiming
  <2>3. Owns(run, a, work[i])
    <3> DEFINE t == work[i]
    <3>1. Aims(run, t) /\ a \in Descriptors(t.id)
      BY <2>2
    <3> HIDE DEF t
    <3>2. Owns(run, a, t)
      BY <2>1, <3>1, TargetIs
    <3> QED BY <3>2 DEF t
  <2>4. mem[Place(run, va)] = FlipsAt(run, work, 0, Place(run, va))
    BY <2>1, <2>2, <2>3 DEF Back
  <2> QED BY <2>4, NoFlips, WhereItIs
<1> QED BY <1>1, ChainInvariant, PTL

\* The runner's checks of memory fail only where the engine wrote under a held fault or
\* the page table maps two bytes of an allocation to one, whatever calls and files fail
\* around it; a run of the script in which none does, or only a call of the injected
\* inference, is given up for these two causes or a late release alone; the script
\* fails a run that passed only where the engine allocated.
THEOREM NothingThrownInVain == Spec => []ThrowsForAReason
<1>1. DualInv => ThrowsForAReason
  BY DEF DualInv
<1> QED BY <1>1, ChainInvariant, PTL
=============================================================================
