------------------------- MODULE AllocationRegistry -------------------------
(***************************************************************************)
(* The registry of live GPU allocations                                    *)
(* (src/src/semantic/allocation_registry.cpp): a vector of descriptors     *)
(* that only ever grows, whose entries are switched from active to         *)
(* inactive and never back.  Every operation takes the registry's own      *)
(* mutex, so each one is a pure function of the vector and the caller's    *)
(* module makes one atomic step of it.  A string that the code only        *)
(* compares is a value of an arbitrary set; provenance strings are         *)
(* constants of the call sites and are left out.                           *)
(***************************************************************************)
EXTENDS Integers, Sequences

CONSTANTS
  MaxVa        \* numeric_limits<uintptr_t>::max()

ASSUME MaxVaAssumption == MaxVa \in Nat \ {0}

\* AllocationDescriptor, the fields the registry reads.
Descriptor(Id) ==
  [id: Id, device: Nat, base: 1..MaxVa, size: Nat \ {0}, active: BOOLEAN]

\* The address of the last byte; computed only where RangeOverflows is false, so
\* that this sum of two uintptr_t is exact.  base + size is not: a range may end
\* at MaxVa.
inclusive_end(d) == d.base + (d.size - 1)

RangeOverflows(d) == d.size - 1 > MaxVa - d.base

Overlaps(d, e) == /\ d.base <= inclusive_end(e)
                  /\ e.base <= inclusive_end(d)

-----------------------------------------------------------------------------
(* add_allocation: every check that throws, then push_back.                *)

\* Mutant: only the first byte of the new range is tested.
AcceptsFirstByteOnly(reg, d) ==
  /\ ~RangeOverflows(d)
  /\ \A i \in DOMAIN reg :
       /\ reg[i].id # d.id
       /\ reg[i].active => d.base \notin reg[i].base .. inclusive_end(reg[i])

Accepts(reg, d) ==
  /\ d.device >= 0
  /\ d.base # 0
  /\ d.size # 0
  /\ d.active
  /\ ~RangeOverflows(d)
  /\ \A i \in DOMAIN reg :
       /\ reg[i].id # d.id
       /\ reg[i].active /\ reg[i].device = d.device => ~Overlaps(d, reg[i])

add_allocation(reg, d) == IF Accepts(reg, d) THEN Append(reg, d) ELSE reg

\* deactivate_allocation: std::find_if stops at the first entry with the id;
\* an unknown or already inactive one is left alone (the code returns false).
FirstWithId(reg, id) ==
  CHOOSE i \in DOMAIN reg :
    /\ reg[i].id = id
    /\ \A j \in DOMAIN reg : reg[j].id = id => i <= j

HasId(reg, id) == \E i \in DOMAIN reg : reg[i].id = id

deactivate_allocation(reg, id) ==
  IF HasId(reg, id)
  THEN [reg EXCEPT ![FirstWithId(reg, id)].active = FALSE]
  ELSE reg

\* The two lookups, total: the set of answers is empty where the code throws
\* out_of_range, and a singleton where it returns.
allocation_bit_to_gpu_va(reg, id, offset) ==
  { reg[i].base + offset : i \in
      { j \in DOMAIN reg : /\ HasId(reg, id)
                           /\ j = FirstWithId(reg, id)
                           /\ reg[j].active
                           /\ offset < reg[j].size } }

\* Mutant: the end is base + size, which is 0 for a range that ends at MaxVa.
CoversToEnd(d, device, va) ==
  /\ d.active
  /\ d.device = device
  /\ va >= d.base
  /\ va < (d.base + d.size) % (MaxVa + 1)

\* The loop of gpu_va_to_allocation_bit returns at the first active range on
\* the device that holds the address.
Covers(d, device, va) ==
  /\ d.active
  /\ d.device = device
  /\ va >= d.base
  /\ va - d.base < d.size

gpu_va_to_allocation_bit(reg, device, va) ==
  { [id |-> reg[i].id, offset |-> va - reg[i].base] : i \in
      { j \in DOMAIN reg : /\ Covers(reg[j], device, va)
                           /\ \A k \in DOMAIN reg :
                                Covers(reg[k], device, va) => j <= k } }

-----------------------------------------------------------------------------
(* What a registry must satisfy, whatever its callers did.                 *)

UniqueIds(reg) ==
  \A i, j \in DOMAIN reg : reg[i].id = reg[j].id => i = j

ActiveDisjoint(reg) ==
  \A i, j \in DOMAIN reg :
    (i # j /\ reg[i].active /\ reg[j].active /\ reg[i].device = reg[j].device)
      => ~Overlaps(reg[i], reg[j])

\* For every byte of every active allocation the forward lookup finds the byte
\* and the reverse lookup comes back to it.  validate_registry_round_trips tests
\* this at startup for the first and the last byte of each allocation.
RoundTrips(reg) ==
  \A i \in DOMAIN reg : reg[i].active =>
    \A offset \in 0 .. (reg[i].size - 1) :
      /\ allocation_bit_to_gpu_va(reg, reg[i].id, offset) =
           { reg[i].base + offset }
      /\ gpu_va_to_allocation_bit(reg, reg[i].device, reg[i].base + offset) =
           { [id |-> reg[i].id, offset |-> offset] }
=============================================================================
