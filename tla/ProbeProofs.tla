----------------------------- MODULE ProbeProofs ------------------------------
(***************************************************************************)
(* Proofs about a gated probe (GatedProbe with ProbeLedger) and about the  *)
(* reader of its child's pipe (MarkerScan), for any page size, frames,     *)
(* placements, drivers and faults, and for any marker and chunk size.      *)
(*                                                                         *)
(* GateInv follows the rows of the page table from the kernel to the       *)
(* observer.  While none is lost, either a range has moved, and then two   *)
(* MAP rows say so (Twice), or the rows of each range are those of one map *)
(* call, whose frames the page table, the snapshot, the gate's map and the *)
(* work share (Logged).  The scratch probe looks only at the rows up to    *)
(* its snapshot, and they are followed on their own (Sampled).  InOrder    *)
(* says how far script and child can be apart; it makes the check meet a   *)
(* child that has ended and a ring that was read to its end.               *)
(*                                                                         *)
(* Each check refuses a second MAP row and an uncovered byte: its map then *)
(* has true rows only (TrueRows) and covers what is active (CoversActive), *)
(* and LookupsAreTrue turns the two into what a reader of the map sees.    *)
(***************************************************************************)
EXTENDS GatedProbe, MarkerScan, FiniteSetTheorems, FunctionTheorems,
        SequenceTheorems, TLAPS

-----------------------------------------------------------------------------
(* Arithmetic of pages.                                                    *)

\* Quotient and remainder, and that no others do.
LEMMA Division ==
  ASSUME NEW a \in Nat, NEW s \in Nat \ {0}
  PROVE  /\ a \div s \in Nat /\ a % s \in 0 .. s - 1 /\ a = s * (a \div s) + (a % s)
         /\ \A q \in Nat, r \in 0 .. s - 1 : a = s * q + r => q = a \div s /\ r = a % s
<1>1. a \div s \in Int /\ a % s \in 0 .. s - 1 /\ a = s * (a \div s) + (a % s)
  OBVIOUS
<1>2. a \div s >= 0
  BY <1>1
<1>3. ASSUME NEW q \in Int, NEW r \in 0 .. s - 1, NEW q2 \in Int, NEW r2 \in 0 .. s - 1,
             s * q + r = s * q2 + r2, q < q2
      PROVE  FALSE
  <2>1. s * q + s <= s * q2
    <3>1. q + 1 <= q2
      BY <1>3
    <3>2. s * (q + 1) <= s * q2
      BY <1>3, <3>1
    <3>3. s * (q + 1) = s * q + s
      BY <1>3
    <3> QED BY <3>2, <3>3
  <2>2. s * q \in Int /\ s * q2 \in Int
    OBVIOUS
  <2> QED BY <1>3, <2>1, <2>2
<1>4. ASSUME NEW q \in Nat, NEW r \in 0 .. s - 1, a = s * q + r
      PROVE  q = a \div s /\ r = a % s
  <2> DEFINE q2 == a \div s
             r2 == a % s
  <2>1. s * q + r = s * q2 + r2 /\ q2 \in Int /\ r2 \in 0 .. s - 1
    BY <1>1, <1>4
  <2> HIDE DEF q2, r2
  <2>2. ~(q < q2) /\ ~(q2 < q)
    BY <1>3, <2>1
  <2>3. q = q2
    BY <2>1, <2>2
  <2>4. s * q \in Int
    OBVIOUS
  <2>5. r = r2
    BY <2>1, <2>3, <2>4
  <2> QED BY <2>3, <2>5 DEF q2, r2
<1> QED BY <1>1, <1>2, <1>4

-----------------------------------------------------------------------------
(* The ranges and the program of a child.                                  *)

\* The i-th mapped range and its pages.
RangeAt(i) == Ranges(mode, pages)[i]
PagesAt(i) == RangeAt(i).len \div PageSize
RangeIds == DOMAIN Ranges(mode, pages)

PageAt(i, k) == RangeAt(i).base + k * PageSize

\* Which probe a run is, never changes.
Fixed ==
  /\ mode \in AllModes /\ pages \in Nat \ {0}
  /\ mode # "scratch" => pages = 2
  /\ driver \in [how : {"whole", "halves", "partial"}, map_offset : Nat, room : Nat, faults : Nat]

\* A page counted in addresses is that page again.
LEMMA PageIndex ==
  ASSUME NEW k \in Nat
  PROVE  (k * PageSize) \div PageSize = k /\ k * PageSize \in Nat
<1>1. PageSize \in Nat \ {0}
  BY ProbeAssumption
<1>2. k * PageSize \in Nat /\ k * PageSize = PageSize * k + 0 /\ 0 \in 0 .. PageSize - 1
  BY <1>1
<1> DEFINE a == k * PageSize
<1> HIDE DEF a
<1>3. a \in Nat /\ a = PageSize * k + 0 /\ 0 \in 0 .. PageSize - 1
  BY <1>2 DEF a
<1>4. \A q \in Nat, r \in 0 .. PageSize - 1 :
        a = PageSize * q + r => q = a \div PageSize /\ r = a % PageSize
  BY <1>1, <1>3, Division
<1>5. k = a \div PageSize
  BY <1>3, <1>4, Zenon
<1> QED BY <1>2, <1>5 DEF a

\* The ranges: one from address 0, the aliased one far behind it.
LEMMA RangesAre ==
  ASSUME Fixed
  PROVE  /\ RangeIds = IF mode = "alias" THEN {1, 2} ELSE {1}
         /\ 1 \in RangeIds /\ RangeAt(1).base = 0
         /\ mode # "alias" => PagesAt(1) = pages
         /\ mode = "alias" => PagesAt(1) = 1 /\ PagesAt(2) = 1 /\ RangeAt(2).base = 4 * PageSize
         /\ \A i \in RangeIds : /\ RangeAt(i).base \in Nat /\ PagesAt(i) \in Nat \ {0}
                                /\ RangeAt(i).len = PagesAt(i) * PageSize
                                /\ RangeAt(i).len \in Nat
<1>1. PageSize \in Nat \ {0} /\ pages \in Nat \ {0} /\ mode \in AllModes
  BY ProbeAssumption DEF Fixed
<1>2. CASE mode = "alias"
  <2>1. RangeIds = {1, 2} /\ RangeAt(1) = [base |-> 0, len |-> PageSize]
        /\ RangeAt(2) = [base |-> 4 * PageSize, len |-> PageSize]
    BY <1>2 DEF RangeIds, RangeAt, Ranges
  <2>2. (1 * PageSize) \div PageSize = 1 /\ 1 * PageSize = PageSize
    BY <1>1, PageIndex
  <2>3. PageSize \div PageSize = 1
    BY <2>2
  <2>4. PagesAt(1) = 1 /\ PagesAt(2) = 1
    BY <2>1, <2>3 DEF PagesAt
  <2>5. /\ RangeAt(1).base = 0 /\ RangeAt(2).base = 4 * PageSize
        /\ RangeAt(1).len = PageSize /\ RangeAt(2).len = PageSize
    BY <2>1
  <2>6. 4 * PageSize \in Nat /\ 1 * PageSize = PageSize
    BY <1>1
  <2> QED BY <1>1, <1>2, <2>1, <2>4, <2>5, <2>6
<1>3. CASE mode # "alias"
  <2>1. RangeIds = {1} /\ RangeAt(1) = [base |-> 0, len |-> pages * PageSize]
    BY <1>3 DEF RangeIds, RangeAt, Ranges
  <2>2. (pages * PageSize) \div PageSize = pages /\ pages * PageSize \in Nat
    BY <1>1, PageIndex
  <2> DEFINE l == pages * PageSize
  <2>3. RangeAt(1).len = l /\ RangeAt(1).base = 0
    BY <2>1
  <2> HIDE DEF l
  <2>4. PagesAt(1) = pages
    BY <2>2, <2>3, Zenon DEF PagesAt, l
  <2> QED BY <1>1, <1>3, <2>1, <2>2, <2>3, <2>4 DEF l
<1> QED BY <1>2, <1>3

\* The pages that a run may map.
LEMMA VaPagesAre ==
  ASSUME Fixed
  PROVE  \A p : p \in VaPages <=> \E i \in RangeIds : \E k \in 0 .. (PagesAt(i) - 1) : p = PageAt(i, k)
<1> DEFINE Of(r) == {r.base + k * PageSize : k \in 0 .. (r.len \div PageSize - 1)}
<1>1. ToSet(Ranges(mode, pages)) = {RangeAt(i) : i \in RangeIds}
  BY Zenon DEF ToSet, RangeIds, RangeAt
<1>2. VaPages = UNION {Of(r) : r \in {RangeAt(i) : i \in RangeIds}}
  BY <1>1, Zenon DEF VaPages
<1>3. \A i : \A p : p \in Of(RangeAt(i)) <=> \E k \in 0 .. (PagesAt(i) - 1) : p = PageAt(i, k)
  BY DEF PageAt, PagesAt
<1> HIDE DEF Of
<1>4. \A p : p \in VaPages <=> \E i \in RangeIds : p \in Of(RangeAt(i))
  BY <1>2
<1> QED BY <1>3, <1>4

\* The same pages, one by one.
LEMMA PageIs ==
  ASSUME Fixed
  PROVE  /\ \A i \in RangeIds : \A k \in 0 .. (PagesAt(i) - 1) :
              /\ PageAt(i, k) \in VaPages /\ PageAt(i, k) \in Nat
              /\ RangeAt(i).base <= PageAt(i, k)
              /\ PageAt(i, k) + PageSize <= RangeAt(i).base + RangeAt(i).len
              /\ (PageAt(i, k) - RangeAt(i).base) \div PageSize = k
         /\ \A p \in VaPages : \E i \in RangeIds : \E k \in 0 .. (PagesAt(i) - 1) : p = PageAt(i, k)
<1>1. PageSize \in Nat \ {0}
  BY ProbeAssumption
<1>2. ASSUME NEW i \in RangeIds, NEW k \in 0 .. (PagesAt(i) - 1)
      PROVE  /\ PageAt(i, k) \in VaPages /\ PageAt(i, k) \in Nat
             /\ RangeAt(i).base <= PageAt(i, k)
             /\ PageAt(i, k) + PageSize <= RangeAt(i).base + RangeAt(i).len
             /\ (PageAt(i, k) - RangeAt(i).base) \div PageSize = k
  <2> DEFINE b == RangeAt(i).base
             l == RangeAt(i).len
             n == PagesAt(i)
  <2>1. b \in Nat /\ n \in Nat \ {0} /\ l = n * PageSize /\ l \in Nat
    BY RangesAre
  <2>2. k \in Nat /\ k + 1 <= n
    BY <2>1
  <2>3. k * PageSize \in Nat /\ (k * PageSize) \div PageSize = k
    BY <2>2, PageIndex
  <2>4. PageAt(i, k) \in VaPages
    BY VaPagesAre
  <2>5. k * PageSize + PageSize <= l
    <3>1. (n - (k + 1)) * PageSize \in Nat /\ k * PageSize + PageSize = (k + 1) * PageSize
          /\ n * PageSize = (k + 1) * PageSize + (n - (k + 1)) * PageSize
      <4> HIDE DEF n
      <4> QED BY <1>1, <2>1, <2>2
    <3> DEFINE p == (k + 1) * PageSize
               q == (n - (k + 1)) * PageSize
               o == k * PageSize
    <3>2. q \in Nat /\ o + PageSize = p /\ l = p + q /\ o \in Nat
      BY <2>1, <2>3, <3>1
    <3> HIDE DEF p, q, o, l
    <3> QED BY <1>1, <3>2 DEF o
  <2> DEFINE o == k * PageSize
  <2>6. PageAt(i, k) = b + o
    BY DEF PageAt
  <2>7. o \in Nat /\ o \div PageSize = k /\ o + PageSize <= l
    BY <2>3, <2>5
  <2> HIDE DEF b, l, o
  <2>8. (b + o) - b = o
    BY <2>1, <2>7
  <2> QED BY <1>1, <2>1, <2>4, <2>6, <2>7, <2>8 DEF b, l
<1>3. \A p \in VaPages : \E i \in RangeIds : \E k \in 0 .. (PagesAt(i) - 1) : p = PageAt(i, k)
  BY VaPagesAre, Zenon
<1> QED BY <1>2, <1>3

\* Where the child maps, frees, takes its snapshot and works; a child that is through
\* is at EndAt.
MapAt(i) == IF mode = "scratch" THEN 4 ELSE IF i = 1 THEN 3 ELSE 4

SnapAt == IF mode = "alias" THEN 6 ELSE 5

FreeAt(i) ==
  IF mode = "trt" THEN 7 ELSE IF mode = "scratch" \/ i = 2 THEN 8 ELSE 9

Releases == mode \in {"pool", "t2"}

WorkAt == 7

EndAt == IF mode \in {"trt", "scratch"} THEN 11 ELSE IF mode = "alias" THEN 12 ELSE 13

\* What the scratch child prints, and how much of it before its n-th operation.
ScratchEvents ==
  <<"WAIT_PRE_ALLOC_GATE", "ALLOCATION_BEGIN", "ALLOCATED", "ACCESS_END", "FREE_BEGIN", "FREE_END">>

Said(n) ==
  IF n = 1 THEN 0 ELSE IF n <= 3 THEN 1 ELSE IF n <= 5 THEN 2 ELSE IF n = 6 THEN 3
  ELSE IF n = 7 THEN 4 ELSE IF n <= 9 THEN 5 ELSE 6

\* What the child's place in its program says of its next operation.
PlaceOf(n, op, arg) ==
  /\ n \in 1 .. (EndAt - 1)
  /\ op = "map" => arg \in RangeIds /\ n = MapAt(arg)
  /\ op = "unmap" => arg \in RangeIds /\ n = FreeAt(arg)
  /\ \A i \in RangeIds : (n = MapAt(i) => op = "map") /\ (n = FreeAt(i) => op = "unmap")
  /\ op = "snapshot" <=> n = SnapAt
  /\ op = "work" <=> Releases /\ n = WorkAt
  /\ op = "await" => (n = 2 /\ arg = "gate") \/ (Releases /\ n = 6 /\ arg = "release")
  /\ (n = 2) \/ (Releases /\ n = 6) => op = "await"
  /\ op = "exit" <=> n = EndAt - 1
  /\ mode = "scratch" =>
       IF op \in {"say", "snapshot"}
       THEN Said(n + 1) = Said(n) + 1 /\ arg = ScratchEvents[Said(n + 1)]
       ELSE Said(n + 1) = Said(n)

\* The programs of the five children, operation by operation.
LEMMA ProgramIs ==
  ASSUME Fixed
  PROVE  /\ Len(ChildOf(mode)) = EndAt - 1
         /\ \A n \in 1 .. Len(ChildOf(mode)) : PlaceOf(n, ChildOf(mode)[n].op, ChildOf(mode)[n].arg)
<1> USE DEF Say, Await, MapRange, UnmapRange, Work, Snapshot, Exit
<1>1. RangeIds = IF mode = "alias" THEN {1, 2} ELSE {1}
  BY RangesAre
<1>2. CASE mode = "trt"
  <2>1. ChildOf(mode) = G15Runner
    BY <1>2 DEF ChildOf
  <2>2. Len(G15Runner) = 10
    BY DEF G15Runner
  <2>3. \A n \in 1 .. 10 : n \in {1, 2, 3, 4, 5, 6, 7, 8, 9, 10}
    OBVIOUS
  <2>4. \A n \in 1 .. 10 : PlaceOf(n, G15Runner[n].op, G15Runner[n].arg)
    BY <1>1, <1>2, <2>3 DEF G15Runner, PlaceOf, MapAt, FreeAt, SnapAt, WorkAt, Releases, EndAt
  <2>5. EndAt = 11
    BY <1>2 DEF EndAt
  <2> QED BY <2>1, <2>2, <2>4, <2>5
<1>3. CASE mode = "t2"
  <2>1. ChildOf(mode) = InjectionRunner
    BY <1>3 DEF ChildOf
  <2>2. Len(InjectionRunner) = 12
    BY DEF InjectionRunner
  <2>3. \A n \in 1 .. 12 : n \in {1, 2, 3, 4, 5, 6, 7, 8, 9, 10, 11, 12}
    OBVIOUS
  <2>4. \A n \in 1 .. 12 : PlaceOf(n, InjectionRunner[n].op, InjectionRunner[n].arg)
    BY <1>1, <1>3, <2>3 DEF InjectionRunner, PlaceOf, MapAt, FreeAt, SnapAt, WorkAt, Releases, EndAt
  <2>5. EndAt = 13
    BY <1>3 DEF EndAt
  <2> QED BY <2>1, <2>2, <2>4, <2>5
<1>4. CASE mode = "pool"
  <2>1. ChildOf(mode) = PoolHarness
    BY <1>4 DEF ChildOf
  <2>2. Len(PoolHarness) = 12
    BY DEF PoolHarness
  <2>3. \A n \in 1 .. 12 : n \in {1, 2, 3, 4, 5, 6, 7, 8, 9, 10, 11, 12}
    OBVIOUS
  <2>4. \A n \in 1 .. 12 : PlaceOf(n, PoolHarness[n].op, PoolHarness[n].arg)
    BY <1>1, <1>4, <2>3 DEF PoolHarness, PlaceOf, MapAt, FreeAt, SnapAt, WorkAt, Releases, EndAt
  <2>5. EndAt = 13
    BY <1>4 DEF EndAt
  <2> QED BY <2>1, <2>2, <2>4, <2>5
<1>5. CASE mode = "alias"
  <2>1. ChildOf(mode) = AliasHarness
    BY <1>5 DEF ChildOf
  <2>2. Len(AliasHarness) = 11
    BY DEF AliasHarness
  <2>3. \A n \in 1 .. 11 : n \in {1, 2, 3, 4, 5, 6, 7, 8, 9, 10, 11}
    OBVIOUS
  <2>4. \A n \in 1 .. 11 : PlaceOf(n, AliasHarness[n].op, AliasHarness[n].arg)
    BY <1>1, <1>5, <2>3 DEF AliasHarness, PlaceOf, MapAt, FreeAt, SnapAt, WorkAt, Releases, EndAt
  <2>5. EndAt = 12
    BY <1>5 DEF EndAt
  <2> QED BY <2>1, <2>2, <2>4, <2>5
<1>6. CASE mode = "scratch"
  <2>1. ChildOf(mode) = ScratchHarness
    BY <1>6 DEF ChildOf
  <2>2. Len(ScratchHarness) = 10
    BY DEF ScratchHarness
  <2>3. \A n \in 1 .. 10 : n \in {1, 2, 3, 4, 5, 6, 7, 8, 9, 10}
    OBVIOUS
  <2>4. \A n \in 1 .. 10 : PlaceOf(n, ScratchHarness[n].op, ScratchHarness[n].arg)
    BY <1>1, <1>6, <2>3 DEF ScratchHarness, PlaceOf, MapAt, FreeAt, SnapAt, WorkAt, Releases, EndAt, Said,
                                       ScratchEvents
  <2>5. EndAt = 11
    BY <1>6 DEF EndAt
  <2> QED BY <2>1, <2>2, <2>4, <2>5
<1> QED BY <1>2, <1>3, <1>4, <1>5, <1>6 DEF Fixed, AllModes

\* The places of the steps of a script.
WatchAt == IF Releases THEN 11 ELSE 5
CheckAt == IF Releases THEN 14 ELSE 10
EndTryAt == IF Releases THEN 15 ELSE 8

StepOf(n, step) ==
  /\ step = "spawn" <=> n = 1
  /\ step = "target" <=> n = 2
  /\ step = "open_gate" <=> n = 4
  /\ step \in {"await_gate", "await_ready", "await_pass"} <=> (n = 3) \/ (Releases /\ n \in {5, 10})
  /\ step = "settle" <=> (n = WatchAt + 1) \/ (Releases /\ n = 6)
  /\ step = "pre_ledger" <=> Releases /\ n = 7
  /\ step = "write_work" <=> Releases /\ n = 8
  /\ step = "release" <=> Releases /\ n = 9
  /\ step = "watch" <=> n = WatchAt
  /\ step = "communicate" <=> n = WatchAt + 2
  /\ step = "check" <=> n = CheckAt
  /\ step = "terminate" <=> n = EndTryAt
  /\ step = "kill" <=> n = EndTryAt + 1

StepNames ==
  {"spawn", "target", "await_gate", "open_gate", "await_ready", "settle", "pre_ledger",
   "write_work", "release", "await_pass", "watch", "communicate", "check", "terminate", "kill"}

\* One sequence of steps behind another.
LEMMA Joined ==
  ASSUME NEW s \in Seq(StepNames), NEW t \in Seq(StepNames)
  PROVE  /\ s \o t \in Seq(StepNames)
         /\ Len(s \o t) = Len(s) + Len(t)
         /\ \A i \in 1 .. Len(s) : (s \o t)[i] = s[i]
         /\ \A i \in 1 .. Len(t) : (s \o t)[Len(s) + i] = t[i]
<1> DEFINE u == s \o t
<1>1. /\ u \in Seq(StepNames) /\ Len(u) = Len(s) + Len(t) /\ Len(s) \in Nat /\ Len(t) \in Nat
      /\ \A i \in 1 .. Len(s) + Len(t) : u[i] = IF i <= Len(s) THEN s[i] ELSE t[i - Len(s)]
  BY ConcatProperties
<1> HIDE DEF u
<1>2. \A i \in 1 .. Len(s) : u[i] = s[i]
  BY <1>1
<1>3. \A i \in 1 .. Len(t) : u[Len(s) + i] = t[i]
  <2> TAKE i \in 1 .. Len(t)
  <2>1. Len(s) + i \in 1 .. Len(s) + Len(t) /\ ~(Len(s) + i <= Len(s)) /\ (Len(s) + i) - Len(s) = i
    BY <1>1
  <2> QED BY <1>1, <2>1
<1> QED BY <1>1, <1>2, <1>3 DEF u

\* The scripts, step by step.
LEMMA ScriptIs ==
  ASSUME Fixed
  PROVE  /\ Len(Script) = IF Releases THEN 16 ELSE 10
         /\ DOMAIN Script = 1 .. Len(Script)
         /\ \A n \in 1 .. Len(Script) : StepOf(n, Script[n])
         /\ (CHOOSE i \in DOMAIN Script : Script[i] = "terminate") = EndTryAt
<1> DEFINE head == Launch
           tail == Finally
           inner == <<"watch", "settle", "communicate">>
           last == <<"check">>
           body == <<"await_ready", "settle", "pre_ledger", "write_work", "release",
                     "await_pass", "watch", "settle", "communicate", "check">>
<1>a. /\ head \in Seq(StepNames) /\ Len(head) = 4 /\ head[1] = "spawn" /\ head[2] = "target"
         /\ head[3] = "await_gate" /\ head[4] = "open_gate"
      /\ tail \in Seq(StepNames) /\ Len(tail) = 2 /\ tail[1] = "terminate"
         /\ tail[2] = "kill"
      /\ inner \in Seq(StepNames) /\ Len(inner) = 3 /\ inner[1] = "watch"
         /\ inner[2] = "settle" /\ inner[3] = "communicate"
      /\ last \in Seq(StepNames) /\ Len(last) = 1 /\ last[1] = "check"
      /\ body \in Seq(StepNames) /\ Len(body) = 10 /\ body[1] = "await_ready"
         /\ body[2] = "settle" /\ body[3] = "pre_ledger" /\ body[4] = "write_work"
         /\ body[5] = "release" /\ body[6] = "await_pass" /\ body[7] = "watch"
         /\ body[8] = "settle" /\ body[9] = "communicate" /\ body[10] = "check"
  <2>1. /\ head \in Seq(StepNames) /\ Len(head) = 4 /\ head[1] = "spawn" /\ head[2] = "target"
        /\ head[3] = "await_gate" /\ head[4] = "open_gate"
    BY DEF Launch, Finally, StepNames
  <2>2. /\ tail \in Seq(StepNames) /\ Len(tail) = 2 /\ tail[1] = "terminate"
        /\ tail[2] = "kill"
    BY DEF Launch, Finally, StepNames
  <2>3. /\ inner \in Seq(StepNames) /\ Len(inner) = 3 /\ inner[1] = "watch"
        /\ inner[2] = "settle" /\ inner[3] = "communicate"
    BY DEF Launch, Finally, StepNames
  <2>4. /\ last \in Seq(StepNames) /\ Len(last) = 1 /\ last[1] = "check"
    BY DEF Launch, Finally, StepNames
  <2>5. /\ body \in Seq(StepNames) /\ Len(body) = 10 /\ body[1] = "await_ready"
        /\ body[2] = "settle" /\ body[3] = "pre_ledger" /\ body[4] = "write_work"
        /\ body[5] = "release" /\ body[6] = "await_pass" /\ body[7] = "watch"
        /\ body[8] = "settle" /\ body[9] = "communicate" /\ body[10] = "check"
    BY DEF Launch, Finally, StepNames
  <2> QED BY <2>1, <2>2, <2>3, <2>4, <2>5, Zenon
<1>b. G2Script = ((head \o inner) \o tail) \o last /\ ReleaseScript = (head \o body) \o tail
  BY Zenon DEF G2Script, ReleaseScript
<1> HIDE DEF head, tail, inner, last, body
<1> DEFINE one == head \o inner
           two == one \o tail
           big == head \o body
<1>c. /\ one \in Seq(StepNames) /\ Len(one) = 7
      /\ \A i \in 1 .. 4 : one[i] = head[i]
      /\ \A i \in 1 .. 3 : one[4 + i] = inner[i]
  <2>1. /\ head \in Seq(StepNames) /\ inner \in Seq(StepNames) /\ Len(head) = 4 /\ Len(inner) = 3
    BY <1>a
  <2>2. /\ head \o inner \in Seq(StepNames) /\ Len(head \o inner) = Len(head) + Len(inner)
        /\ \A i \in 1 .. Len(head) : (head \o inner)[i] = head[i]
        /\ \A i \in 1 .. Len(inner) : (head \o inner)[Len(head) + i] = inner[i]
    BY <2>1, Joined
  <2>3. 4 + 3 = 7
    OBVIOUS
  <2> QED BY <2>1, <2>2, <2>3, Zenon
<1>d. /\ big \in Seq(StepNames) /\ Len(big) = 14
      /\ \A i \in 1 .. 4 : big[i] = head[i]
      /\ \A i \in 1 .. 10 : big[4 + i] = body[i]
  <2>1. /\ head \in Seq(StepNames) /\ body \in Seq(StepNames) /\ Len(head) = 4 /\ Len(body) = 10
    BY <1>a
  <2>2. /\ head \o body \in Seq(StepNames) /\ Len(head \o body) = Len(head) + Len(body)
        /\ \A i \in 1 .. Len(head) : (head \o body)[i] = head[i]
        /\ \A i \in 1 .. Len(body) : (head \o body)[Len(head) + i] = body[i]
    BY <2>1, Joined
  <2>3. 4 + 10 = 14
    OBVIOUS
  <2> QED BY <2>1, <2>2, <2>3, Zenon
<1> HIDE DEF one, big
<1>e. /\ two \in Seq(StepNames) /\ Len(two) = 9
      /\ \A i \in 1 .. 7 : two[i] = one[i]
      /\ \A i \in 1 .. 2 : two[7 + i] = tail[i]
  <2>1. /\ one \in Seq(StepNames) /\ tail \in Seq(StepNames) /\ Len(one) = 7 /\ Len(tail) = 2
    BY <1>a, <1>c
  <2>2. /\ one \o tail \in Seq(StepNames) /\ Len(one \o tail) = Len(one) + Len(tail)
        /\ \A i \in 1 .. Len(one) : (one \o tail)[i] = one[i]
        /\ \A i \in 1 .. Len(tail) : (one \o tail)[Len(one) + i] = tail[i]
    BY <2>1, Joined
  <2>3. 7 + 2 = 9
    OBVIOUS
  <2> QED BY <2>1, <2>2, <2>3, Zenon
<1> HIDE DEF two
<1>f. /\ two \o last \in Seq(StepNames) /\ Len(two \o last) = 10
      /\ \A i \in 1 .. 9 : (two \o last)[i] = two[i]
      /\ \A i \in 1 .. 1 : (two \o last)[9 + i] = last[i]
  <2>1. /\ two \in Seq(StepNames) /\ last \in Seq(StepNames) /\ Len(two) = 9 /\ Len(last) = 1
    BY <1>a, <1>e
  <2>2. /\ two \o last \in Seq(StepNames) /\ Len(two \o last) = Len(two) + Len(last)
        /\ \A i \in 1 .. Len(two) : (two \o last)[i] = two[i]
        /\ \A i \in 1 .. Len(last) : (two \o last)[Len(two) + i] = last[i]
    BY <2>1, Joined
  <2>3. 9 + 1 = 10
    OBVIOUS
  <2> QED BY <2>1, <2>2, <2>3, Zenon
<1>g. /\ big \o tail \in Seq(StepNames) /\ Len(big \o tail) = 16
      /\ \A i \in 1 .. 14 : (big \o tail)[i] = big[i]
      /\ \A i \in 1 .. 2 : (big \o tail)[14 + i] = tail[i]
  <2>1. /\ big \in Seq(StepNames) /\ tail \in Seq(StepNames) /\ Len(big) = 14 /\ Len(tail) = 2
    BY <1>a, <1>d
  <2>2. /\ big \o tail \in Seq(StepNames) /\ Len(big \o tail) = Len(big) + Len(tail)
        /\ \A i \in 1 .. Len(big) : (big \o tail)[i] = big[i]
        /\ \A i \in 1 .. Len(tail) : (big \o tail)[Len(big) + i] = tail[i]
    BY <2>1, Joined
  <2>3. 14 + 2 = 16
    OBVIOUS
  <2> QED BY <2>1, <2>2, <2>3, Zenon
<1>h. G2Script = two \o last /\ ReleaseScript = big \o tail
  BY <1>b, Zenon DEF one, two, big
<1>1. /\ G2Script \in Seq(StepNames) /\ Len(G2Script) = 10
      /\ G2Script[1] = "spawn" /\ G2Script[2] = "target" /\ G2Script[3] = "await_gate"
         /\ G2Script[4] = "open_gate" /\ G2Script[5] = "watch" /\ G2Script[6] = "settle"
         /\ G2Script[7] = "communicate" /\ G2Script[8] = "terminate" /\ G2Script[9] = "kill"
         /\ G2Script[10] = "check"
  <2> DEFINE s == two \o last
  <2> HIDE DEF s
  <2>1. /\ \A i \in 1 .. 9 : s[i] = two[i]
        /\ \A i \in 1 .. 1 : s[9 + i] = last[i]
    BY <1>f DEF s
  <2>2. /\ s[1] = "spawn" /\ s[2] = "target" /\ s[3] = "await_gate" /\ s[4] = "open_gate"
        /\ s[5] = "watch" /\ s[6] = "settle" /\ s[7] = "communicate" /\ s[8] = "terminate"
        /\ s[9] = "kill" /\ s[10] = "check"
    BY <1>a, <1>c, <1>e, <2>1
  <2> QED BY <1>f, <1>h, <2>2 DEF s
<1>2. /\ ReleaseScript \in Seq(StepNames) /\ Len(ReleaseScript) = 16
      /\ ReleaseScript[1] = "spawn" /\ ReleaseScript[2] = "target"
         /\ ReleaseScript[3] = "await_gate" /\ ReleaseScript[4] = "open_gate"
         /\ ReleaseScript[5] = "await_ready" /\ ReleaseScript[6] = "settle"
         /\ ReleaseScript[7] = "pre_ledger" /\ ReleaseScript[8] = "write_work"
         /\ ReleaseScript[9] = "release" /\ ReleaseScript[10] = "await_pass"
         /\ ReleaseScript[11] = "watch" /\ ReleaseScript[12] = "settle"
         /\ ReleaseScript[13] = "communicate" /\ ReleaseScript[14] = "check"
         /\ ReleaseScript[15] = "terminate" /\ ReleaseScript[16] = "kill"
  <2> DEFINE s == big \o tail
  <2> HIDE DEF s
  <2>1. /\ \A i \in 1 .. 14 : s[i] = big[i]
        /\ \A i \in 1 .. 2 : s[14 + i] = tail[i]
    BY <1>g DEF s
  <2>2. /\ s[1] = "spawn" /\ s[2] = "target" /\ s[3] = "await_gate" /\ s[4] = "open_gate"
        /\ s[5] = "await_ready" /\ s[6] = "settle" /\ s[7] = "pre_ledger"
        /\ s[8] = "write_work" /\ s[9] = "release" /\ s[10] = "await_pass"
        /\ s[11] = "watch" /\ s[12] = "settle" /\ s[13] = "communicate" /\ s[14] = "check"
        /\ s[15] = "terminate" /\ s[16] = "kill"
    BY <1>a, <1>d, <2>1
  <2> QED BY <1>g, <1>h, <2>2 DEF s
<1>3. CASE Releases
  <2>1. Script = ReleaseScript
    BY <1>3 DEF Releases, Script, ScriptOf, PoolScript, T2Script
  <2>2. Len(ReleaseScript) = 16 /\ DOMAIN ReleaseScript = 1 .. 16
    BY <1>2
  <2>3. \A n \in 1 .. 16 : n \in {1, 2, 3, 4, 5, 6, 7, 8, 9, 10, 11, 12, 13, 14, 15, 16}
    OBVIOUS
  <2>4. \A n \in 1 .. 16 : StepOf(n, ReleaseScript[n])
    BY <1>2, <1>3, <2>3, SMTT(30) DEF StepOf, WatchAt, CheckAt, EndTryAt
  <2>5. \A n \in 1 .. 16 : ReleaseScript[n] = "terminate" <=> n = 15
    BY <1>3, <2>4 DEF StepOf, EndTryAt
  <2> QED BY <1>3, <2>1, <2>2, <2>4, <2>5 DEF EndTryAt
<1>4. CASE ~Releases
  <2>1. Script = G2Script
    BY <1>4 DEF Releases, Script, ScriptOf, TrtScript, AliasScript, ScratchScript, Fixed, AllModes
  <2>2. Len(G2Script) = 10 /\ DOMAIN G2Script = 1 .. 10
    BY <1>1
  <2>3. \A n \in 1 .. 10 : n \in {1, 2, 3, 4, 5, 6, 7, 8, 9, 10}
    OBVIOUS
  <2>4. \A n \in 1 .. 10 : StepOf(n, G2Script[n])
    BY <1>1, <1>4, <2>3 DEF StepOf, WatchAt, CheckAt, EndTryAt
  <2>5. \A n \in 1 .. 10 : G2Script[n] = "terminate" <=> n = 8
    BY <1>4, <2>4 DEF StepOf, EndTryAt
  <2> QED BY <1>4, <2>1, <2>2, <2>4, <2>5 DEF EndTryAt
<1> QED BY <1>3, <1>4

-----------------------------------------------------------------------------
(* The rows of a call.                                                     *)

\* The queries of a call part its pages among them.
LEMMA QueriesAre ==
  ASSUME Fixed, NEW n \in Nat \ {0}
  PROVE  /\ IsFiniteSet(Queries(n)) /\ Queries(n) # {}
         /\ \A q \in Queries(n) : q[1] \in Nat /\ q[2] \in Nat \ {0} /\ q[1] + q[2] <= n
         /\ \A q \in Queries(n), r \in Queries(n) : q[1] = r[1] => q = r
         /\ \A q \in Queries(n) : q[1] = 0 /\ q[2] = n => Queries(n) = {q}
<1>1. CASE driver.how = "whole"
  <2>1. Queries(n) = {<<0, n>>}
    BY <1>1 DEF Queries
  <2>2. IsFiniteSet({<<0, n>>})
    BY FS_Singleton
  <2> QED BY <2>1, <2>2
<1>2. CASE driver.how # "whole"
  <2> DEFINE f == [k \in 0 .. (n - 1) |-> <<k, 1>>]
  <2>1. Queries(n) = {<<k, 1>> : k \in 0 .. (n - 1)}
    BY <1>2 DEF Queries
  <2>2. f \in Surjection(0 .. (n - 1), Queries(n))
    BY <2>1, Fun_IsSurj
  <2>3. IsFiniteSet(0 .. (n - 1))
    BY FS_Interval
  <2>4. IsFiniteSet(Queries(n))
    BY <2>2, <2>3, FS_Surjection
  <2>5. <<0, 1>> \in Queries(n)
    BY <2>1
  <2>6. \A q \in Queries(n) : q[1] \in Nat /\ q[2] = 1 /\ q[1] + 1 <= n /\ q = <<q[1], 1>>
    BY <2>1
  <2>7. n = 1 => Queries(n) = {<<0, 1>>}
    BY <2>1
  <2> QED BY <2>4, <2>5, <2>6, <2>7
<1> QED BY <1>1, <1>2

MapRow(r, time) == [type |-> "MAP", time |-> time, base |-> r.base, len |-> r.len]

\* The image of a finite set.
LEMMA FiniteImage ==
  ASSUME NEW S, IsFiniteSet(S), NEW f
  PROVE  IsFiniteSet({f[x] : x \in S})
<1> DEFINE g == [x \in S |-> f[x]]
           T == {f[x] : x \in S}
<1>1. g \in Surjection(S, T)
  BY Fun_IsSurj
<1> QED BY <1>1, FS_Surjection

\* The rows of a map call.
LEMMA TraceIs ==
  ASSUME Fixed, NEW r, r.base \in Nat, NEW n \in Nat \ {0}, NEW t \in Nat, NEW f
  PROVE  LET T == trace_map(r, n, t, f)
         IN  /\ IsFiniteSet(T)
             /\ \A x \in T : /\ x.base = r.base /\ x.type \in {"HEADER", "ENTRY", "MAP"}
                             /\ x.time \in Nat /\ t <= x.time /\ x.time <= t + n
             /\ OfType(T, "MAP") = {MapRow(r, t + n)}
             /\ OfType(T, "HEADER") = {Header(r, n, q, t) : q \in Queries(n)}
             /\ \A e \in OfType(T, "ENTRY") : \E q \in Queries(n) : \E k \in 0 .. (q[2] - 1) :
                  e = Entry(Header(r, n, q, t), k, f[q[1] + k])
<1> DEFINE T == trace_map(r, n, t, f)
           Q == Queries(n)
           P(q) == trace_pte(r, n, q, t, f)
           H(q) == Header(r, n, q, t)
           E(q, k) == Entry(H(q), k, f[q[1] + k])
<1>1. /\ IsFiniteSet(Q) /\ \A q \in Q : q[1] \in Nat /\ q[2] \in Nat \ {0} /\ q[1] + q[2] <= n
  BY QueriesAre
<1>2. \A q : P(q) = {H(q)} \cup IF H(q).complete THEN {E(q, k) : k \in 0 .. (q[2] - 1)} ELSE {}
  BY Zenon DEF trace_pte
<1>3. T = (UNION {P(q) : q \in Q}) \cup {MapRow(r, t + n)}
  BY Zenon DEF trace_map, MapRow
<1>4. \A q : H(q).type = "HEADER" /\ H(q).time = t + q[1] /\ H(q).base = r.base
  BY DEF Header
<1>5. \A q, k : E(q, k).type = "ENTRY" /\ E(q, k).time = t + q[1] /\ E(q, k).base = r.base
  BY <1>4 DEF Entry
<1>6. MapRow(r, t + n).type = "MAP" /\ MapRow(r, t + n).time = t + n /\ MapRow(r, t + n).base = r.base
  BY DEF MapRow
<1> HIDE DEF H, E, P, T
<1>7. \A x : x \in T <=> \/ \E q \in Q : x = H(q)
                         \/ \E q \in Q : H(q).complete /\ \E k \in 0 .. (q[2] - 1) : x = E(q, k)
                         \/ x = MapRow(r, t + n)
  <2>1. \A x, q : x \in P(q) <=> \/ x = H(q)
                                 \/ H(q).complete /\ \E k \in 0 .. (q[2] - 1) : x = E(q, k)
    BY <1>2
  <2> QED BY <1>3, <2>1
<1>8. IsFiniteSet(T)
  <2>1. \A q \in Q : IsFiniteSet(P(q))
    <3> TAKE q \in Q
    <3> DEFINE I == 0 .. (q[2] - 1)
               g == [k \in I |-> E(q, k)]
    <3>1. IsFiniteSet(I)
      <4>1. q[2] - 1 \in Int
        BY <1>1
      <4> QED BY <4>1, FS_Interval, SMTT(30)
    <3> HIDE DEF I
    <3>2. {E(q, k) : k \in I} = {g[k] : k \in I}
      OBVIOUS
    <3>3. IsFiniteSet({g[k] : k \in I})
      <4> HIDE DEF g
      <4> QED BY <3>1, FiniteImage
    <3>4. IsFiniteSet({H(q)}) /\ IsFiniteSet({})
      BY FS_Singleton, FS_EmptySet
    <3>5. IsFiniteSet(IF H(q).complete THEN {E(q, k) : k \in I} ELSE {})
      BY <3>2, <3>3, <3>4
    <3>6. IsFiniteSet({H(q)} \cup (IF H(q).complete THEN {E(q, k) : k \in I} ELSE {}))
      BY <3>4, <3>5, FS_Union
    <3> QED BY <1>2, <3>6 DEF I
  <2> DEFINE p == [q \in Q |-> P(q)]
             parts == {P(q) : q \in Q}
  <2>2. parts = {p[q] : q \in Q}
    OBVIOUS
  <2>3. IsFiniteSet({p[q] : q \in Q})
    <3> HIDE DEF p
    <3> QED BY <1>1, FiniteImage
  <2>4. IsFiniteSet(parts) /\ \A s \in parts : IsFiniteSet(s)
    BY <2>1, <2>2, <2>3
  <2> HIDE DEF parts
  <2>5. IsFiniteSet(UNION parts)
    BY <2>4, FS_UNION
  <2>6. IsFiniteSet({MapRow(r, t + n)})
    BY FS_Singleton
  <2>7. IsFiniteSet((UNION parts) \cup {MapRow(r, t + n)})
    BY <2>5, <2>6, FS_Union
  <2> QED BY <1>3, <2>7 DEF parts
<1>9. \A x \in T : /\ x.base = r.base /\ x.type \in {"HEADER", "ENTRY", "MAP"}
                   /\ x.time \in Nat /\ t <= x.time /\ x.time <= t + n
  <2> TAKE x \in T
  <2>1. CASE \E q \in Q : x = H(q)
    BY <1>1, <1>4, <2>1
  <2>2. CASE \E q \in Q : \E k \in 0 .. (q[2] - 1) : x = E(q, k)
    BY <1>1, <1>5, <2>2
  <2>3. CASE x = MapRow(r, t + n)
    BY <1>6, <2>3
  <2> QED BY <1>7, <2>1, <2>2, <2>3
<1>10. OfType(T, "MAP") = {MapRow(r, t + n)}
  BY <1>4, <1>5, <1>6, <1>7 DEF OfType
<1>11. OfType(T, "HEADER") = {H(q) : q \in Q}
  BY <1>4, <1>5, <1>6, <1>7 DEF OfType
<1>12. \A e \in OfType(T, "ENTRY") : \E q \in Q : \E k \in 0 .. (q[2] - 1) : e = E(q, k)
  BY <1>4, <1>5, <1>6, <1>7 DEF OfType
<1> QED BY <1>8, <1>9, <1>10, <1>11, <1>12 DEF T, H, E

-----------------------------------------------------------------------------
(* The invariant.                                                          *)

All == rows \cup ring

NoLoss == lost = 0 /\ lost_event_count = 0

\* The range's rows of the page table, without its free calls.
NonFree(i) == {x \in All : x.base = RangeAt(i).base /\ x.type # "FREE"}

OnRange(i, table, f) == \A k \in 0 .. (PagesAt(i) - 1) : table[PageAt(i, k)] = f[k]

IsSequence(s) == \E S : s \in Seq(S)

Types ==
  /\ Fixed
  /\ at \in 1 .. (Len(Script) + 1) /\ pc \in 1 .. EndAt
  /\ clock \in Nat /\ lost \in Nat /\ lost_event_count \in Nat
  /\ IsFiniteSet(rows) /\ IsFiniteSet(ring)
  /\ IsSequence(out)

\* How far the child can be, given where the script is, and the other way round.
InOrder ==
  /\ at = 1 => child = "absent"
  /\ child = "absent" => pc = 1 /\ ~exit_ok
  /\ exit_ok => pc = EndAt /\ child = "exited"
  /\ at > 2 => target
  /\ gate \/ pc > 2 => at > 4
  /\ Releases /\ (release \/ pc > 6) => at > 9
  /\ Releases /\ (release \/ pc > 6 \/ at = 9) =>
       \E r \in gate_map : work = [va |-> r.va, frame |-> r.frame]
  /\ verdict = "raised" => at >= EndTryAt /\ at # CheckAt
  /\ verdict # "raised" /\ at > WatchAt => child = "exited"
  /\ verdict # "raised" /\ at > WatchAt + 1 => ring = {} /\ lost = 0
  /\ verdict # "raised" /\ at > WatchAt + 2 => seen = Len(out)

\* The observer's clock is the child's, and only the ranges are mapped.
Timed ==
  /\ \A x \in All : /\ x.time \in Nat /\ x.time < clock
                    /\ \E i \in RangeIds : x.base = RangeAt(i).base
  /\ pc <= MapAt(1) => page_table[PageAt(1, 0)] = NoFrame
  /\ All # {} => pc > MapAt(1)

\* While no row is lost and no range moves, the rows of a range are those of its map
\* call, which filled the page table, and what the gate and the work took from them is
\* still so.
Logged(i) ==
  IF pc > MapAt(i)
  THEN \E t \in Nat : \E f :
         /\ NonFree(i) = trace_map(RangeAt(i), PagesAt(i), t, f)
         /\ child # "exited" /\ pc <= FreeAt(i) => OnRange(i, page_table, f)
         /\ pc > SnapAt => OnRange(i, truth, f)
         /\ Releases => /\ \A r \in gate_map : \E k \in 0 .. (PagesAt(i) - 1) :
                             r.va = PageAt(i, k) /\ r.frame = f[k]
                        /\ pc > WorkAt => worked = work.frame
  ELSE NonFree(i) = {} /\ (Releases => gate_map = {})

\* A range that has moved has two map calls.
Maps(S) == {x \in S : x.type = "MAP" /\ x.base = RangeAt(1).base /\ x.len = RangeAt(1).len}

Twice(S) == \E x \in Maps(S), y \in Maps(S) : x # y

Observed ==
  NoLoss => IF "remap" \in causes THEN Twice(All) ELSE \A i \in RangeIds : Logged(i)

\* The rows the scratch probe looks at are those up to its snapshot.
Early == {x \in All : x.time <= out[3].time}

Sampled ==
  mode = "scratch" =>
    /\ Len(out) = Said(pc)
    /\ \A j \in 1 .. Len(out) : out[j].event = ScratchEvents[j] /\ out[j].time \in Nat /\ out[j].time < clock
    /\ \A x \in All : x.time >= out[2].time
    /\ pc > SnapAt /\ NoLoss =>
         \/ Twice(Early)
         \/ \E t \in Nat : \E f : /\ {x \in Early : x.type # "FREE"} = trace_map(RangeAt(1), PagesAt(1), t, f)
                              /\ OnRange(1, truth, f)

\* What AcceptedMapIsTrue says of an accepted map.
MapIsTrue ==
  /\ mode # "scratch" => "remap" \notin causes
  /\ conflicts(published) = {}
  /\ \A a \in {b \in Allocs(mode, pages) : b.active} :
       \A va \in a.base .. (a.base + a.size - 1) :
          LET p == PageOf(va)
          IN  {h.frame : h \in forward(published, va)} = {truth[p]}
  /\ \A p \in VaPages : p \in reverse(published, truth[p])
  /\ mode \in {"pool", "t2"} => worked = work.frame

Settled == verdict = "passed" => at > CheckAt /\ MapIsTrue

GateInv == Types /\ InOrder /\ Timed /\ Observed /\ Sampled /\ Settled

-----------------------------------------------------------------------------
(* What a step leaves alone.                                               *)

\* Nothing that depends on the run's parameters alone ever changes.
Same ==
  /\ RangeIds' = RangeIds /\ SnapAt' = SnapAt /\ Releases' = Releases /\ EndAt' = EndAt
  /\ Script' = Script /\ WatchAt' = WatchAt /\ CheckAt' = CheckAt /\ EndTryAt' = EndTryAt
  /\ VaPages' = VaPages
  /\ \A i : /\ RangeAt(i)' = RangeAt(i) /\ PagesAt(i)' = PagesAt(i)
            /\ MapAt(i)' = MapAt(i) /\ FreeAt(i)' = FreeAt(i)
  /\ \A i, k : PageAt(i, k)' = PageAt(i, k)
  /\ \A i, n, t, f : trace_map(RangeAt(i), n, t, f)' = trace_map(RangeAt(i), n, t, f)

\* A step that keeps the parameters keeps everything that depends on them alone.
LEMMA FixedKept ==
  ASSUME Fixed, UNCHANGED fixed
  PROVE  Fixed' /\ Same
<1>1. mode' = mode /\ pages' = pages /\ driver' = driver
  BY DEF fixed
<1>2. Fixed'
  BY <1>1 DEF Fixed
<1>3. \A i : RangeAt(i)' = RangeAt(i)
  BY <1>1 DEF RangeAt
<1>4. \A i : PagesAt(i)' = PagesAt(i)
  BY <1>3 DEF PagesAt
<1>5. \A i : MapAt(i)' = MapAt(i) /\ FreeAt(i)' = FreeAt(i)
  BY <1>1 DEF MapAt, FreeAt
<1>6. \A i, k : PageAt(i, k)' = PageAt(i, k)
  BY <1>3 DEF PageAt
<1>7. Releases' = Releases
  BY <1>1 DEF Releases
<1>8. RangeIds' = RangeIds /\ SnapAt' = SnapAt /\ EndAt' = EndAt /\ Script' = Script
  BY <1>1 DEF RangeIds, SnapAt, EndAt, Script
<1>9. WatchAt' = WatchAt /\ CheckAt' = CheckAt /\ EndTryAt' = EndTryAt
  BY <1>7 DEF WatchAt, CheckAt, EndTryAt
<1>10. VaPages' = VaPages
  BY <1>1 DEF VaPages
<1>11. \A i, n, t, f : trace_map(RangeAt(i), n, t, f)' = trace_map(RangeAt(i), n, t, f)
  BY <1>1, <1>3 DEF trace_map, trace_pte, Header, Queries
<1> QED BY <1>2, <1>3, <1>4, <1>5, <1>6, <1>7, <1>8, <1>9, <1>10, <1>11 DEF Same

\* The parts of Logged.
Mapped(i, t, f) ==
  /\ NonFree(i) = trace_map(RangeAt(i), PagesAt(i), t, f)
  /\ child # "exited" /\ pc <= FreeAt(i) => OnRange(i, page_table, f)
  /\ pc > SnapAt => OnRange(i, truth, f)
  /\ Releases => \A r \in gate_map : \E k \in 0 .. (PagesAt(i) - 1) :
                    r.va = PageAt(i, k) /\ r.frame = f[k]
  /\ Releases /\ pc > WorkAt => worked = work.frame

\* What is logged of a range, by its parts.
LEMMA LoggedIs ==
  ASSUME NEW i
  PROVE  Logged(i) <=> IF pc > MapAt(i) THEN \E t \in Nat : \E f : Mapped(i, t, f)
                       ELSE NonFree(i) = {} /\ (Releases => gate_map = {})
BY DEF Logged, Mapped

\* The same after a step.
LEMMA LoggedIsNext ==
  ASSUME NEW i, Same
  PROVE  Logged(i)' <=>
           IF pc' > MapAt(i)
           THEN \E t \in Nat : \E f :
                  /\ NonFree(i)' = trace_map(RangeAt(i), PagesAt(i), t, f)
                  /\ child' # "exited" /\ pc' <= FreeAt(i) => OnRange(i, page_table', f)
                  /\ pc' > SnapAt => OnRange(i, truth', f)
                  /\ Releases => \A r \in gate_map' : \E k \in 0 .. (PagesAt(i) - 1) :
                                    r.va = PageAt(i, k) /\ r.frame = f[k]
                  /\ Releases /\ pc' > WorkAt => worked' = work'.frame
           ELSE NonFree(i)' = {} /\ (Releases => gate_map' = {})
BY DEF Same, Logged, OnRange, WorkAt

\* The places of the child in their order.
LEMMA PlacesInOrder ==
  ASSUME Fixed, NEW i \in RangeIds
  PROVE  /\ MapAt(i) \in Nat /\ SnapAt \in Nat /\ FreeAt(i) \in Nat /\ EndAt \in Nat
         /\ 2 < MapAt(i) /\ MapAt(i) < SnapAt /\ SnapAt < FreeAt(i) /\ FreeAt(i) < EndAt - 1
         /\ Releases => /\ SnapAt < 6 /\ MapAt(i) < 6 /\ WorkAt < FreeAt(i)
                        /\ RangeIds = {1} /\ i = 1
<1>1. RangeIds = IF mode = "alias" THEN {1, 2} ELSE {1}
  BY RangesAre
<1> QED BY <1>1 DEF MapAt, SnapAt, FreeAt, EndAt, WorkAt, Releases, Fixed, AllModes

\* A step that neither maps the range nor takes the snapshot nor works keeps what is
\* logged of the range.
LEMMA LoggedKept ==
  ASSUME Types, Same, NEW i \in RangeIds, Logged(i),
         NonFree(i)' = NonFree(i),
         pc' \in Nat,
         pc' = pc \/ (pc' = pc + 1 /\ pc # MapAt(i)),
         \/ child' = "exited"
         \/ pc' > FreeAt(i)
         \/ child # "exited" /\ \A k \in 0 .. (PagesAt(i) - 1) :
                                   page_table'[PageAt(i, k)] = page_table[PageAt(i, k)],
         \/ truth' = truth /\ (pc > SnapAt \/ ~(pc' > SnapAt))
         \/ pc = SnapAt /\ child # "exited" /\ truth' = page_table,
         gate_map' = gate_map,
         \/ worked' = worked /\ work'.frame = work.frame /\ (pc > WorkAt \/ ~(pc' > WorkAt))
         \/ Releases /\ pc' > WorkAt => worked' = work'.frame
  PROVE  Logged(i)'
<1>1. pc \in Nat /\ pc >= 1
  BY DEF Types
<1>2. /\ MapAt(i) \in Nat /\ SnapAt \in Nat /\ FreeAt(i) \in Nat
      /\ MapAt(i) < SnapAt /\ SnapAt < FreeAt(i)
  BY PlacesInOrder DEF Types
<1>3. CASE pc > MapAt(i)
  <2>1. PICK t, f : t \in Nat /\ Mapped(i, t, f)
    BY <1>3, LoggedIs
  <2>2. pc' > MapAt(i)
    BY <1>1, <1>2, <1>3
  <2>3. child' # "exited" /\ pc' <= FreeAt(i) => OnRange(i, page_table', f)
    BY <1>1, <1>2, <2>1 DEF Mapped, OnRange
  <2>4. pc' > SnapAt => OnRange(i, truth', f)
    BY <1>1, <1>2, <2>1 DEF Mapped
  <2>5. Releases /\ pc' > WorkAt => worked' = work'.frame
    BY <1>1, <2>1 DEF Mapped
  <2>6. NonFree(i)' = trace_map(RangeAt(i), PagesAt(i), t, f)
    BY <2>1 DEF Mapped
  <2>7. Releases => \A r \in gate_map' : \E k \in 0 .. (PagesAt(i) - 1) :
                       r.va = PageAt(i, k) /\ r.frame = f[k]
    BY <2>1 DEF Mapped
  <2> DEFINE Q(u, g) ==
          /\ NonFree(i)' = trace_map(RangeAt(i), PagesAt(i), u, g)
          /\ child' # "exited" /\ pc' <= FreeAt(i) => OnRange(i, page_table', g)
          /\ pc' > SnapAt => OnRange(i, truth', g)
          /\ Releases => \A r \in gate_map' : \E k \in 0 .. (PagesAt(i) - 1) :
                            r.va = PageAt(i, k) /\ r.frame = g[k]
          /\ Releases /\ pc' > WorkAt => worked' = work'.frame
  <2>8. Q(t, f)
    BY <2>3, <2>4, <2>5, <2>6, <2>7, Zenon
  <2>9. Logged(i)' <=> IF pc' > MapAt(i) THEN \E u \in Nat : \E g : Q(u, g)
                       ELSE NonFree(i)' = {} /\ (Releases => gate_map' = {})
    BY LoggedIsNext, Zenon
  <2> HIDE DEF Q
  <2> QED BY <2>1, <2>2, <2>8, <2>9
<1>4. CASE ~(pc > MapAt(i))
  <2>1. NonFree(i) = {} /\ (Releases => gate_map = {})
    BY <1>4, LoggedIs
  <2>2. ~(pc' > MapAt(i))
    BY <1>1, <1>2, <1>4
  <2> QED BY <2>1, <2>2, LoggedIsNext
<1> QED BY <1>3, <1>4

\* The ring takes the rows of a call, or the loss is counted.
LEMMA SubmitIs ==
  ASSUME Types, target, NEW new, IsFiniteSet(new), NEW why, Submit(new, why)
  PROVE  /\ IsFiniteSet(ring') /\ lost' \in Nat
         /\ lost' = 0 => lost = 0 /\ ring' = ring \cup new
         /\ ring \subseteq ring' /\ ring' \subseteq ring \cup new
         /\ causes \subseteq causes'
         /\ "remap" \in why => "remap" \in causes'
         /\ "remap" \in causes' => "remap" \in causes \/ "remap" \in why
<1>1. PICK dropped \in Drops(new) :
        /\ ring' = IF target THEN ring \cup (new \ dropped) ELSE ring
        /\ lost' = lost + Cardinality(dropped)
        /\ Fault(why \cup IF dropped = {} THEN {} ELSE {"loss"})
  BY Zenon DEF Submit
<1>2. dropped \subseteq new
  BY DEF Drops
<1>3. IsFiniteSet(dropped) /\ IsFiniteSet(new \ dropped) /\ IsFiniteSet(ring) /\ lost \in Nat
  <2>1. IsFiniteSet(dropped)
    BY <1>2, FS_Subset
  <2>2. new \ dropped \subseteq new
    OBVIOUS
  <2>3. IsFiniteSet(new \ dropped)
    BY <2>2, FS_Subset, Zenon
  <2> QED BY <2>1, <2>3 DEF Types
<1>4. Cardinality(dropped) \in Nat /\ (Cardinality(dropped) = 0 <=> dropped = {})
  BY <1>3, FS_CardinalityType, FS_EmptySet
<1>5. IsFiniteSet(ring \cup (new \ dropped))
  BY <1>3, FS_Union
<1>6. causes' = causes \cup (why \cup IF dropped = {} THEN {} ELSE {"loss"})
  BY <1>1 DEF Fault, NewCauses
<1>7. lost' = 0 => lost = 0 /\ dropped = {}
  BY <1>1, <1>3, <1>4
<1>8. lost' \in Nat
  BY <1>1, <1>3, <1>4
<1>9. ring' = ring \cup (new \ dropped)
  BY <1>1
<1>10. IsFiniteSet(ring')
  BY <1>5, <1>9
<1>11. causes \subseteq causes' /\ ("remap" \in why => "remap" \in causes')
       /\ ("remap" \in causes' => "remap" \in causes \/ "remap" \in why)
  BY <1>6
<1>12. /\ lost' = 0 => lost = 0 /\ ring' = ring \cup new
       /\ ring \subseteq ring' /\ ring' \subseteq ring \cup new
  BY <1>7, <1>9
<1> QED BY <1>8, <1>10, <1>11, <1>12, Zenon

-----------------------------------------------------------------------------
(* The steps of the script.                                                *)

\* Where the script is when it takes a step.
LEMMA StepAt ==
  ASSUME Types, NEW step, At(step)
  PROVE  at \in 1 .. Len(Script) /\ at <= Len(Script) /\ StepOf(at, step)
<1>1. Len(Script) \in Nat /\ \A n \in 1 .. Len(Script) : StepOf(n, Script[n])
  BY ScriptIs DEF Types
<1>2. at \in 1 .. (Len(Script) + 1) /\ ~(at > Len(Script)) /\ Script[at] = step
  BY DEF Types, At, Ended
<1> QED BY <1>1, <1>2

\* The script awaits an event at three places at most.
LEMMA AwaitingAt ==
  ASSUME Types, Awaiting
  PROVE  at = 3 \/ (Releases /\ at \in {5, 10})
<1>1. Len(Script) \in Nat /\ \A n \in 1 .. Len(Script) : StepOf(n, Script[n])
  BY ScriptIs DEF Types
<1>2. at \in 1 .. Len(Script)
  BY <1>1 DEF Types, Awaiting, Ended
<1>3. StepOf(at, Script[at])
  BY <1>1, <1>2
<1> QED BY <1>3 DEF Awaiting, StepOf

\* Polling moves the rows, and moves the loss, from the ring to the observer.
LEMMA PollIs ==
  ASSUME Types, NoPoll \/ poll
  PROVE  /\ All' = All /\ (NoLoss' => NoLoss)
         /\ IsFiniteSet(rows') /\ IsFiniteSet(ring')
         /\ lost' \in Nat /\ lost_event_count' \in Nat
         /\ lost = 0 => lost' = 0
         /\ ring = {} => ring' = {}
<1>1. CASE NoPoll
  BY <1>1 DEF NoPoll, All, NoLoss, Types
<1>2. CASE poll
  <2>1. /\ rows' = rows \cup ring /\ ring' = {}
        /\ lost_event_count' = lost_event_count + lost /\ lost' = 0
    BY <1>2 DEF poll
  <2>2. IsFiniteSet(rows \cup ring) /\ IsFiniteSet({})
    BY FS_Union, FS_EmptySet DEF Types
  <2>3. lost_event_count \in Nat /\ lost \in Nat
    BY DEF Types
  <2>4. IsFiniteSet(rows') /\ IsFiniteSet(ring')
    BY <2>1, <2>2
  <2>5. All' = All
    BY <2>1 DEF All
  <2>6. NoLoss' => NoLoss
    BY <2>1, <2>3 DEF NoLoss
  <2>7. lost_event_count' \in Nat
    BY <2>1, <2>3
  <2> QED BY <2>1, <2>4, <2>5, <2>6, <2>7
<1> QED BY <1>1, <1>2

\* The script touches the child only when it starts it.
LEMMA ScriptFrame ==
  ASSUME Types, ScriptStep
  PROVE  /\ NoPoll \/ poll
         /\ UNCHANGED <<fixed, pc, exit_ok, out, clock, page_table, truth, worked>>
         /\ child' = child \/ (at = 1 /\ child' = "running")
         /\ "remap" \in causes' <=> "remap" \in causes
<1> USE DEF Idle, childVars, fixed
<1>1. CASE Spawn
  <2>1. at = 1
    <3>1. At("spawn")
      BY <1>1 DEF Spawn
    <3> QED BY <3>1, StepAt DEF StepOf
  <2> QED BY <1>1, <2>1 DEF Spawn, faultVars
<1>2. CASE SetTargetTgid
  BY <1>2 DEF SetTargetTgid
<1>3. CASE OpenFile
  BY <1>3 DEF OpenFile
<1>4. CASE ReadPipe
  BY <1>4 DEF ReadPipe
<1>5. CASE AwaitEnds
  BY <1>5 DEF AwaitEnds
<1>6. CASE Watch
  BY <1>6 DEF Watch
<1>7. CASE TimesOut
  BY <1>7 DEF TimesOut, NewCauses
<1>8. CASE Settle
  BY <1>8 DEF Settle
<1>9. CASE Communicate
  BY <1>9 DEF Communicate
<1>10. CASE PreLedger
  BY <1>10 DEF PreLedger
<1>11. CASE WriteWork
  BY <1>11 DEF WriteWork
<1>12. CASE Terminate
  BY <1>12 DEF Terminate
<1>13. CASE Kill
  BY <1>13 DEF Kill
<1>14. CASE Check
  BY <1>14 DEF Check
<1> QED BY <1>1, <1>2, <1>3, <1>4, <1>5, <1>6, <1>7, <1>8, <1>9, <1>10, <1>11, <1>12,
           <1>13, <1>14 DEF ScriptStep

Numbers ==
  /\ Releases => WatchAt = 11 /\ CheckAt = 14 /\ EndTryAt = 15
  /\ ~Releases => WatchAt = 5 /\ CheckAt = 10 /\ EndTryAt = 8

\* An exception goes to the finally clause.
LEMMA RaiseIs ==
  ASSUME Types, Raise
  PROVE  verdict' = "raised" /\ at' = EndTryAt
BY ScriptIs, Zenon DEF Raise, Types

\* The steps of a script follow each other, or leave for the finally clause.
LEMMA ScriptOrder ==
  ASSUME Types, InOrder, ScriptStep
  PROVE  InOrder' /\ at' \in 1 .. (Len(Script) + 1)
<1>1. Same
  BY ScriptFrame, FixedKept DEF Types
<1>2. /\ UNCHANGED <<pc, exit_ok, out>> /\ (child' = child \/ (at = 1 /\ child' = "running"))
      /\ (ring = {} => ring' = {}) /\ (lost = 0 => lost' = 0)
  BY ScriptFrame, PollIs
<1>3. Numbers /\ Len(Script) = IF Releases THEN 16 ELSE 10
  BY ScriptIs DEF Types, Numbers, WatchAt, CheckAt, EndTryAt
<1>4. at \in Nat /\ at >= 1 /\ pc \in Nat /\ at <= Len(Script) + 1
  BY <1>3 DEF Types
<1> DEFINE WorkOk == \E r \in gate_map : work = [va |-> r.va, frame |-> r.frame]
           WorkOkNext == \E r \in gate_map' : work' = [va |-> r.va, frame |-> r.frame]
<1>5. /\ at = 1 => child = "absent"
      /\ child = "absent" => pc = 1 /\ ~exit_ok
      /\ exit_ok => pc = EndAt /\ child = "exited"
      /\ at > 2 => target
      /\ gate \/ pc > 2 => at > 4
      /\ Releases /\ (release \/ pc > 6) => at > 9
      /\ Releases /\ (release \/ pc > 6 \/ at = 9) => WorkOk
      /\ verdict = "raised" => at >= EndTryAt /\ at # CheckAt
      /\ verdict # "raised" /\ at > WatchAt => child = "exited"
      /\ verdict # "raised" /\ at > WatchAt + 1 => ring = {} /\ lost = 0
      /\ verdict # "raised" /\ at > WatchAt + 2 => seen = Len(out)
  BY Zenon DEF InOrder
<1>6. ASSUME /\ at' = 1 => child' = "absent"
             /\ child' = "absent" => pc' = 1 /\ ~exit_ok'
             /\ exit_ok' => pc' = EndAt /\ child' = "exited"
             /\ at' > 2 => target'
             /\ gate' \/ pc' > 2 => at' > 4
             /\ Releases /\ (release' \/ pc' > 6) => at' > 9
             /\ Releases /\ (release' \/ pc' > 6 \/ at' = 9) => WorkOkNext
             /\ verdict' = "raised" => at' >= EndTryAt /\ at' # CheckAt
             /\ verdict' # "raised" /\ at' > WatchAt => child' = "exited"
             /\ verdict' # "raised" /\ at' > WatchAt + 1 => ring' = {} /\ lost' = 0
             /\ verdict' # "raised" /\ at' > WatchAt + 2 => seen' = Len(out')
      PROVE  InOrder'
  BY <1>1, <1>6 DEF InOrder, Same
<1>7. gate_map' = gate_map /\ work' = work => (WorkOkNext <=> WorkOk)
  OBVIOUS
<1> HIDE DEF WorkOk
<1>10. CASE Spawn
  <2>1. StepOf(at, "spawn") /\ at <= Len(Script)
    <3>1. At("spawn")
      BY <1>10 DEF Spawn
    <3> QED BY <3>1, StepAt
  <2>2. at = 1
    BY <2>1 DEF StepOf
  <2>3. at' = at + 1 /\ UNCHANGED <<verdict, gate, release, seen, target, gate_map, work>>
    BY <1>10, <2>2 DEF Spawn
  <2> HIDE DEF WorkOkNext
  <2> QED BY <1>1, <1>2, <1>3, <1>4, <1>5, <1>6, <1>7, <2>2, <2>3 DEF Numbers
<1>11. CASE SetTargetTgid
  <2>1. StepOf(at, "target") /\ at <= Len(Script)
    <3>1. At("target")
      BY <1>11 DEF SetTargetTgid
    <3> QED BY <3>1, StepAt
  <2>2. at = 2
    BY <2>1 DEF StepOf
  <2>3. at' = at + 1 /\ target' /\ UNCHANGED <<verdict, gate, release, seen, gate_map, work>>
    BY <1>11, <2>2 DEF SetTargetTgid
  <2> HIDE DEF WorkOkNext
  <2> QED BY <1>1, <1>2, <1>3, <1>4, <1>5, <1>6, <1>7, <2>2, <2>3 DEF Numbers
<1>12. CASE OpenFile
  <2>1. /\ at = 4 \/ (Releases /\ at = 9)
        /\ at = 4 => ~At("release")
        /\ at = 9 => ~At("open_gate")
    BY <1>12, StepAt DEF OpenFile, StepOf
  <2>2. gate' = (gate \/ At("open_gate")) /\ release' = (release \/ At("release"))
    BY <1>12 DEF OpenFile
  <2>3. (gate' => gate \/ at = 4) /\ (release' => release \/ (Releases /\ at = 9))
    <3>1. at = 4 \/ (at = 9 /\ at # 4)
      BY <2>1
    <3> QED BY <2>1, <2>2, <3>1, Zenon
  <2>4. /\ at' = at + 1
        /\ UNCHANGED <<verdict, seen, target, gate_map, work>>
    BY <1>12 DEF OpenFile
  <2> HIDE DEF WorkOkNext
  <2> QED BY <1>1, <1>2, <1>3, <1>4, <1>5, <1>6, <1>7, <2>1, <2>3, <2>4 DEF Numbers
<1>13. CASE ReadPipe
  <2>1. at = 3 \/ (Releases /\ at \in {5, 10})
    BY <1>13, AwaitingAt DEF ReadPipe
  <2>2. seen' = Len(out) /\ UNCHANGED <<at, verdict, gate, release, target, gate_map, work>>
    BY <1>13 DEF ReadPipe
  <2> HIDE DEF WorkOkNext
  <2> QED BY <1>1, <1>2, <1>3, <1>4, <1>5, <1>6, <1>7, <2>1, <2>2 DEF Numbers
<1>14. CASE AwaitEnds
  <2>1. at = 3 \/ (Releases /\ at \in {5, 10})
    BY <1>14, AwaitingAt DEF AwaitEnds
  <2>2. Raise => verdict' = "raised" /\ at' = EndTryAt
    BY RaiseIs
  <2>3. /\ seen' = Len(out) /\ UNCHANGED <<gate, release, target, gate_map, work>>
        /\ \/ at' = at + 1 /\ verdict' = verdict
           \/ verdict' = "raised" /\ at' = EndTryAt
    BY <1>14, <2>2 DEF AwaitEnds
  <2> HIDE DEF WorkOkNext
  <2> QED BY <1>1, <1>2, <1>3, <1>4, <1>5, <1>6, <1>7, <2>1, <2>3 DEF Numbers
<1>15. CASE Watch
  <2>1. StepOf(at, "watch") /\ at <= Len(Script)
    <3>1. At("watch")
      BY <1>15 DEF Watch
    <3> QED BY <3>1, StepAt
  <2>2. at = WatchAt
    BY <2>1 DEF StepOf
  <2>3. /\ at' = at + 1 /\ child = "exited"
        /\ UNCHANGED <<verdict, gate, release, seen, target, gate_map, work>>
    BY <1>15, <2>2 DEF Watch
  <2> HIDE DEF WorkOkNext
  <2> QED BY <1>1, <1>2, <1>3, <1>4, <1>5, <1>6, <1>7, <2>2, <2>3 DEF Numbers
<1>16. CASE TimesOut
  <2>1. at = 3 \/ (Releases /\ at \in {5, 10}) \/ at = WatchAt
    BY <1>16, AwaitingAt, StepAt DEF TimesOut, StepOf
  <2>2. Raise => verdict' = "raised" /\ at' = EndTryAt
    BY RaiseIs
  <2>3. /\ verdict' = "raised" /\ at' = EndTryAt
        /\ UNCHANGED <<gate, release, seen, target, gate_map, work>>
    BY <1>16, <2>2 DEF TimesOut
  <2> HIDE DEF WorkOkNext
  <2> QED BY <1>1, <1>2, <1>3, <1>4, <1>5, <1>6, <1>7, <2>1, <2>3 DEF Numbers
<1>17. CASE Settle
  <2>1. StepOf(at, "settle") /\ at <= Len(Script)
    <3>1. At("settle")
      BY <1>17 DEF Settle
    <3> QED BY <3>1, StepAt
  <2>2. ring' = {} /\ lost' = 0
    BY <1>17 DEF Settle, poll
  <2>3. at = WatchAt + 1 \/ (Releases /\ at = 6)
    BY <2>1 DEF StepOf
  <2>4. at' = at + 1 /\ UNCHANGED <<verdict, gate, release, seen, target, gate_map, work>>
    BY <1>17, <2>3 DEF Settle
  <2> HIDE DEF WorkOkNext
  <2> QED BY <1>1, <1>2, <1>3, <1>4, <1>5, <1>6, <1>7, <2>2, <2>3, <2>4 DEF Numbers
<1>18. CASE Communicate
  <2>1. StepOf(at, "communicate") /\ at <= Len(Script)
    <3>1. At("communicate")
      BY <1>18 DEF Communicate
    <3> QED BY <3>1, StepAt
  <2>2. at = WatchAt + 2
    BY <2>1 DEF StepOf
  <2>3. /\ at' = at + 1 /\ seen' = Len(out)
        /\ UNCHANGED <<verdict, gate, release, target, gate_map, work>>
    BY <1>18, <2>2 DEF Communicate
  <2> HIDE DEF WorkOkNext
  <2> QED BY <1>1, <1>2, <1>3, <1>4, <1>5, <1>6, <1>7, <2>2, <2>3 DEF Numbers
<1>19. CASE PreLedger
  <2>1. StepOf(at, "pre_ledger") /\ at <= Len(Script)
    <3>1. At("pre_ledger")
      BY <1>19 DEF PreLedger
    <3> QED BY <3>1, StepAt
  <2>2. Raise => verdict' = "raised" /\ at' = EndTryAt
    BY RaiseIs
  <2>3. Releases /\ at = 7
    BY <2>1 DEF StepOf
  <2>4. /\ UNCHANGED <<gate, release, seen, target, work>>
        /\ \/ at' = at + 1 /\ verdict' = verdict
           \/ verdict' = "raised" /\ at' = EndTryAt
    BY <1>19, <2>3, <2>2 DEF PreLedger
  <2> HIDE DEF WorkOkNext
  <2> QED BY <1>1, <1>2, <1>3, <1>4, <1>5, <1>6, <1>7, <2>3, <2>4 DEF Numbers
<1>20. CASE WriteWork
  <2>1. StepOf(at, "write_work") /\ at <= Len(Script)
    <3>1. At("write_work")
      BY <1>20 DEF WriteWork
    <3> QED BY <3>1, StepAt
  <2>2. WorkOkNext
    BY <1>20 DEF WriteWork
  <2>3. Releases /\ at = 8
    BY <2>1 DEF StepOf
  <2>4. at' = at + 1 /\ UNCHANGED <<verdict, gate, release, seen, target, gate_map>>
    BY <1>20, <2>3 DEF WriteWork
  <2> HIDE DEF WorkOkNext
  <2> QED BY <1>1, <1>2, <1>3, <1>4, <1>5, <1>6, <1>7, <2>2, <2>3, <2>4 DEF Numbers
<1>21. CASE Terminate
  <2>1. StepOf(at, "terminate") /\ at <= Len(Script)
    <3>1. At("terminate")
      BY <1>21 DEF Terminate
    <3> QED BY <3>1, StepAt
  <2>2. at = EndTryAt
    BY <2>1 DEF StepOf
  <2>3. /\ at' = at + 1 /\ ~gate' /\ ~release'
        /\ UNCHANGED <<verdict, seen, target, gate_map, work>>
    BY <1>21, <2>2 DEF Terminate
  <2> HIDE DEF WorkOkNext
  <2> QED BY <1>1, <1>2, <1>3, <1>4, <1>5, <1>6, <1>7, <2>2, <2>3 DEF Numbers
<1>22. CASE Kill
  <2>1. StepOf(at, "kill") /\ at <= Len(Script)
    <3>1. At("kill")
      BY <1>22 DEF Kill
    <3> QED BY <3>1, StepAt
  <2>2. at = EndTryAt + 1
    BY <2>1 DEF StepOf
  <2>3. UNCHANGED <<gate, release, seen, target, gate_map, work>>
    BY <1>22 DEF Kill
  <2>4. \/ child = "exited" /\ verdict # "raised" /\ at' = at + 1 /\ verdict' = verdict
        \/ at' = Len(Script) + 1 /\ verdict' = "raised"
    BY <1>22, Zenon DEF Kill
  <2> HIDE DEF WorkOkNext
  <2> QED BY <1>1, <1>2, <1>3, <1>4, <1>5, <1>6, <1>7, <2>2, <2>3, <2>4 DEF Numbers
<1>23. CASE Check
  <2>1. StepOf(at, "check") /\ at <= Len(Script)
    <3>1. At("check")
      BY <1>23 DEF Check
    <3> QED BY <3>1, StepAt
  <2>2. at = CheckAt
    BY <2>1 DEF StepOf
  <2>3. at' = at + 1 /\ UNCHANGED <<gate, release, seen, target, gate_map, work>>
    BY <1>23 DEF Check
  <2>4. verdict # "raised"
    BY <1>5, <2>2
  <2> HIDE DEF WorkOkNext
  <2> QED BY <1>1, <1>2, <1>3, <1>4, <1>5, <1>6, <1>7, <2>2, <2>3, <2>4 DEF Numbers
<1> QED BY <1>10, <1>11, <1>12, <1>13, <1>14, <1>15, <1>16, <1>17, <1>18,
           <1>19, <1>20, <1>21, <1>22, <1>23 DEF ScriptStep

-----------------------------------------------------------------------------
(* What the ledgers make of the rows of one map call.                      *)

\* An entry says of a page of the range what the call put there.
LEMMA EntryIs ==
  ASSUME Fixed, NEW i \in RangeIds, NEW t \in Nat, NEW f, NEW R,
         R \subseteq All, NonFree(i) = trace_map(RangeAt(i), PagesAt(i), t, f),
         NEW h \in OfType(R, "HEADER"), h.base = RangeAt(i).base,
         NEW e \in EntriesOf(R, h)
  PROVE  \E k \in 0 .. (PagesAt(i) - 1) : PageVa(h, e) = PageAt(i, k) /\ e.frame = f[k]
<1> DEFINE r == RangeAt(i)
           n == PagesAt(i)
           T == trace_map(r, n, t, f)
           H(q) == Header(r, n, q, t)
<1>1. r.base \in Nat /\ n \in Nat \ {0} /\ PageSize \in Nat \ {0} /\ driver.map_offset \in Nat
  BY RangesAre, ProbeAssumption DEF Fixed
<1>2. /\ h \in R /\ h.type = "HEADER" /\ e \in R /\ e.type = "ENTRY"
      /\ e.time = h.time /\ e.base = h.base
  BY DEF OfType, EntriesOf, pte_signature
<1>3. h \in T /\ e \in T
  BY <1>2 DEF NonFree
<1>4. /\ OfType(T, "HEADER") = {H(q) : q \in Queries(n)}
      /\ \A x \in OfType(T, "ENTRY") : \E q \in Queries(n) : \E k \in 0 .. (q[2] - 1) :
            x = Entry(H(q), k, f[q[1] + k])
  BY <1>1, TraceIs
<1>5. PICK q \in Queries(n) : h = H(q)
  <2>1. h \in OfType(T, "HEADER")
    BY <1>2, <1>3 DEF OfType
  <2> QED BY <1>4, <2>1
<1>6. PICK p \in Queries(n) : \E k \in 0 .. (p[2] - 1) : e = Entry(H(p), k, f[p[1] + k])
  <2>1. e \in OfType(T, "ENTRY")
    BY <1>2, <1>3 DEF OfType
  <2> QED BY <1>4, <2>1
<1>p. PICK k \in 0 .. (p[2] - 1) : e = Entry(H(p), k, f[p[1] + k])
  BY <1>6
<1>7. /\ q[1] \in Nat /\ p[1] \in Nat /\ p[2] \in Nat \ {0} /\ p[1] + p[2] <= n
      /\ k \in Nat /\ k <= p[2] - 1
  BY <1>1, QueriesAre
<1>8. h.time = t + q[1] /\ h.base = r.base /\ h.map_offset = driver.map_offset
      /\ h.offset = driver.map_offset + q[1] * PageSize
  BY <1>5 DEF Header
<1>9. e.time = t + p[1] /\ e.index = k /\ e.frame = f[p[1] + k]
  BY <1>p DEF Entry, Header
<1>10. p[1] = q[1]
  BY <1>2, <1>7, <1>8, <1>9
<1> DEFINE j == p[1] + k
<1>11. j \in 0 .. (n - 1) /\ e.frame = f[j]
  BY <1>1, <1>7, <1>9
<1>12. PageVa(h, e) = PageAt(i, j)
  <2> DEFINE a == p[1] * PageSize
             b == k * PageSize
             m == driver.map_offset
  <2>1. a \in Nat /\ b \in Nat /\ j * PageSize = a + b
    BY <1>1, <1>7
  <2>2. PageVa(h, e) = (r.base + (m + a)) + (b - m)
    BY <1>8, <1>9, <1>10 DEF PageVa
  <2>3. PageAt(i, j) = r.base + j * PageSize
    BY DEF PageAt
  <2> HIDE DEF a, b, m, r, j
  <2> QED BY <1>1, <2>1, <2>2, <2>3 DEF m
<1> QED BY <1>11, <1>12

\* A segment of allocation a shows a page of the range.
Shows(s, i, f, a) ==
  \E k \in 0 .. (PagesAt(i) - 1) :
     s.va = PageAt(i, k) /\ s.frame = f[k] /\ decode_pte(s)
       /\ s.from = Larger(a.base, s.va)
       /\ s.to = Smaller(a.base + a.size, s.va + PageSize)

\* Rows of the map that a ledger's segments give: the page is one of the call's, and the
\* frame the one that the call put behind it.
LEMMA SegmentsAre ==
  ASSUME Fixed, NEW i \in RangeIds, NEW t \in Nat, NEW f, NEW R, NEW a, NEW at0, NEW end,
         R \subseteq All, NonFree(i) = trace_map(RangeAt(i), PagesAt(i), t, f),
         \A x \in R : Covers(x, a) => x.base = RangeAt(i).base
  PROVE  \A s \in build_allocation_ledger(R, a, at0, end).segments : Shows(s, i, f, a)
<1> DEFINE heads == {r \in OfType(R, "HEADER") : Covers(r, a)}
<1>1. build_allocation_ledger(R, a, at0, end).segments = {s \in Extents(R, a, heads) : decode_pte(s)}
  BY DEF build_allocation_ledger
<1>2. \A s \in Extents(R, a, heads) :
         \E h \in heads : \E e \in EntriesOf(R, h) : s = Segment(a, h, e)
  BY DEF Extents
<1>3. \A h \in heads : h \in OfType(R, "HEADER") /\ h.base = RangeAt(i).base
  BY DEF OfType
<1> HIDE DEF heads
<1>4. ASSUME NEW s \in Extents(R, a, heads), decode_pte(s)
      PROVE  Shows(s, i, f, a)
  <2>0. PICK h \in heads : \E e \in EntriesOf(R, h) : s = Segment(a, h, e)
    BY <1>2
  <2>1. PICK e \in EntriesOf(R, h) : s = Segment(a, h, e)
    BY <2>0
  <2>2. PICK k \in 0 .. (PagesAt(i) - 1) : PageVa(h, e) = PageAt(i, k) /\ e.frame = f[k]
    BY <1>3, EntryIs
  <2>3. s.va = PageVa(h, e) /\ s.frame = e.frame
        /\ s.from = Larger(a.base, s.va)
        /\ s.to = Smaller(a.base + a.size, s.va + PageSize)
    BY <2>1 DEF Segment
  <2> QED BY <1>4, <2>2, <2>3 DEF Shows
<1> QED BY <1>1, <1>4

-----------------------------------------------------------------------------
(* The script keeps what is known of the rows.                             *)

\* The script keeps the types.
LEMMA ScriptTypes ==
  ASSUME Types, InOrder, ScriptStep
  PROVE  Types'
<1>1. UNCHANGED fixed /\ UNCHANGED <<pc, clock, out>>
  BY ScriptFrame
<1>2. Fixed' /\ Same
  BY <1>1, FixedKept DEF Types
<1>3. at' \in 1 .. (Len(Script) + 1)
  BY ScriptOrder
<1>4. /\ IsFiniteSet(rows') /\ IsFiniteSet(ring')
      /\ lost' \in Nat /\ lost_event_count' \in Nat
  BY ScriptFrame, PollIs
<1>5. IsSequence(out)'
  BY <1>1 DEF Types, IsSequence
<1> QED BY <1>1, <1>2, <1>3, <1>4, <1>5 DEF Types, Same

\* The script moves rows, and makes none.
LEMMA ScriptTimed ==
  ASSUME Types, InOrder, Timed, ScriptStep
  PROVE  Timed'
<1>1. UNCHANGED fixed /\ UNCHANGED <<pc, clock, page_table>>
  BY ScriptFrame
<1>2. Same
  BY <1>1, FixedKept DEF Types
<1>3. All' = All
  BY ScriptFrame, PollIs
<1> QED BY <1>1, <1>2, <1>3 DEF Timed, Same

\* The script keeps what the scratch probe will look at.
LEMMA ScriptSampled ==
  ASSUME Types, InOrder, Sampled, ScriptStep
  PROVE  Sampled'
<1>1. UNCHANGED fixed /\ UNCHANGED <<pc, clock, out, truth>>
  BY ScriptFrame
<1>2. Same
  BY <1>1, FixedKept DEF Types
<1>3. All' = All /\ (NoLoss' => NoLoss)
  BY ScriptFrame, PollIs
<1>4. mode' = mode
  BY <1>1 DEF fixed
<1>5. Early' = Early
  BY <1>1, <1>3 DEF Early
<1>6. Said(pc)' = Said(pc)
  BY <1>1 DEF Said
<1>7. Twice(Early)' <=> Twice(Early)
  BY <1>2, <1>5 DEF Twice, Maps, Same
<1>8. \A f : OnRange(1, truth, f)' <=> OnRange(1, truth, f)
  BY <1>1, <1>2 DEF OnRange, Same
<1> QED BY <1>1, <1>2, <1>3, <1>4, <1>5, <1>6, <1>7, <1>8 DEF Sampled, Same

\* Where the map of the gate and the work come from.
LEMMA ScriptTakes ==
  ASSUME Types, InOrder, ScriptStep
  PROVE  /\ gate_map' = gate_map \/ PreLedger
         /\ work' = work \/ (Releases /\ at = 8)
<1>1. CASE WriteWork
  <2>1. At("write_work") /\ gate_map' = gate_map
    BY <1>1 DEF WriteWork
  <2>2. Releases /\ at = 8
    BY <2>1, StepAt DEF StepOf
  <2> QED BY <2>1, <2>2
<1> QED BY <1>1 DEF ScriptStep, Spawn, SetTargetTgid, OpenFile, ReadPipe, AwaitEnds, Watch,
           TimesOut, Settle, Communicate, PreLedger, WriteWork, Terminate, Kill, Check

\* The gate's map says of each page what the call put there.
LEMMA GateMapIs ==
  ASSUME Types, InOrder, Timed, Observed, NoLoss, "remap" \notin causes, PreLedger,
         gate_map' # gate_map
  PROVE  \E t \in Nat : \E f :
           /\ pc > MapAt(1) /\ Mapped(1, t, f)
           /\ \A r \in gate_map' : \E k \in 0 .. (PagesAt(1) - 1) :
                 r.va = PageAt(1, k) /\ r.frame = f[k]
<1> DEFINE allocated == TimeOf("ALLOCATED")
           L(a) == build_allocation_ledger(rows, a, allocated, OpenTeardown)
           ledgers == {L(a) : a \in Allocs(mode, pages)}
           map == map_rows_from_segments(ledgers)
<1>1. gate_map' = map /\ map # {}
  BY DEF PreLedger, build_preledger
<1>2. Releases /\ Logged(1)
  <2>1. Releases
    <3>1. At("pre_ledger")
      BY DEF PreLedger
    <3> QED BY <3>1, StepAt DEF StepOf
  <2> QED BY <2>1, RangesAre DEF Observed, Types
<1>3. RangeIds = {1}
  BY <1>2, RangesAre DEF Releases, Types
<1>4. \A x \in rows : x.base = RangeAt(1).base
  BY <1>3 DEF Timed, All
<1>5. \A r \in map : \E a \in Allocs(mode, pages) : \E s \in L(a).segments :
         r.va = s.va /\ r.frame = s.frame
  BY DEF map_rows_from_segments
<1>6. rows \subseteq All
  BY DEF All
<1>7. \A a : L(a).segments # {} => NonFree(1) # {}
  <2> TAKE a
  <2> HAVE L(a).segments # {}
  <2>1. \E h \in rows : h.type = "HEADER"
    BY DEF build_allocation_ledger, Extents, OfType
  <2> QED BY <1>4, <1>6, <2>1 DEF NonFree
<1>8. NonFree(1) # {}
  BY <1>1, <1>5, <1>7
<1>9. pc > MapAt(1) /\ \E t \in Nat : \E f : Mapped(1, t, f)
  BY <1>2, <1>8, LoggedIs
<1>10. PICK t, f : t \in Nat /\ Mapped(1, t, f)
  BY <1>9
<1>11. \A a : \A s \in L(a).segments : \E k \in 0 .. (PagesAt(1) - 1) :
          s.va = PageAt(1, k) /\ s.frame = f[k]
  <2> TAKE a
  <2>1. NonFree(1) = trace_map(RangeAt(1), PagesAt(1), t, f)
    BY <1>10 DEF Mapped
  <2>2. Fixed /\ 1 \in RangeIds
    BY RangesAre DEF Types
  <2>3. \A s \in L(a).segments : Shows(s, 1, f, a)
    <3>1. \A x \in rows : Covers(x, a) => x.base = RangeAt(1).base
      BY <1>4
    <3>2. t \in Nat
      BY <1>10
    <3> HIDE DEF allocated
    <3> QED BY <1>6, <2>1, <2>2, <3>1, <3>2, SegmentsAre, Zenon
  <2> QED BY <2>3 DEF Shows
<1> HIDE DEF L, map
<1>12. \A r \in gate_map' : \E k \in 0 .. (PagesAt(1) - 1) :
          r.va = PageAt(1, k) /\ r.frame = f[k]
  <2> TAKE r \in gate_map'
  <2>1. PICK a \in Allocs(mode, pages) : \E s \in L(a).segments : r.va = s.va /\ r.frame = s.frame
    BY <1>1, <1>5
  <2>2. PICK s \in L(a).segments : r.va = s.va /\ r.frame = s.frame
    BY <2>1
  <2>3. PICK k \in 0 .. (PagesAt(1) - 1) : s.va = PageAt(1, k) /\ s.frame = f[k]
    BY <1>11
  <2> QED BY <2>2, <2>3
<1> QED BY <1>9, <1>10, <1>12

\* The script keeps what is known of each range; the gate takes from it only what it shows.
LEMMA ScriptObserved ==
  ASSUME Types, InOrder, Timed, Observed, ScriptStep
  PROVE  Observed'
<1>1. /\ UNCHANGED fixed /\ UNCHANGED <<pc, page_table, truth, worked>>
      /\ child' = child \/ (at = 1 /\ child' = "running")
      /\ "remap" \in causes' <=> "remap" \in causes
  BY ScriptFrame
<1>2. Same
  BY <1>1, FixedKept DEF Types
<1>3. All' = All /\ (NoLoss' => NoLoss)
  BY ScriptFrame, PollIs
<1>4. Twice(All)' <=> Twice(All)
  BY <1>2, <1>3 DEF Twice, Maps, Same
<1>5. \A i : NonFree(i)' = NonFree(i)
  BY <1>2, <1>3 DEF NonFree, Same
<1>6. child # "exited" \/ child' = "exited"
  BY <1>1 DEF InOrder
<1>7. pc \in Nat
  BY DEF Types
<1>8. Releases /\ at = 8 => ~(pc > WorkAt)
  BY <1>7 DEF InOrder, WorkAt
<1>9. ASSUME NoLoss', "remap" \notin causes, NEW i \in RangeIds
      PROVE  Logged(i)'
  <2>1. Logged(i)
    BY <1>3, <1>9 DEF Observed
  <2>2. \/ worked' = worked /\ work'.frame = work.frame /\ (pc > WorkAt \/ ~(pc' > WorkAt))
        \/ Releases /\ pc' > WorkAt => worked' = work'.frame
    BY <1>1, <1>7, <1>8, ScriptTakes DEF WorkAt
  <2>3. CASE gate_map' = gate_map
    BY <1>1, <1>2, <1>5, <1>6, <1>7, <2>1, <2>2, <2>3, LoggedKept
  <2>4. CASE gate_map' # gate_map
    <3>1. PreLedger
      BY <2>4, ScriptTakes
    <3>2. Releases /\ pc <= 6 /\ work' = work
      <4>1. At("pre_ledger")
        BY <3>1 DEF PreLedger
      <4>2. Releases /\ at = 7
        BY <4>1, StepAt DEF StepOf
      <4> QED BY <1>7, <3>1, <4>2 DEF InOrder, PreLedger
    <3>3. i = 1
      BY <3>2, RangesAre DEF Releases, Types
    <3>4. PICK t, f :
           /\ t \in Nat /\ pc > MapAt(1) /\ Mapped(1, t, f)
           /\ \A r \in gate_map' : \E k \in 0 .. (PagesAt(1) - 1) :
                 r.va = PageAt(1, k) /\ r.frame = f[k]
      BY <1>3, <1>9, <2>4, <3>1, GateMapIs
    <3> DEFINE Q(u, g) ==
          /\ NonFree(1)' = trace_map(RangeAt(1), PagesAt(1), u, g)
          /\ child' # "exited" /\ pc' <= FreeAt(1) => OnRange(1, page_table', g)
          /\ pc' > SnapAt => OnRange(1, truth', g)
          /\ Releases => \A r \in gate_map' : \E k \in 0 .. (PagesAt(1) - 1) :
                            r.va = PageAt(1, k) /\ r.frame = g[k]
          /\ Releases /\ pc' > WorkAt => worked' = work'.frame
    <3>5. Q(t, f)
      <4>1. NonFree(1)' = trace_map(RangeAt(1), PagesAt(1), t, f)
        BY <1>5, <3>4 DEF Mapped
      <4>2. child' # "exited" /\ pc' <= FreeAt(1) => OnRange(1, page_table', f)
        BY <1>1, <1>6, <3>4 DEF Mapped
      <4>3. pc' > SnapAt => OnRange(1, truth', f)
        BY <1>1, <3>4 DEF Mapped
      <4>4. ~(pc' > WorkAt)
        BY <1>1, <1>7, <3>2 DEF WorkAt
      <4> QED BY <3>4, <4>1, <4>2, <4>3, <4>4
    <3>6. Logged(1)' <=> IF pc' > MapAt(1) THEN \E u \in Nat : \E g : Q(u, g)
                         ELSE NonFree(1)' = {} /\ (Releases => gate_map' = {})
      BY <1>2, LoggedIsNext, Zenon
    <3> HIDE DEF Q
    <3> QED BY <1>1, <3>3, <3>4, <3>5, <3>6
  <2> QED BY <2>3, <2>4
<1> QED BY <1>1, <1>2, <1>3, <1>4, <1>9 DEF Observed, Same

-----------------------------------------------------------------------------
(* The steps of the child.                                                 *)

\* Where the child is when it does something.
LEMMA DoingIs ==
  ASSUME Types, NEW op, Doing(op)
  PROVE  /\ child = "running" /\ pc' = pc + 1 /\ pc \in Nat /\ pc < EndAt /\ pc' \in 1 .. EndAt
         /\ PlaceOf(pc, op, Arg)
<1>1. /\ Len(ChildOf(mode)) = EndAt - 1
      /\ \A n \in 1 .. Len(ChildOf(mode)) : PlaceOf(n, ChildOf(mode)[n].op, ChildOf(mode)[n].arg)
  BY ProgramIs DEF Types
<1>2. /\ child = "running" /\ pc <= Len(ChildOf(mode)) /\ ChildOf(mode)[pc].op = op
      /\ pc' = pc + 1
  BY DEF Doing
<1>3. EndAt \in Nat /\ pc \in 1 .. EndAt
  BY DEF Types, EndAt
<1>4. pc \in 1 .. Len(ChildOf(mode))
  BY <1>1, <1>2, <1>3
<1>5. PlaceOf(pc, op, Arg)
  BY <1>1, <1>2, <1>4 DEF Arg
<1> QED BY <1>1, <1>2, <1>3, <1>4, <1>5

\* Where a child is between two of its steps.
ChildMoves ==
  /\ child \in {"running", "hung"} /\ child' # "absent"
  /\ UNCHANGED fixed /\ UNCHANGED scriptVars
  /\ pc' \in 1 .. EndAt
  /\ \/ pc' = pc
     \/ pc' = pc + 1 /\ (pc = 2 => gate) /\ (Releases /\ pc = 6 => release)
  /\ exit_ok' => pc' = EndAt /\ child' = "exited"

\* The steps of the child keep the order of the two programs.
LEMMA ChildOrder ==
  ASSUME Types, InOrder, ChildMoves
  PROVE  InOrder'
<1>1. Same
  BY FixedKept DEF Types, ChildMoves
<1>2. pc \in Nat /\ at \in Nat
  <2>1. Len(Script) \in Nat
    BY ScriptIs DEF Types
  <2> QED BY <2>1 DEF Types
<1>3. WatchAt \in Nat
  BY DEF WatchAt
<1>4. verdict = "raised" \/ ~(at > WatchAt)
  BY DEF InOrder, ChildMoves
<1>5. at # 1
  BY DEF InOrder, ChildMoves
<1>6. Releases /\ (release \/ pc' > 6) => at > 9 /\ \E r \in gate_map : work = [va |-> r.va, frame |-> r.frame]
  BY <1>2 DEF InOrder, ChildMoves
<1>7. gate \/ pc' > 2 => at > 4
  BY <1>2 DEF InOrder, ChildMoves
<1>8. /\ at' = at /\ verdict' = verdict /\ gate' = gate /\ release' = release /\ target' = target
      /\ gate_map' = gate_map /\ work' = work
  BY DEF ChildMoves, scriptVars
<1>9. /\ at > 2 => target
      /\ verdict = "raised" => at >= EndTryAt /\ at # CheckAt
      /\ Releases /\ at = 9 => \E r \in gate_map : work = [va |-> r.va, frame |-> r.frame]
  BY DEF InOrder
<1>10. child' # "absent" /\ (exit_ok' => pc' = EndAt /\ child' = "exited")
  BY DEF ChildMoves
<1>11. /\ at > WatchAt + 1 => at > WatchAt
       /\ at > WatchAt + 2 => at > WatchAt
  BY <1>2, <1>3
<1> QED BY <1>1, <1>2, <1>4, <1>5, <1>6, <1>7, <1>8, <1>9, <1>10, <1>11 DEF InOrder, Same

\* Every step of the child is such a move.
LEMMA ChildStepMoves ==
  ASSUME Types, InOrder, ChildStep
  PROVE  ChildMoves
<1> DEFINE Rest == UNCHANGED fixed /\ UNCHANGED scriptVars
<1>1. child = "running" => ~exit_ok
  BY DEF InOrder
<1>2. ASSUME NEW op, Doing(op), op # "await", op # "exit", child' = child, exit_ok' = exit_ok, Rest
      PROVE  ChildMoves
  BY <1>1, <1>2, DoingIs DEF ChildMoves, PlaceOf
<1>3. CASE ChildSay
  BY <1>2, <1>3 DEF ChildSay
<1>4. CASE ChildAwait
  <2>1. Doing("await") /\ (IF Arg = "gate" THEN gate ELSE release) /\ child' = child
        /\ exit_ok' = exit_ok /\ Rest
    BY <1>4 DEF ChildAwait
  <2>2. PlaceOf(pc, "await", Arg)
    BY <2>1, DoingIs
  <2> QED BY <1>1, <2>1, <2>2, DoingIs DEF ChildMoves, PlaceOf
<1>5. CASE ChildMap
  BY <1>2, <1>5 DEF ChildMap
<1>6. CASE ChildUnmap
  BY <1>2, <1>6 DEF ChildUnmap
<1>7. CASE ChildSnapshot
  BY <1>2, <1>7 DEF ChildSnapshot
<1>8. CASE ChildWork
  BY <1>2, <1>8 DEF ChildWork
<1>9. CASE ChildExit
  <2>1. Doing("exit") /\ child' = "exited" /\ exit_ok' = TRUE /\ Rest
    BY <1>9 DEF ChildExit
  <2>2. PlaceOf(pc, "exit", Arg) /\ pc' = pc + 1 /\ child = "running" /\ pc' \in 1 .. EndAt
    BY <2>1, DoingIs
  <2>3. pc = EndAt - 1 /\ EndAt \in {11, 12, 13}
    BY <2>2 DEF PlaceOf, EndAt
  <2>4. pc' = EndAt /\ pc # 2 /\ pc # 6
    BY <2>2, <2>3
  <2> QED BY <2>1, <2>2, <2>4 DEF ChildMoves
<1>10. CASE ChildFails
  BY <1>10 DEF ChildFails, Dies, ChildMoves, Types
<1>11. CASE ChildKilled
  BY <1>11 DEF ChildKilled, Dies, ChildMoves, Types
<1>12. CASE ChildHangs
  BY <1>1, <1>12 DEF ChildHangs, ChildMoves, Types
<1>13. CASE Remap
  BY <1>1, <1>13 DEF Remap, ChildMoves, Types
<1> QED BY <1>3, <1>4, <1>5, <1>6, <1>7, <1>8, <1>9, <1>10, <1>11, <1>12, <1>13 DEF ChildStep

\* A step of the child that calls nothing of the page table.
Quiet ==
  /\ ChildMoves /\ UNCHANGED ringVars
  /\ clock' \in Nat /\ clock <= clock'
  /\ "remap" \in causes' <=> "remap" \in causes
  /\ pc' # pc => \A i \in RangeIds : pc # MapAt(i)
  /\ page_table' = page_table \/ (child' = "exited" /\ page_table' = [p \in VaPages |-> NoFrame])
  /\ \/ truth' = truth /\ (pc' # pc => pc # SnapAt)
     \/ truth' = page_table /\ pc = SnapAt /\ child = "running"
  /\ \/ worked' = worked /\ (pc' # pc => ~(Releases /\ pc = WorkAt))
     \/ worked' = page_table[work.va] /\ Releases /\ pc = WorkAt /\ child = "running"
  /\ \/ out' = out /\ (mode = "scratch" => Said(pc') = Said(pc) /\ (pc' # pc => pc # SnapAt))
     \/ /\ \E event : /\ out' = Append(out, [event |-> event, time |-> clock])
                      /\ mode = "scratch" => event = ScratchEvents[Said(pc')]
        /\ clock' = clock + 1 /\ (mode = "scratch" => Said(pc') = Said(pc) + 1)

\* So is every step but the three that call the page table.
LEMMA ChildStepQuiet ==
  ASSUME Types, InOrder, ChildStep,
         ~ChildMap, ~ChildUnmap, ~Remap
  PROVE  Quiet
<1>1. ChildMoves
  BY ChildStepMoves
<1>2. clock \in Nat
  BY DEF Types
<1>3. Releases => mode # "scratch"
  BY DEF Releases
<1>4. ASSUME NEW op, Doing(op), op # "map"
      PROVE  /\ pc' = pc + 1 /\ pc' # pc /\ \A i \in RangeIds : pc # MapAt(i)
             /\ op = "snapshot" <=> pc = SnapAt
             /\ op = "work" <=> Releases /\ pc = WorkAt
             /\ mode = "scratch" => IF op \in {"say", "snapshot"}
                                    THEN Said(pc') = Said(pc) + 1 /\ Arg = ScratchEvents[Said(pc')]
                                    ELSE Said(pc') = Said(pc)
  <2>1. PlaceOf(pc, op, Arg) /\ pc' = pc + 1 /\ pc \in Nat
    BY <1>4, DoingIs
  <2> QED BY <1>4, <2>1 DEF PlaceOf
<1>5. CASE ChildSay
  <2>1. Doing("say") /\ out' = Append(out, [event |-> Arg, time |-> clock]) /\ clock' = clock + 1
    BY <1>5 DEF ChildSay, Emit
  <2>2. UNCHANGED <<page_table, truth, worked, causes>> /\ UNCHANGED ringVars
    BY <1>5 DEF ChildSay, faultVars
  <2>4. /\ pc' # pc /\ \A i \in RangeIds : pc # MapAt(i)
        /\ "say" = "snapshot" <=> pc = SnapAt
        /\ ~(Releases /\ pc = WorkAt)
        /\ mode = "scratch" => Said(pc') = Said(pc) + 1 /\ Arg = ScratchEvents[Said(pc')]
    BY <1>4, <2>1
  <2>5. \E event : /\ out' = Append(out, [event |-> event, time |-> clock])
                   /\ mode = "scratch" => event = ScratchEvents[Said(pc')]
    BY <2>1, <2>4
  <2>6. clock' \in Nat /\ clock <= clock'
    BY <1>2, <2>1
  <2> QED BY <1>1, <2>1, <2>2, <2>4, <2>5, <2>6 DEF Quiet
<1>6. CASE ChildAwait
  <2>1. Doing("await") /\ UNCHANGED <<out, clock, page_table, truth, worked, causes>>
        /\ UNCHANGED ringVars
    BY <1>6 DEF ChildAwait, faultVars
  <2> QED BY <1>1, <1>2, <1>4, <2>1 DEF Quiet
<1>7. CASE ChildSnapshot
  <2>1. Doing("snapshot") /\ out' = Append(out, [event |-> Arg, time |-> clock]) /\ clock' = clock + 1
        /\ truth' = page_table
    BY <1>7 DEF ChildSnapshot, Emit
  <2>2. UNCHANGED <<page_table, worked, causes>> /\ UNCHANGED ringVars
    BY <1>7 DEF ChildSnapshot, faultVars
  <2>3. child = "running"
    BY <2>1 DEF Doing
  <2>4. /\ pc' # pc /\ \A i \in RangeIds : pc # MapAt(i)
        /\ "snapshot" = "snapshot" <=> pc = SnapAt
        /\ ~(Releases /\ pc = WorkAt)
        /\ mode = "scratch" => Said(pc') = Said(pc) + 1 /\ Arg = ScratchEvents[Said(pc')]
    BY <1>4, <2>1
  <2>5. \E event : /\ out' = Append(out, [event |-> event, time |-> clock])
                   /\ mode = "scratch" => event = ScratchEvents[Said(pc')]
    BY <2>1, <2>4
  <2>6. clock' \in Nat /\ clock <= clock'
    BY <1>2, <2>1
  <2> QED BY <1>1, <2>1, <2>2, <2>3, <2>4, <2>5, <2>6 DEF Quiet
<1>8. CASE ChildWork
  <2>1. Doing("work") /\ UNCHANGED <<out, clock, page_table, truth, causes>>
        /\ UNCHANGED ringVars /\ worked' = page_table[work.va]
    BY <1>8 DEF ChildWork, faultVars
  <2>2. child = "running"
    BY <2>1 DEF Doing
  <2> QED BY <1>1, <1>2, <1>4, <2>1, <2>2 DEF Quiet
<1>9. CASE ChildExit
  <2>1. Doing("exit") /\ UNCHANGED <<out, clock, page_table, truth, worked, causes>>
        /\ UNCHANGED ringVars
    BY <1>9 DEF ChildExit, faultVars
  <2> QED BY <1>1, <1>2, <1>4, <2>1 DEF Quiet
<1>10. CASE ChildFails
  <2>1. /\ UNCHANGED <<pc, out, clock, truth, worked>> /\ UNCHANGED ringVars
        /\ child' = "exited" /\ page_table' = [p \in VaPages |-> NoFrame]
        /\ causes' = causes \cup {"crash"}
    BY <1>10 DEF ChildFails, Dies, Fault, NewCauses
  <2> QED BY <1>1, <1>2, <2>1 DEF Quiet
<1>11. CASE ChildKilled
  <2>1. /\ UNCHANGED <<pc, out, clock, truth, worked>> /\ UNCHANGED ringVars
        /\ child' = "exited" /\ page_table' = [p \in VaPages |-> NoFrame]
        /\ causes' = causes \cup {"killed"}
    BY <1>11 DEF ChildKilled, Dies, Fault, NewCauses
  <2> QED BY <1>1, <1>2, <2>1 DEF Quiet
<1>12. CASE ChildHangs
  <2>1. /\ UNCHANGED <<pc, out, clock, truth, worked, page_table>> /\ UNCHANGED ringVars
        /\ causes' = causes \cup {"hang"}
    BY <1>12 DEF ChildHangs, Fault, NewCauses
  <2> QED BY <1>1, <1>2, <2>1 DEF Quiet
<1> QED BY <1>5, <1>6, <1>7, <1>8, <1>9, <1>10, <1>11, <1>12 DEF ChildStep

\* An event more makes a sequence again.
LEMMA Appended ==
  ASSUME IsSequence(out), NEW e
  PROVE  /\ \E S : Append(out, e) \in Seq(S)
         /\ Len(out) \in Nat /\ Len(Append(out, e)) = Len(out) + 1
         /\ \A j \in 1 .. Len(out) : Append(out, e)[j] = out[j]
         /\ Append(out, e)[Len(out) + 1] = e
<1>1. PICK S : out \in Seq(S)
  BY DEF IsSequence
<1> DEFINE Z == S \cup {e}
<1>2. out \in Seq(Z) /\ e \in Z
  BY <1>1
<1> HIDE DEF Z
<1>3. Append(out, e) \in Seq(Z)
  BY <1>2
<1> QED BY <1>2, <1>3

\* A quiet step keeps the types.
LEMMA QuietTypes ==
  ASSUME Types, Quiet
  PROVE  Types'
<1>1. Fixed' /\ Same
  BY FixedKept DEF Types, Quiet, ChildMoves
<1>2. IsSequence(out)'
  <2>1. IsSequence(out) /\ \A e : IsSequence(Append(out, e))
    BY Appended DEF Types, IsSequence
  <2>2. out' = out \/ \E e : out' = Append(out, e)
    BY DEF Quiet
  <2>3. IsSequence(out')
    BY <2>1, <2>2
  <2> QED BY <2>3 DEF IsSequence
<1>3. /\ at' = at /\ rows' = rows /\ lost_event_count' = lost_event_count
      /\ ring' = ring /\ lost' = lost
      /\ pc' \in 1 .. EndAt /\ clock' \in Nat
  BY DEF Quiet, ChildMoves, scriptVars, ringVars
<1>4. EndAt' = EndAt /\ (Len(Script) + 1)' = Len(Script) + 1
  BY <1>1, Zenon DEF Same
<1>5. /\ at \in 1 .. (Len(Script) + 1) /\ lost \in Nat /\ lost_event_count \in Nat
      /\ IsFiniteSet(rows) /\ IsFiniteSet(ring)
  BY DEF Types
<1>6. /\ Fixed' /\ at' \in 1 .. (Len(Script) + 1)' /\ pc' \in 1 .. EndAt'
      /\ clock' \in Nat /\ lost' \in Nat /\ lost_event_count' \in Nat
      /\ IsFiniteSet(rows') /\ IsFiniteSet(ring')
  BY <1>1, <1>3, <1>4, <1>5, Zenon
<1> QED BY <1>2, <1>6, Zenon DEF Types

\* A quiet step makes no row.
LEMMA QuietTimed ==
  ASSUME Types, InOrder, Timed, Quiet
  PROVE  Timed'
<1>1. Same
  BY FixedKept DEF Types, Quiet, ChildMoves
<1>2. All' = All
  BY DEF Quiet, ChildMoves, scriptVars, ringVars, All
<1>3. pc \in Nat /\ clock \in Nat /\ 1 \in RangeIds /\ MapAt(1) \in Nat
  BY RangesAre, PlacesInOrder DEF Types
<1>4. (pc' > MapAt(1) <=> pc > MapAt(1)) /\ (pc' <= MapAt(1) <=> pc <= MapAt(1))
  BY <1>3 DEF Quiet, ChildMoves
<1>5. PageAt(1, 0) \in VaPages
  <2>1. PagesAt(1) \in Nat \ {0}
    BY <1>3, RangesAre DEF Types
  <2>2. 0 \in 0 .. (PagesAt(1) - 1)
    BY <2>1
  <2> QED BY <1>3, <2>2, PageIs DEF Types
<1>6. page_table'[PageAt(1, 0)] = page_table[PageAt(1, 0)] \/ page_table'[PageAt(1, 0)] = NoFrame
  BY <1>5 DEF Quiet
<1>7. \A x \in All' : x.time \in Nat /\ x.time < clock'
  BY <1>2, <1>3 DEF Timed, Quiet
<1> QED BY <1>1, <1>2, <1>4, <1>6, <1>7 DEF Timed, Same

\* A quiet step keeps what is known of each range: the snapshot and the work see the page table.
LEMMA QuietObserved ==
  ASSUME Types, InOrder, Timed, Observed, Quiet
  PROVE  Observed'
<1>1. Same
  BY FixedKept DEF Types, Quiet, ChildMoves
<1>2. All' = All /\ (NoLoss' <=> NoLoss)
  BY DEF Quiet, ChildMoves, scriptVars, ringVars, All, NoLoss
<1>3. Twice(All)' <=> Twice(All)
  BY <1>1, <1>2 DEF Twice, Maps, Same
<1>4. \A i : NonFree(i)' = NonFree(i)
  BY <1>1, <1>2 DEF NonFree, Same
<1>5. pc \in Nat /\ pc' \in Nat /\ SnapAt \in Nat /\ (pc' = pc \/ pc' = pc + 1)
      /\ child # "exited" /\ gate_map' = gate_map /\ work' = work
  BY DEF Types, Quiet, ChildMoves, scriptVars, SnapAt
<1>6. ASSUME NoLoss, "remap" \notin causes, NEW i \in RangeIds
      PROVE  Logged(i)'
  <2>1. Logged(i)
    BY <1>6 DEF Observed
  <2>2. \/ truth' = truth /\ (pc > SnapAt \/ ~(pc' > SnapAt))
        \/ pc = SnapAt /\ child # "exited" /\ truth' = page_table
    BY <1>5 DEF Quiet
  <2>3. \/ child' = "exited"
        \/ pc' > FreeAt(i)
        \/ child # "exited" /\ \A k \in 0 .. (PagesAt(i) - 1) :
                                   page_table'[PageAt(i, k)] = page_table[PageAt(i, k)]
    BY <1>5 DEF Quiet
  <2>4. pc' = pc \/ (pc' = pc + 1 /\ pc # MapAt(i))
    BY <1>5 DEF Quiet
  <2>5. \/ worked' = worked /\ work'.frame = work.frame /\ (pc > WorkAt \/ ~(pc' > WorkAt))
        \/ Releases /\ pc' > WorkAt => worked' = work'.frame
    <3>1. CASE worked' = worked /\ (pc' # pc => ~(Releases /\ pc = WorkAt))
      BY <1>5, <3>1 DEF WorkAt
    <3>2. CASE worked' = page_table[work.va] /\ Releases /\ pc = WorkAt /\ child = "running"
      <4>1. PICK r \in gate_map : work = [va |-> r.va, frame |-> r.frame]
        BY <3>2 DEF InOrder, WorkAt
      <4>2. /\ MapAt(i) < 6 /\ MapAt(i) \in Nat /\ FreeAt(i) \in Nat /\ WorkAt < FreeAt(i)
        BY <3>2, PlacesInOrder DEF Types
      <4>3. pc > MapAt(i) /\ pc <= FreeAt(i)
        BY <3>2, <4>2 DEF WorkAt
      <4>4. PICK t, f : t \in Nat /\ Mapped(i, t, f)
        BY <2>1, <4>3, LoggedIs
      <4>5. PICK k \in 0 .. (PagesAt(i) - 1) : r.va = PageAt(i, k) /\ r.frame = f[k]
        BY <3>2, <4>4 DEF Mapped
      <4>6. page_table[PageAt(i, k)] = f[k]
        BY <3>2, <4>3, <4>4 DEF Mapped, OnRange
      <4>7. work.va = r.va /\ work.frame = r.frame
        BY <4>1
      <4> QED BY <1>5, <3>2, <4>5, <4>6, <4>7
    <3> QED BY <3>1, <3>2 DEF Quiet
  <2> QED BY <1>1, <1>4, <1>5, <2>1, <2>2, <2>3, <2>4, <2>5, LoggedKept
<1>7. "remap" \in causes' <=> "remap" \in causes
  BY DEF Quiet
<1> QED BY <1>1, <1>2, <1>3, <1>6, <1>7 DEF Observed, Same

\* The parts of Sampled once the scratch child has taken its snapshot.
Sample ==
  \/ Twice(Early)
  \/ \E t \in Nat : \E f : /\ {x \in Early : x.type # "FREE"} = trace_map(RangeAt(1), PagesAt(1), t, f)
                       /\ OnRange(1, truth, f)

\* Sampled, with its last part by name.
LEMMA SampledIs ==
  Sampled <=>
    (mode = "scratch" =>
      /\ Len(out) = Said(pc)
      /\ \A j \in 1 .. Len(out) : out[j].event = ScratchEvents[j] /\ out[j].time \in Nat /\ out[j].time < clock
      /\ \A x \in All : x.time >= out[2].time
      /\ pc > SnapAt /\ NoLoss => Sample)
BY DEF Sampled, Sample

\* A sample stays one while its rows and the snapshot stay.
LEMMA SampleKept ==
  ASSUME Same, Early' = Early, truth' = truth, Sample
  PROVE  Sample'
<1>1. Twice(Early)' <=> Twice(Early)
  BY DEF Twice, Maps, Same
<1>2. \A f : OnRange(1, truth, f)' <=> OnRange(1, truth, f)
  BY DEF OnRange, Same
<1> QED BY <1>1, <1>2 DEF Sample, Same

\* At the snapshot of the scratch child all of its rows are early.
LEMMA QuietSampled ==
  ASSUME Types, InOrder, Timed, Observed, Sampled, Quiet
  PROVE  Sampled'
<1>1. Same /\ mode' = mode
  BY FixedKept DEF Types, Quiet, ChildMoves, fixed
<1>2. All' = All /\ (NoLoss' <=> NoLoss)
  BY DEF Quiet, ChildMoves, scriptVars, ringVars, All, NoLoss
<1>3. pc \in Nat /\ pc' \in Nat /\ (pc' = pc \/ pc' = pc + 1)
      /\ child # "exited" /\ clock \in Nat /\ clock' \in Nat /\ clock <= clock'
  BY DEF Types, Quiet, ChildMoves
<1>4. SUFFICES ASSUME mode = "scratch"
               PROVE  /\ Len(out') = Said(pc')
                      /\ \A j \in 1 .. Len(out') : /\ out'[j].event = ScratchEvents[j]
                                                   /\ out'[j].time \in Nat /\ out'[j].time < clock'
                      /\ \A x \in All : x.time >= out'[2].time
                      /\ pc' > 5 /\ NoLoss => Sample'
  <2>1. SnapAt' = SnapAt /\ Said(pc)' = Said(pc') /\ ScratchEvents' = ScratchEvents
    BY <1>1 DEF Same, Said, ScratchEvents
  <2>2. mode = "scratch" => SnapAt = 5
    BY DEF SnapAt
  <2>3. Sample' <=> (Twice(Early)
         \/ \E t \in Nat : \E f : /\ {x \in Early : x.type # "FREE"} = trace_map(RangeAt(1), PagesAt(1), t, f)
                              /\ OnRange(1, truth, f))'
    BY DEF Sample
  <2> QED BY <1>1, <1>2, <1>4, <2>1, <2>2, <2>3 DEF Sampled
<1>5. /\ Len(out) = Said(pc)
      /\ \A j \in 1 .. Len(out) : out[j].event = ScratchEvents[j] /\ out[j].time \in Nat /\ out[j].time < clock
      /\ \A x \in All : x.time >= out[2].time
      /\ pc > 5 /\ NoLoss => Sample
      /\ All # {} => pc > 4
      /\ \A x \in All : x.time \in Nat /\ x.time < clock
  BY <1>4, SampledIs DEF SnapAt, Timed, MapAt
<1>6. pc > 4 => Said(pc) >= 2
  BY <1>3 DEF Said
<1>7. pc > 5 => Said(pc) >= 3
  BY <1>3 DEF Said
<1>8. Said(pc) \in Nat /\ (pc = 5 => Said(pc) = 2)
  BY <1>3 DEF Said
<1>9. CASE out' = out /\ Said(pc') = Said(pc) /\ (pc' # pc => pc # SnapAt)
  <2>1. \A j \in 1 .. Len(out) : out[j].time < clock'
    BY <1>3, <1>5
  <2>2. ASSUME pc' > 5, NoLoss
        PROVE  Sample'
    <3>1. pc > 5
      BY <1>3, <1>4, <1>9, <2>2 DEF SnapAt
    <3>2. truth' = truth
      BY <1>3, <1>4, <3>1 DEF Quiet, SnapAt
    <3>3. Early' = Early
      BY <1>2, <1>9 DEF Early
    <3> QED BY <1>1, <1>5, <2>2, <3>1, <3>2, <3>3, SampleKept
  <2> QED BY <1>5, <1>9, <2>1, <2>2
<1>10. CASE /\ \E event : /\ out' = Append(out, [event |-> event, time |-> clock])
                          /\ event = ScratchEvents[Said(pc')]
            /\ clock' = clock + 1 /\ Said(pc') = Said(pc) + 1
  <2> DEFINE e == [event |-> ScratchEvents[Said(pc')], time |-> clock]
  <2>1. out' = Append(out, e)
    BY <1>10
  <2>2. /\ Len(out') = Len(out) + 1 /\ Len(out) \in Nat
        /\ \A j \in 1 .. Len(out) : out'[j] = out[j]
        /\ out'[Len(out) + 1] = e
    <3> HIDE DEF e
    <3> QED BY <2>1, Appended DEF Types
  <2>3. e.event = ScratchEvents[Len(out) + 1] /\ e.time = clock
    BY <1>5, <1>10
  <2> HIDE DEF e
  <2>4. Len(out') = Said(pc')
    BY <1>5, <1>10, <2>2
  <2>5. \A j \in 1 .. Len(out') : /\ out'[j].event = ScratchEvents[j]
                                  /\ out'[j].time \in Nat /\ out'[j].time < clock'
    <3> TAKE j \in 1 .. Len(out')
    <3>1. CASE j \in 1 .. Len(out)
      BY <1>3, <1>5, <2>2, <3>1
    <3>2. CASE j = Len(out) + 1
      BY <1>3, <1>10, <2>2, <2>3, <3>2
    <3> QED BY <2>2, <3>1, <3>2
  <2>6. \A x \in All : x.time >= out'[2].time
    <3>1. All # {} => 2 \in 1 .. Len(out)
      BY <1>5, <1>6, <2>2
    <3> QED BY <1>5, <2>2, <3>1
  <2>7. ASSUME pc' > 5, NoLoss
        PROVE  Sample'
    <3>1. CASE pc > 5
      <4>1. truth' = truth
        BY <1>3, <1>4, <3>1 DEF Quiet, SnapAt
      <4>2. 3 \in 1 .. Len(out)
        BY <1>5, <1>7, <2>2, <3>1
      <4>3. Early' = Early
        BY <1>2, <2>2, <4>2 DEF Early
      <4> QED BY <1>1, <1>5, <2>7, <3>1, <4>1, <4>3, SampleKept
    <3>2. CASE ~(pc > 5)
      <4>1. pc = 5 /\ pc' # pc
        BY <1>3, <2>7, <3>2
      <4>2. truth' = page_table /\ child = "running"
        BY <1>4, <4>1 DEF Quiet, SnapAt
      <4>3. out'[3].time = clock
        <5>1. Len(out) + 1 = 3
          BY <1>5, <1>8, <4>1
        <5> QED BY <2>2, <2>3, <5>1
      <4>4. Early' = All
        BY <1>2, <1>3, <1>5, <4>3 DEF Early
      <4>5. CASE "remap" \in causes
        <5>1. Twice(All)
          BY <2>7, <4>5 DEF Observed
        <5>2. Twice(Early)'
          BY <1>1, <4>4, <5>1 DEF Twice, Maps, Same
        <5> QED BY <5>2 DEF Sample
      <4>6. CASE "remap" \notin causes
        <5>1. 1 \in RangeIds /\ RangeIds = {1}
          BY <1>4, RangesAre DEF Types
        <5>2. Logged(1)
          BY <2>7, <4>6, <5>1 DEF Observed
        <5>3. PICK t, f : t \in Nat /\ Mapped(1, t, f)
          BY <1>4, <4>1, <5>2, LoggedIs DEF MapAt
        <5>4. OnRange(1, page_table, f)
          BY <1>4, <4>1, <4>2, <5>3 DEF Mapped, FreeAt
        <5>5. {x \in All : x.type # "FREE"} = trace_map(RangeAt(1), PagesAt(1), t, f)
          <6>1. {x \in All : x.type # "FREE"} = NonFree(1)
            BY <5>1 DEF Timed, NonFree
          <6> QED BY <5>3, <6>1 DEF Mapped
        <5>6. OnRange(1, truth, f)'
          BY <1>1, <4>2, <5>4 DEF OnRange, Same
        <5>7. ({x \in Early : x.type # "FREE"} = trace_map(RangeAt(1), PagesAt(1), t, f))'
          BY <1>1, <4>4, <5>5 DEF Same
        <5> QED BY <5>3, <5>6, <5>7 DEF Sample
      <4> QED BY <4>5, <4>6
    <3> QED BY <3>1, <3>2
  <2> QED BY <2>4, <2>5, <2>6, <2>7
<1> QED BY <1>4, <1>9, <1>10 DEF Quiet

-----------------------------------------------------------------------------
(* The calls that the kernel reports.                                      *)

\* A step of the child whose rows go to the ring.
Call(new, why) ==
  /\ ChildMoves /\ Submit(new, why) /\ IsFiniteSet(new)
  /\ target /\ child = "running"
  /\ UNCHANGED <<out, truth, worked>>
  /\ clock' \in Nat /\ clock <= clock' /\ pc' > MapAt(1)
  /\ \A x \in new : /\ x.time \in Nat /\ clock <= x.time /\ x.time < clock'
                    /\ \E i \in RangeIds : x.base = RangeAt(i).base
  /\ pc' # pc => pc # SnapAt /\ ~(Releases /\ pc = WorkAt)
                   /\ (mode = "scratch" => Said(pc') = Said(pc))

\* What a call adds to the rows.
LEMMA CallRows ==
  ASSUME Types, NEW new, NEW why, Call(new, why)
  PROVE  /\ Same /\ Fixed'
         /\ IsFiniteSet(ring') /\ lost' \in Nat
         /\ All \subseteq All' /\ All' \subseteq All \cup new
         /\ NoLoss' => NoLoss /\ All' = All \cup new
         /\ "remap" \in causes => "remap" \in causes'
         /\ "remap" \in why => "remap" \in causes'
         /\ "remap" \in causes' => "remap" \in causes \/ "remap" \in why
<1>1. Same /\ Fixed'
  BY FixedKept DEF Types, Call, ChildMoves
<1>2. rows' = rows /\ lost_event_count' = lost_event_count
  BY DEF Call, ChildMoves, scriptVars
<1>3. /\ IsFiniteSet(ring') /\ lost' \in Nat
      /\ lost' = 0 => lost = 0 /\ ring' = ring \cup new
      /\ ring \subseteq ring' /\ ring' \subseteq ring \cup new
      /\ causes \subseteq causes'
      /\ "remap" \in why => "remap" \in causes'
      /\ "remap" \in causes' => "remap" \in causes \/ "remap" \in why
  BY SubmitIs DEF Call
<1>4. NoLoss' => NoLoss /\ All' = All \cup new
  BY <1>2, <1>3 DEF NoLoss, All
<1>5. All \subseteq All' /\ All' \subseteq All \cup new
  BY <1>2, <1>3 DEF All
<1>6. "remap" \in causes => "remap" \in causes'
  BY <1>3
<1> QED BY <1>1, <1>3, <1>4, <1>5, <1>6

\* A call keeps the types.
LEMMA CallTypes ==
  ASSUME Types, NEW new, NEW why, Call(new, why)
  PROVE  Types'
<1>1. /\ Same /\ Fixed' /\ IsFiniteSet(ring') /\ lost' \in Nat
  BY CallRows
<1>2. /\ at' = at /\ rows' = rows /\ lost_event_count' = lost_event_count /\ out' = out
      /\ pc' \in 1 .. EndAt /\ clock' \in Nat
  BY DEF Call, ChildMoves, scriptVars
<1>3. IsSequence(out)'
  BY <1>2 DEF Types, IsSequence
<1> QED BY <1>1, <1>2, <1>3 DEF Types, Same

\* The rows of a call have the times of the call.
LEMMA CallTimed ==
  ASSUME Types, Timed, NEW new, NEW why, Call(new, why)
  PROVE  Timed'
<1>1. Same /\ All' \subseteq All \cup new
  BY CallRows
<1>2. clock \in Nat /\ clock' \in Nat /\ clock <= clock'
  BY DEF Types, Call
<1>3. \A x \in All' : /\ x.time \in Nat /\ x.time < clock'
                      /\ \E i \in RangeIds : x.base = RangeAt(i).base
  <2> TAKE x \in All'
  <2>1. CASE x \in All
    BY <1>2, <2>1 DEF Timed
  <2>2. CASE x \in new
    BY <2>2 DEF Call
  <2> QED BY <1>1, <2>1, <2>2
<1>4. pc' > MapAt(1) /\ ~(pc' <= MapAt(1))
  <2>1. MapAt(1) \in Nat /\ pc' \in Nat /\ pc' > MapAt(1)
    BY RangesAre, PlacesInOrder DEF Types, Call, ChildMoves, EndAt
  <2> QED BY <2>1
<1> QED BY <1>1, <1>3, <1>4 DEF Timed, Same

\* A call after the snapshot is not early, and one before it is not sampled yet.
LEMMA CallSampled ==
  ASSUME Types, Timed, Sampled, NEW new, NEW why, Call(new, why)
  PROVE  Sampled'
<1>1. /\ Same /\ All' \subseteq All \cup new
      /\ NoLoss' => NoLoss /\ All' = All \cup new
  BY CallRows
<1>2. /\ pc \in Nat /\ pc' \in Nat /\ (pc' = pc \/ pc' = pc + 1) /\ pc' > MapAt(1)
      /\ clock \in Nat /\ clock' \in Nat /\ clock <= clock' /\ out' = out /\ truth' = truth
      /\ mode' = mode
  BY DEF Types, Call, ChildMoves, EndAt, fixed
<1>3. SUFFICES ASSUME mode = "scratch"
               PROVE  /\ Len(out) = Said(pc')
                      /\ \A j \in 1 .. Len(out) : /\ out[j].event = ScratchEvents[j]
                                                  /\ out[j].time \in Nat /\ out[j].time < clock'
                      /\ \A x \in All' : x.time >= out[2].time
                      /\ pc' > 5 /\ NoLoss' => Sample'
  <2>1. SnapAt' = SnapAt /\ Said(pc)' = Said(pc') /\ ScratchEvents' = ScratchEvents
    BY <1>1 DEF Same, Said, ScratchEvents
  <2>2. mode = "scratch" => SnapAt = 5
    BY DEF SnapAt
  <2>3. Sample' <=> (Twice(Early)
         \/ \E t \in Nat : \E f : /\ {x \in Early : x.type # "FREE"} = trace_map(RangeAt(1), PagesAt(1), t, f)
                              /\ OnRange(1, truth, f))'
    BY DEF Sample
  <2> QED BY <1>1, <1>2, <1>3, <2>1, <2>2, <2>3 DEF Sampled
<1>4. /\ Len(out) = Said(pc)
      /\ \A j \in 1 .. Len(out) : out[j].event = ScratchEvents[j] /\ out[j].time \in Nat /\ out[j].time < clock
      /\ \A x \in All : x.time >= out[2].time
      /\ pc > 5 /\ NoLoss => Sample
      /\ pc' > 4
      /\ \A x \in new : x.time \in Nat /\ clock <= x.time
      /\ pc' # pc => pc # 5 /\ Said(pc') = Said(pc)
  BY <1>2, <1>3, SampledIs DEF SnapAt, MapAt, Call
<1>5. Said(pc') = Said(pc) /\ Said(pc) >= 2 /\ (pc > 5 => Said(pc) >= 3) /\ Said(pc) \in Nat
  BY <1>2, <1>4 DEF Said
<1>6. \A x \in All' : x.time >= out[2].time
  <2>1. 2 \in 1 .. Len(out)
    BY <1>4, <1>5
  <2> QED BY <1>1, <1>2, <1>4, <2>1
<1>7. ASSUME pc' > 5, NoLoss'
      PROVE  Sample'
  <2>1. pc > 5
    BY <1>2, <1>4, <1>7
  <2>2. 3 \in 1 .. Len(out)
    BY <1>4, <1>5, <2>1
  <2>3. \A x \in new : ~(x.time <= out[3].time)
    BY <1>2, <1>4, <2>2
  <2>4. Early' = Early
    BY <1>1, <1>2, <1>7, <2>3 DEF Early
  <2> QED BY <1>1, <1>2, <1>4, <1>7, <2>1, <2>4, SampleKept
<1>8. \A j \in 1 .. Len(out) : out[j].time < clock'
  BY <1>2, <1>4
<1> QED BY <1>4, <1>5, <1>6, <1>7, <1>8

\* A call changes the frames of its own range.
LEMMA PlacedIs ==
  ASSUME Types, NEW i \in RangeIds, NEW frames, page_table' = Placed(RangeAt(i), frames)
  PROVE  /\ \A k \in 0 .. (PagesAt(i) - 1) : page_table'[PageAt(i, k)] = frames[k]
         /\ \A j \in RangeIds \ {i} : \A k \in 0 .. (PagesAt(j) - 1) :
              page_table'[PageAt(j, k)] = page_table[PageAt(j, k)]
<1>1. Fixed
  BY DEF Types
<1>2. page_table' = [p \in VaPages |->
         IF RangeAt(i).base <= p /\ p < RangeAt(i).base + RangeAt(i).len
         THEN frames[(p - RangeAt(i).base) \div PageSize] ELSE page_table[p]]
  BY Zenon DEF Placed
<1>3. PageSize \in Nat \ {0} /\ RangeAt(i).base \in Nat /\ RangeAt(i).len \in Nat
  BY <1>1, RangesAre, ProbeAssumption
<1>4. ASSUME NEW k \in 0 .. (PagesAt(i) - 1)
      PROVE  page_table'[PageAt(i, k)] = frames[k]
  <2>1. /\ PageAt(i, k) \in VaPages /\ PageAt(i, k) \in Nat
        /\ RangeAt(i).base <= PageAt(i, k)
        /\ PageAt(i, k) + PageSize <= RangeAt(i).base + RangeAt(i).len
        /\ (PageAt(i, k) - RangeAt(i).base) \div PageSize = k
    BY <1>1, PageIs
  <2>2. PageAt(i, k) < RangeAt(i).base + RangeAt(i).len
    BY <1>3, <2>1
  <2> QED BY <1>2, <2>1, <2>2, Zenon
<1>5. ASSUME NEW j \in RangeIds \ {i}, NEW k \in 0 .. (PagesAt(j) - 1)
      PROVE  page_table'[PageAt(j, k)] = page_table[PageAt(j, k)]
  <2>1. PageAt(j, k) \in VaPages /\ PageAt(j, k) \in Nat
    BY <1>1, PageIs
  <2>2. /\ mode = "alias" /\ RangeIds = {1, 2} /\ PagesAt(1) = 1 /\ PagesAt(2) = 1
        /\ RangeAt(1).base = 0 /\ RangeAt(2).base = 4 * PageSize
    BY <1>1, RangesAre
  <2>3. RangeAt(1).len = 1 * PageSize /\ 1 * PageSize = PageSize /\ 0 * PageSize = 0
    BY <1>1, <1>3, <2>2, RangesAre
  <2>4. k = 0 /\ PageAt(j, k) = RangeAt(j).base
    <3>1. k = 0
      BY <2>2
    <3>2. RangeAt(j).base \in Nat
      BY <1>1, RangesAre
    <3> QED BY <2>3, <3>1, <3>2 DEF PageAt
  <2>5. ~(RangeAt(i).base <= PageAt(j, k) /\ PageAt(j, k) < RangeAt(i).base + RangeAt(i).len)
    BY <1>3, <2>2, <2>3, <2>4
  <2> QED BY <1>2, <2>1, <2>5
<1> QED BY <1>4, <1>5

\* More rows do not make two map calls one.
LEMMA TwiceGrows ==
  ASSUME Same, NEW S, NEW T, S \subseteq T, Twice(S)
  PROVE  Twice(T)
BY DEF Twice, Maps

\* Two map calls stay two map calls.
LEMMA TwiceNext ==
  ASSUME Same, All \subseteq All', Twice(All)
  PROVE  Twice(All)'
<1>1. Twice(All')
  BY TwiceGrows
<1> QED BY <1>1 DEF Twice, Maps, Same

\* Free rows are not among a range's other rows.
LEMMA NonFreeNext ==
  ASSUME Same, NEW new, All' = All \cup new, NEW i
  PROVE  NonFree(i)' = NonFree(i) \cup {x \in new : x.base = RangeAt(i).base /\ x.type # "FREE"}
BY DEF NonFree, Same

\* The rows of the two calls.
LEMMA MapRows ==
  ASSUME Types, NEW i \in RangeIds, NEW t \in Nat, NEW f
  PROVE  LET T == trace_map(RangeAt(i), PagesAt(i), t, f)
         IN  /\ IsFiniteSet(T) /\ PagesAt(i) \in Nat
             /\ \A x \in T : /\ x.base = RangeAt(i).base /\ x.type # "FREE"
                             /\ x.time \in Nat /\ t <= x.time /\ x.time < t + PagesAt(i) + 1
             /\ MapRow(RangeAt(i), t + PagesAt(i)) \in T
<1>1. Fixed /\ RangeAt(i).base \in Nat /\ PagesAt(i) \in Nat \ {0}
  BY RangesAre DEF Types
<1> DEFINE T == trace_map(RangeAt(i), PagesAt(i), t, f)
<1>2. /\ IsFiniteSet(T)
      /\ \A x \in T : /\ x.base = RangeAt(i).base /\ x.type \in {"HEADER", "ENTRY", "MAP"}
                      /\ x.time \in Nat /\ t <= x.time /\ x.time <= t + PagesAt(i)
      /\ OfType(T, "MAP") = {MapRow(RangeAt(i), t + PagesAt(i))}
  BY <1>1, TraceIs
<1> HIDE DEF T
<1>3. MapRow(RangeAt(i), t + PagesAt(i)) \in T
  BY <1>2 DEF OfType
<1> QED BY <1>1, <1>2, <1>3 DEF T

\* The rows of a free call.
LEMMA FreeRows ==
  ASSUME Types, NEW i \in RangeIds, NEW t \in Nat
  PROVE  LET T == trace_free(RangeAt(i), t)
         IN  /\ IsFiniteSet(T)
             /\ \A x \in T : x.base = RangeAt(i).base /\ x.type = "FREE" /\ x.time = t
<1> DEFINE x == [type |-> "FREE", time |-> t, base |-> RangeAt(i).base, len |-> RangeAt(i).len]
<1>1. trace_free(RangeAt(i), t) = {x}
  BY DEF trace_free
<1>2. x.base = RangeAt(i).base /\ x.type = "FREE" /\ x.time = t
  OBVIOUS
<1> HIDE DEF x
<1>3. IsFiniteSet({x})
  BY FS_Singleton
<1> QED BY <1>1, <1>2, <1>3

\* The child's map operation is a call, at its place in the program.
LEMMA ChildMapIs ==
  ASSUME Types, InOrder, ChildMap
  PROVE  \E a \in RangeIds : \E frames :
           /\ pc = MapAt(a) /\ pc' = pc + 1
           /\ page_table' = Placed(RangeAt(a), frames)
           /\ Call(trace_map(RangeAt(a), PagesAt(a), clock, frames), Apertures(frames))
<1>1. /\ Doing("map") /\ UNCHANGED fixed /\ UNCHANGED <<out, truth, worked>>
      /\ clock' = clock + PagesAt(Arg) + 1
      /\ \E frames : /\ page_table' = Placed(RangeAt(Arg), frames)
                     /\ Submit(trace_map(RangeAt(Arg), PagesAt(Arg), clock, frames), Apertures(frames))
  BY Zenon DEF ChildMap, RangeAt, PagesAt
<1>2. PICK frames : /\ page_table' = Placed(RangeAt(Arg), frames)
                    /\ Submit(trace_map(RangeAt(Arg), PagesAt(Arg), clock, frames), Apertures(frames))
  BY <1>1
<1>3. /\ child = "running" /\ pc' = pc + 1 /\ pc \in Nat /\ PlaceOf(pc, "map", Arg)
  BY <1>1, DoingIs
<1>4. Arg \in RangeIds /\ pc = MapAt(Arg)
  BY <1>3 DEF PlaceOf
<1>5. ChildMoves
  BY ChildStepMoves DEF ChildStep
<1>6. MapAt(Arg) \in Nat /\ 2 < MapAt(Arg) /\ MapAt(1) \in Nat
      /\ MapAt(1) <= MapAt(Arg)
  BY <1>4, RangesAre, PlacesInOrder DEF Types, MapAt
<1>7. target
  <2>1. at \in Nat
    BY ScriptIs DEF Types
  <2> QED BY <1>3, <1>4, <1>6, <2>1 DEF InOrder
<1>8. clock \in Nat
  BY DEF Types
<1> DEFINE T == trace_map(RangeAt(Arg), PagesAt(Arg), clock, frames)
<1>9. /\ IsFiniteSet(T) /\ PagesAt(Arg) \in Nat
      /\ \A x \in T : /\ x.base = RangeAt(Arg).base
                      /\ x.time \in Nat /\ clock <= x.time /\ x.time < clock + PagesAt(Arg) + 1
  BY <1>4, <1>8, MapRows
<1>10. /\ pc # SnapAt /\ ~(Releases /\ pc = WorkAt)
       /\ mode = "scratch" => Said(pc') = Said(pc)
  BY <1>3 DEF PlaceOf
<1> HIDE DEF T
<1>11. Call(T, Apertures(frames))
  BY <1>1, <1>2, <1>3, <1>4, <1>5, <1>6, <1>7, <1>8, <1>9, <1>10 DEF Call, T
<1> QED BY <1>2, <1>3, <1>4, <1>11 DEF T

\* A map call logs its range, and leaves the other one alone.
LEMMA ChildMapObserved ==
  ASSUME Types, InOrder, Timed, Observed, ChildMap
  PROVE  Observed'
<1>a. PICK a \in RangeIds : \E frames :
        /\ pc = MapAt(a) /\ pc' = pc + 1
        /\ page_table' = Placed(RangeAt(a), frames)
        /\ Call(trace_map(RangeAt(a), PagesAt(a), clock, frames), Apertures(frames))
  BY ChildMapIs
<1>1. PICK frames :
        /\ pc = MapAt(a) /\ pc' = pc + 1
        /\ page_table' = Placed(RangeAt(a), frames)
        /\ Call(trace_map(RangeAt(a), PagesAt(a), clock, frames), Apertures(frames))
  BY <1>a
<1> DEFINE new == trace_map(RangeAt(a), PagesAt(a), clock, frames)
<1>2. clock \in Nat /\ pc \in Nat /\ pc' \in Nat
  BY <1>1 DEF Types, EndAt
<1>3. /\ \A x \in new : x.base = RangeAt(a).base /\ x.type # "FREE"
  BY <1>1, <1>2, MapRows
<1> HIDE DEF new
<1>4. /\ Same /\ All \subseteq All' /\ (NoLoss' => NoLoss /\ All' = All \cup new)
      /\ "remap" \in causes' => "remap" \in causes
      /\ "remap" \in causes => "remap" \in causes'
  <2>1. "remap" \notin Apertures(frames)
    BY DEF Apertures
  <2> QED BY <1>1, <2>1, CallRows DEF new
<1>5. /\ gate_map' = gate_map /\ work' = work /\ child = "running"
      /\ truth' = truth /\ worked' = worked
  BY <1>1 DEF Call, ChildMoves, scriptVars
<1>6. CASE "remap" \in causes
  BY <1>4, <1>6, TwiceNext DEF Observed
<1>7. ASSUME NoLoss', "remap" \notin causes, NEW i \in RangeIds
      PROVE  Logged(i)'
  <2>1. Logged(i) /\ Logged(a)
    BY <1>1, <1>4, <1>7 DEF Observed
  <2>2. NonFree(i)' = NonFree(i) \cup {x \in new : x.base = RangeAt(i).base /\ x.type # "FREE"}
    BY <1>4, <1>7, NonFreeNext
  <2>3. Fixed
    BY DEF Types
  <2>4. /\ MapAt(a) \in Nat /\ MapAt(a) < SnapAt /\ SnapAt \in Nat /\ (Releases => MapAt(a) < 6)
    BY <1>1, <2>3, PlacesInOrder
  <2>5. ~(pc' > SnapAt) /\ ~(Releases /\ pc' > WorkAt)
    BY <1>1, <1>2, <2>4 DEF WorkAt
  <2>6. CASE i = a
    <3>1. NonFree(a) = {} /\ (Releases => gate_map = {})
      BY <1>1, <1>2, <2>1, LoggedIs
    <3>2. NonFree(a)' = trace_map(RangeAt(a), PagesAt(a), clock, frames)
      BY <1>3, <2>2, <2>6, <3>1 DEF new
    <3>3. OnRange(a, page_table', frames)
      BY <1>1, PlacedIs DEF OnRange
    <3> DEFINE Q(u, g) ==
          /\ NonFree(a)' = trace_map(RangeAt(a), PagesAt(a), u, g)
          /\ child' # "exited" /\ pc' <= FreeAt(a) => OnRange(a, page_table', g)
          /\ pc' > SnapAt => OnRange(a, truth', g)
          /\ Releases => \A r \in gate_map' : \E k \in 0 .. (PagesAt(a) - 1) :
                            r.va = PageAt(a, k) /\ r.frame = g[k]
          /\ Releases /\ pc' > WorkAt => worked' = work'.frame
    <3>4. Q(clock, frames)
      BY <1>5, <2>5, <3>1, <3>2, <3>3
    <3>5. Logged(a)' <=> IF pc' > MapAt(a) THEN \E u \in Nat : \E g : Q(u, g)
                         ELSE NonFree(a)' = {} /\ (Releases => gate_map' = {})
      BY <1>4, LoggedIsNext, Zenon
    <3>6. pc' > MapAt(a)
      BY <1>1, <2>4
    <3> HIDE DEF Q
    <3> QED BY <1>2, <2>6, <3>4, <3>5, <3>6
  <2>7. CASE i # a
    <3>1. /\ mode = "alias" /\ RangeIds = {1, 2}
          /\ RangeAt(1).base = 0 /\ RangeAt(2).base = 4 * PageSize /\ PageSize \in Nat \ {0}
      BY <1>1, <2>3, <2>7, RangesAre, ProbeAssumption
    <3>2. RangeAt(i).base # RangeAt(a).base
      BY <1>1, <2>7, <3>1
    <3>3. NonFree(i)' = NonFree(i)
      BY <1>3, <2>2, <3>2
    <3>4. pc # MapAt(i)
      BY <1>1, <2>7, <3>1 DEF MapAt
    <3>5. \A k \in 0 .. (PagesAt(i) - 1) : page_table'[PageAt(i, k)] = page_table[PageAt(i, k)]
      BY <1>1, <2>7, PlacedIs
    <3>6. ~Releases
      BY <3>1 DEF Releases
    <3> QED BY <1>1, <1>2, <1>4, <1>5, <2>1, <2>5, <3>3, <3>4, <3>5, <3>6, LoggedKept
  <2> QED BY <2>6, <2>7
<1> QED BY <1>4, <1>6, <1>7 DEF Observed, Same

\* The child's unmap operation is a call, at its place in the program.
LEMMA ChildUnmapIs ==
  ASSUME Types, InOrder, ChildUnmap
  PROVE  \E a \in RangeIds : \E frames :
           /\ pc = FreeAt(a) /\ pc' = pc + 1
           /\ \A i \in RangeIds : pc # MapAt(i)
           /\ page_table' = Placed(RangeAt(a), frames)
           /\ Call(trace_free(RangeAt(a), clock), {})
<1>1. /\ Doing("unmap") /\ UNCHANGED fixed /\ UNCHANGED <<out, truth, worked>>
      /\ clock' = clock + 1
      /\ Submit(trace_free(RangeAt(Arg), clock), {})
      /\ \E frames : page_table' = Placed(RangeAt(Arg), frames)
  BY Zenon DEF ChildUnmap, RangeAt
<1>2. PICK frames : page_table' = Placed(RangeAt(Arg), frames)
  BY <1>1
<1>3. /\ child = "running" /\ pc' = pc + 1 /\ pc \in Nat /\ PlaceOf(pc, "unmap", Arg)
  BY <1>1, DoingIs
<1>4. /\ Arg \in RangeIds /\ pc = FreeAt(Arg) /\ \A i \in RangeIds : pc # MapAt(i)
      /\ pc # SnapAt /\ ~(Releases /\ pc = WorkAt)
      /\ mode = "scratch" => Said(pc') = Said(pc)
  BY <1>3 DEF PlaceOf
<1>5. ChildMoves
  BY ChildStepMoves DEF ChildStep
<1>6. MapAt(1) \in Nat /\ 2 < MapAt(1) /\ MapAt(1) < pc
  BY <1>4, RangesAre, PlacesInOrder DEF Types, MapAt, FreeAt
<1>7. target
  <2>1. at \in Nat
    BY ScriptIs DEF Types
  <2> QED BY <1>3, <1>6, <2>1 DEF InOrder
<1>8. clock \in Nat
  BY DEF Types
<1> DEFINE T == trace_free(RangeAt(Arg), clock)
<1>9. IsFiniteSet(T) /\ \A x \in T : x.base = RangeAt(Arg).base /\ x.time = clock
  BY <1>4, <1>8, FreeRows
<1> HIDE DEF T
<1>10. Call(T, {})
  BY <1>1, <1>3, <1>4, <1>5, <1>6, <1>7, <1>8, <1>9 DEF Call, T
<1> QED BY <1>2, <1>3, <1>4, <1>10 DEF T

\* A free call adds nothing to the rows of the map call.
LEMMA ChildUnmapObserved ==
  ASSUME Types, InOrder, Timed, Observed, ChildUnmap
  PROVE  Observed'
<1>a. PICK a \in RangeIds : \E frames :
        /\ pc = FreeAt(a) /\ pc' = pc + 1
        /\ \A i \in RangeIds : pc # MapAt(i)
        /\ page_table' = Placed(RangeAt(a), frames)
        /\ Call(trace_free(RangeAt(a), clock), {})
  BY ChildUnmapIs
<1>1. PICK frames :
        /\ pc = FreeAt(a) /\ pc' = pc + 1
        /\ \A i \in RangeIds : pc # MapAt(i)
        /\ page_table' = Placed(RangeAt(a), frames)
        /\ Call(trace_free(RangeAt(a), clock), {})
  BY <1>a
<1> DEFINE new == trace_free(RangeAt(a), clock)
<1>2. clock \in Nat /\ pc \in Nat /\ pc' \in Nat
  BY <1>1 DEF Types, EndAt
<1>3. \A x \in new : x.type = "FREE"
  BY <1>1, <1>2, FreeRows
<1> HIDE DEF new
<1>4. /\ Same /\ All \subseteq All' /\ (NoLoss' => NoLoss /\ All' = All \cup new)
      /\ "remap" \in causes' => "remap" \in causes
      /\ "remap" \in causes => "remap" \in causes'
  BY <1>1, CallRows DEF new
<1>5. /\ gate_map' = gate_map /\ work' = work /\ child = "running"
      /\ truth' = truth /\ worked' = worked
      /\ pc # SnapAt /\ ~(Releases /\ pc = WorkAt)
  <2>1. pc' # pc
    BY <1>1, <1>2
  <2> QED BY <1>1, <2>1 DEF Call, ChildMoves, scriptVars
<1>6. CASE "remap" \in causes
  BY <1>4, <1>6, TwiceNext DEF Observed
<1>7. ASSUME NoLoss', "remap" \notin causes, NEW i \in RangeIds
      PROVE  Logged(i)'
  <2>1. Logged(i)
    BY <1>4, <1>7 DEF Observed
  <2>2. NonFree(i)' = NonFree(i)
    <3>1. NonFree(i)' = NonFree(i) \cup {x \in new : x.base = RangeAt(i).base /\ x.type # "FREE"}
      BY <1>4, <1>7, NonFreeNext
    <3> QED BY <1>3, <3>1
  <2>3. \/ pc' > FreeAt(i)
        \/ child # "exited" /\ \A k \in 0 .. (PagesAt(i) - 1) :
                                   page_table'[PageAt(i, k)] = page_table[PageAt(i, k)]
    <3>1. CASE i = a
      BY <1>1, <1>2, <3>1
    <3>2. CASE i # a
      BY <1>1, <1>5, <3>2, PlacedIs
    <3> QED BY <3>1, <3>2
  <2>4. SnapAt \in Nat
    BY DEF SnapAt
  <2>5. pc > SnapAt \/ ~(pc' > SnapAt)
    BY <1>1, <1>2, <1>5, <2>4
  <2>6. Releases => pc > WorkAt \/ ~(pc' > WorkAt)
    BY <1>1, <1>2, <1>5 DEF WorkAt
  <2>7. pc # MapAt(i)
    BY <1>1
  <2>8. \/ worked' = worked /\ work'.frame = work.frame /\ (pc > WorkAt \/ ~(pc' > WorkAt))
        \/ Releases /\ pc' > WorkAt => worked' = work'.frame
    BY <1>5, <2>6
  <2> QED BY <1>1, <1>2, <1>4, <1>5, <2>1, <2>2, <2>3, <2>5, <2>7, <2>8, LoggedKept
<1> QED BY <1>4, <1>6, <1>7 DEF Observed, Same

\* A moved range is a call too, with a second MAP row.
LEMMA RemapIs ==
  ASSUME Types, InOrder, Timed, Remap
  PROVE  \E frames : \E why :
           /\ pc > MapAt(1) /\ "remap" \in why
           /\ Call(trace_free(RangeAt(1), clock)
                     \cup trace_map(RangeAt(1), PagesAt(1), clock + 1, frames), why)
<1>1. /\ child = "running" /\ UNCHANGED fixed /\ UNCHANGED <<pc, out, truth, worked>>
      /\ clock' = clock + PagesAt(1) + 2
      /\ page_table[RangeAt(1).base] # NoFrame
      /\ \E frames : Submit(trace_free(RangeAt(1), clock)
                              \cup trace_map(RangeAt(1), PagesAt(1), clock + 1, frames),
                            {"remap"} \cup Apertures(frames))
  BY Zenon DEF Remap, RangeAt, PagesAt
<1>2. PICK frames : Submit(trace_free(RangeAt(1), clock)
                              \cup trace_map(RangeAt(1), PagesAt(1), clock + 1, frames),
                            {"remap"} \cup Apertures(frames))
  BY <1>1
<1>3. 1 \in RangeIds /\ RangeAt(1).base = 0 /\ PageSize \in Nat
  BY RangesAre, ProbeAssumption DEF Types
<1>4. RangeAt(1).base = PageAt(1, 0)
  BY <1>3 DEF PageAt
<1>5. pc \in Nat /\ MapAt(1) \in Nat /\ 2 < MapAt(1) /\ clock \in Nat /\ at \in Nat
  BY <1>3, ScriptIs, PlacesInOrder DEF Types
<1>6. pc > MapAt(1)
  BY <1>1, <1>4, <1>5 DEF Timed
<1>7. target
  BY <1>5, <1>6 DEF InOrder
<1>8. ChildMoves
  BY ChildStepMoves DEF ChildStep
<1> DEFINE S == trace_free(RangeAt(1), clock)
           T == trace_map(RangeAt(1), PagesAt(1), clock + 1, frames)
<1>9. /\ IsFiniteSet(T) /\ PagesAt(1) \in Nat
      /\ \A x \in T : /\ x.base = RangeAt(1).base
                      /\ x.time \in Nat /\ clock + 1 <= x.time
                      /\ x.time < (clock + 1) + PagesAt(1) + 1
  <2>1. clock + 1 \in Nat
    BY <1>5
  <2> QED BY <1>3, <2>1, MapRows
<1>10. IsFiniteSet(S) /\ \A x \in S : x.base = RangeAt(1).base /\ x.time = clock
  BY <1>3, <1>5, FreeRows
<1> HIDE DEF S, T
<1>11. IsFiniteSet(S \cup T)
  BY <1>9, <1>10, FS_Union
<1>12. \A x \in S \cup T : /\ x.time \in Nat /\ clock <= x.time /\ x.time < clock'
                           /\ \E i \in RangeIds : x.base = RangeAt(i).base
  <2> TAKE x \in S \cup T
  <2>1. CASE x \in S
    BY <1>1, <1>3, <1>5, <1>9, <1>10, <2>1
  <2>2. CASE x \in T
    BY <1>1, <1>3, <1>5, <1>9, <2>2
  <2> QED BY <2>1, <2>2
<1>13. clock' \in Nat /\ clock <= clock' /\ pc' > MapAt(1) /\ pc' = pc
  BY <1>1, <1>5, <1>6, <1>9
<1>14. Call(S \cup T, {"remap"} \cup Apertures(frames))
  BY <1>1, <1>2, <1>7, <1>8, <1>11, <1>12, <1>13 DEF Call, S, T
<1> QED BY <1>6, <1>14 DEF S, T

\* A range that has moved shows it in the rows, unless they are lost.
LEMMA RemapObserved ==
  ASSUME Types, InOrder, Timed, Observed, Remap
  PROVE  Observed'
<1>1. PICK frames : \E why :
        /\ pc > MapAt(1) /\ "remap" \in why
        /\ Call(trace_free(RangeAt(1), clock)
                  \cup trace_map(RangeAt(1), PagesAt(1), clock + 1, frames), why)
  BY RemapIs
<1> DEFINE T == trace_map(RangeAt(1), PagesAt(1), clock + 1, frames)
           new == trace_free(RangeAt(1), clock) \cup T
<1>2. PICK why : pc > MapAt(1) /\ "remap" \in why /\ Call(new, why)
  BY <1>1
<1>3. 1 \in RangeIds /\ clock \in Nat /\ clock + 1 \in Nat
  BY RangesAre DEF Types
<1>4. PagesAt(1) \in Nat /\ MapRow(RangeAt(1), (clock + 1) + PagesAt(1)) \in T
  BY <1>3, MapRows
<1> HIDE DEF T
<1>5. MapRow(RangeAt(1), (clock + 1) + PagesAt(1)) \in new
  BY <1>4
<1> HIDE DEF new
<1>6. /\ Same /\ All \subseteq All' /\ (NoLoss' => NoLoss /\ All' = All \cup new)
      /\ "remap" \in causes'
  BY <1>2, CallRows
<1>7. ASSUME NoLoss'
      PROVE  Twice(All)'
  <2>1. CASE "remap" \in causes
    BY <1>6, <1>7, <2>1, TwiceNext DEF Observed
  <2>2. CASE "remap" \notin causes
    <3>1. PICK t, f : t \in Nat /\ Mapped(1, t, f)
      BY <1>2, <1>3, <1>6, <1>7, <2>2, LoggedIs DEF Observed
    <3>2. MapRow(RangeAt(1), t + PagesAt(1)) \in NonFree(1)
      BY <1>3, <3>1, MapRows DEF Mapped
    <3> DEFINE x == MapRow(RangeAt(1), t + PagesAt(1))
               y == MapRow(RangeAt(1), (clock + 1) + PagesAt(1))
    <3>3. /\ x.time = t + PagesAt(1) /\ y.time = (clock + 1) + PagesAt(1)
          /\ x.type = "MAP" /\ y.type = "MAP"
          /\ x.base = RangeAt(1).base /\ y.base = RangeAt(1).base
          /\ x.len = RangeAt(1).len /\ y.len = RangeAt(1).len
      BY DEF MapRow
    <3>4. x \in All /\ x \in All' /\ y \in All'
      BY <1>5, <1>6, <1>7, <3>2 DEF NonFree
    <3> HIDE DEF x, y
    <3>5. x.time < clock
      BY <3>4 DEF Timed
    <3>6. x # y
      BY <1>3, <1>4, <3>3, <3>5
    <3>7. Twice(All')
      BY <3>3, <3>4, <3>6 DEF Twice, Maps
    <3> QED BY <1>6, <3>7 DEF Twice, Maps, Same
  <2> QED BY <2>1, <2>2
<1> QED BY <1>6, <1>7 DEF Observed

-----------------------------------------------------------------------------
(* A map whose rows are true, and that leaves no byte out.                 *)

\* Pages do not overlap.
LEMMA OnePage ==
  ASSUME Fixed, NEW p \in VaPages, NEW q \in VaPages, NEW va \in Int,
         p <= va, va < p + PageSize, q <= va, va < q + PageSize
  PROVE  p = q
<1>1. PageSize \in Nat \ {0}
  BY ProbeAssumption
<1>2. ASSUME NEW o \in VaPages
      PROVE  \E m \in Nat : o = m * PageSize
  <2>1. PICK i \in RangeIds : \E k \in 0 .. (PagesAt(i) - 1) : o = PageAt(i, k)
    BY PageIs
  <2>2. PICK k \in 0 .. (PagesAt(i) - 1) : o = PageAt(i, k)
    BY <2>1
  <2>3. k \in Nat /\ (RangeAt(i).base = 0 \/ RangeAt(i).base = 4 * PageSize)
    <3>1. PagesAt(i) \in Nat /\ RangeIds = IF mode = "alias" THEN {1, 2} ELSE {1}
      BY RangesAre
    <3> QED BY <3>1, RangesAre
  <2>4. o = RangeAt(i).base + k * PageSize
    BY <2>2 DEF PageAt
  <2>5. (4 + k) * PageSize = 4 * PageSize + k * PageSize /\ k * PageSize \in Nat
    BY <1>1, <2>3
  <2>6. 0 + k * PageSize = k * PageSize
    BY <2>5
  <2> QED BY <2>3, <2>4, <2>5, <2>6
<1>3. PICK m \in Nat : p = m * PageSize
  BY <1>2
<1>4. PICK n \in Nat : q = n * PageSize
  BY <1>2
<1>5. ASSUME NEW x \in Nat, NEW y \in Nat, x < y
      PROVE  x * PageSize + PageSize <= y * PageSize
  <2>1. y * PageSize = (x + 1) * PageSize + (y - (x + 1)) * PageSize
        /\ (x + 1) * PageSize = x * PageSize + PageSize
        /\ (y - (x + 1)) * PageSize \in Nat
        /\ x * PageSize \in Nat /\ y * PageSize \in Nat
    BY <1>1, <1>5
  <2> DEFINE u == x * PageSize
             v == y * PageSize
             w == (y - (x + 1)) * PageSize
             z == (x + 1) * PageSize
  <2>2. v = z + w /\ z = u + PageSize /\ w \in Nat /\ u \in Nat /\ v \in Nat
    BY <2>1
  <2> HIDE DEF u, v, w, z
  <2>3. u + PageSize <= v
    BY <1>1, <2>2
  <2> QED BY <2>3 DEF u, v
<1>6. p \in Nat /\ q \in Nat
  <2>1. m * PageSize \in Nat /\ n * PageSize \in Nat
    BY <1>1
  <2> QED BY <1>3, <1>4, <2>1
<1>7. ~(m < n)
  <2> SUFFICES ASSUME m < n PROVE FALSE
    OBVIOUS
  <2>1. p + PageSize <= q
    BY <1>3, <1>4, <1>5
  <2> QED BY <1>1, <1>6, <2>1
<1>8. ~(n < m)
  <2> SUFFICES ASSUME n < m PROVE FALSE
    OBVIOUS
  <2>1. q + PageSize <= p
    BY <1>3, <1>4, <1>5
  <2> QED BY <1>1, <1>6, <2>1
<1>9. m = n
  BY <1>7, <1>8
<1> QED BY <1>3, <1>4, <1>9

\* The allocations lie in the ranges, and every page holds a byte of an active one.
LEMMA AllocsAre ==
  ASSUME Fixed
  PROVE  /\ \A a \in Allocs(mode, pages) :
              /\ a.base \in Nat /\ a.size \in Nat
              /\ mode # "alias" =>
                   RangeAt(1).base <= a.base /\ a.base + a.size <= RangeAt(1).base + RangeAt(1).len
              /\ mode \in {"alias", "scratch"} =>
                   \E i \in RangeIds : a.base = RangeAt(i).base /\ a.size = RangeAt(i).len
         /\ Allocs(mode, pages) # {}
         /\ mode = "scratch" => \E a : Allocs(mode, pages) = {a}
         /\ \A p \in VaPages : \E a \in Allocs(mode, pages) :
              a.active /\ p \in a.base .. (a.base + a.size - 1)
<1>1. PageSize \in Nat \ {0} /\ mode \in AllModes
  BY ProbeAssumption DEF Fixed
<1> DEFINE whole(r) == [base |-> r.base, size |-> r.len, active |-> TRUE]
<1>2. CASE mode \in {"trt", "t2"}
  <2> DEFINE x == [base |-> 0, size |-> PageSize + 1, active |-> TRUE]
             y == [base |-> PageSize + 1, size |-> PageSize - 1, active |-> mode = "t2"]
  <2>1. Allocs(mode, pages) = {x, y}
    BY <1>2 DEF Allocs
  <2>2. /\ RangeIds = {1} /\ RangeAt(1).base = 0 /\ PagesAt(1) = 2
        /\ RangeAt(1).len = 2 * PageSize
    BY <1>2, RangesAre DEF Fixed
  <2>3. /\ x.base = 0 /\ x.size = PageSize + 1 /\ x.active = TRUE
        /\ y.base = PageSize + 1 /\ y.size = PageSize - 1
    OBVIOUS
  <2> HIDE DEF x, y
  <2>4. \A p \in VaPages : p \in x.base .. (x.base + x.size - 1)
    <3> TAKE p \in VaPages
    <3>1. PICK k \in 0 .. 1 : p = 0 + k * PageSize
      BY <2>2, VaPagesAre DEF PageAt
    <3>2. k = 0 \/ k = 1
      OBVIOUS
    <3>3. p = 0 \/ p = PageSize
      BY <1>1, <3>1, <3>2
    <3> QED BY <1>1, <2>3, <3>3
  <2>5. \A a \in Allocs(mode, pages) :
          /\ a.base \in Nat /\ a.size \in Nat
          /\ RangeAt(1).base <= a.base /\ a.base + a.size <= RangeAt(1).base + RangeAt(1).len
    BY <1>1, <2>1, <2>2, <2>3
  <2> QED BY <1>2, <2>1, <2>3, <2>4, <2>5
<1>3. CASE mode \notin {"trt", "t2"}
  <2>1. Allocs(mode, pages) = {whole(RangeAt(i)) : i \in RangeIds}
    BY <1>3 DEF Allocs, RangeAt, RangeIds
  <2>2. \A i : /\ whole(RangeAt(i)).base = RangeAt(i).base
               /\ whole(RangeAt(i)).size = RangeAt(i).len /\ whole(RangeAt(i)).active = TRUE
    OBVIOUS
  <2> HIDE DEF whole
  <2>3. /\ RangeIds = IF mode = "alias" THEN {1, 2} ELSE {1}
        /\ 1 \in RangeIds
        /\ \A i \in RangeIds : RangeAt(i).base \in Nat /\ RangeAt(i).len \in Nat
    BY RangesAre
  <2>4. \A p \in VaPages : \E i \in RangeIds :
           p \in RangeAt(i).base .. (RangeAt(i).base + RangeAt(i).len - 1)
    <3> TAKE p \in VaPages
    <3>1. PICK i \in RangeIds : \E k \in 0 .. (PagesAt(i) - 1) : p = PageAt(i, k)
      BY PageIs
    <3>2. PICK k \in 0 .. (PagesAt(i) - 1) : p = PageAt(i, k)
      BY <3>1
    <3>3. /\ p \in Nat /\ RangeAt(i).base <= p /\ p + PageSize <= RangeAt(i).base + RangeAt(i).len
      BY <3>2, PageIs
    <3>4. p \in RangeAt(i).base .. (RangeAt(i).base + RangeAt(i).len - 1)
      BY <1>1, <2>3, <3>3
    <3> QED BY <3>4
  <2>5. \A p \in VaPages : \E a \in Allocs(mode, pages) :
              a.active /\ p \in a.base .. (a.base + a.size - 1)
    BY <2>1, <2>2, <2>4
  <2>6. \A a \in Allocs(mode, pages) :
              /\ a.base \in Nat /\ a.size \in Nat
              /\ mode # "alias" =>
                   RangeAt(1).base <= a.base /\ a.base + a.size <= RangeAt(1).base + RangeAt(1).len
              /\ \E i \in RangeIds : a.base = RangeAt(i).base /\ a.size = RangeAt(i).len
    BY <2>1, <2>2, <2>3
  <2>7. Allocs(mode, pages) # {} /\ (mode = "scratch" => \E a : Allocs(mode, pages) = {a})
    <3>1. whole(RangeAt(1)) \in Allocs(mode, pages)
      BY <2>1, <2>3
    <3>2. ASSUME mode = "scratch"
          PROVE  Allocs(mode, pages) = {whole(RangeAt(1))}
      <4>1. RangeIds = {1}
        BY <2>3, <3>2
      <4> QED BY <2>1, <4>1
    <3> QED BY <3>1, <3>2
  <2> QED BY <2>5, <2>6, <2>7
<1> QED BY <1>2, <1>3

\* What the lookups say of a map with true rows that covers the active allocations.
TrueRows(map) ==
  \A r \in map : r.va \in VaPages /\ r.frame = truth[r.va]

CoversActive(map) ==
  \A a \in Allocs(mode, pages) : a.active =>
    \A va \in a.base .. (a.base + a.size - 1) :
       \E r \in map : r.active /\ decode_pte(r) /\ r.va <= va /\ va < r.va + PageSize

\* Such a map answers every lookup with the page table of the snapshot.
LEMMA LookupsAreTrue ==
  ASSUME Fixed, NEW map, TrueRows(map), CoversActive(map)
  PROVE  /\ conflicts(map) = {}
         /\ \A a \in {b \in Allocs(mode, pages) : b.active} :
              \A va \in a.base .. (a.base + a.size - 1) :
                 LET p == PageOf(va)
                 IN  {h.frame : h \in forward(map, va)} = {truth[p]}
         /\ \A p \in VaPages : p \in reverse(map, truth[p])
<1>1. conflicts(map) = {}
  BY DEF conflicts, TrueRows
<1>2. PageSize \in Nat \ {0} /\ \A p \in VaPages : p \in Nat
  BY PageIs, ProbeAssumption
<1>3. ASSUME NEW a \in Allocs(mode, pages), a.active, NEW va \in a.base .. (a.base + a.size - 1)
      PROVE  /\ {h.frame : h \in forward(map, va)} = {truth[PageOf(va)]}
             /\ \E r \in map : r.va = PageOf(va)
             /\ va \in Nat /\ PageOf(va) \in VaPages
             /\ PageOf(va) <= va /\ va < PageOf(va) + PageSize
  <2>1. PICK r \in map : r.active /\ decode_pte(r) /\ r.va <= va /\ va < r.va + PageSize
    BY <1>3 DEF CoversActive
  <2>2. va \in Nat
    BY AllocsAre
  <2>3. r.va \in VaPages /\ r.frame = truth[r.va]
    BY DEF TrueRows
  <2>4. /\ PageOf(va) \in VaPages /\ PageOf(va) <= va /\ va < PageOf(va) + PageSize
    BY <2>1, <2>3 DEF PageOf
  <2>5. \A p \in VaPages : p <= va /\ va < p + PageSize => p = PageOf(va)
    BY <2>2, <2>4, OnePage
  <2>6. r.va = PageOf(va)
    BY <2>1, <2>3, <2>5
  <2>7. \A h \in forward(map, va) : h.frame = truth[PageOf(va)]
    <3>1. \A h \in forward(map, va) : \E q \in map : q.va <= va /\ va < q.va + PageSize /\ h.frame = q.frame
      BY DEF forward
    <3> QED BY <2>5, <3>1 DEF TrueRows
  <2>8. \E h \in forward(map, va) : h.frame = truth[PageOf(va)]
    <3> DEFINE h == [frame |-> r.frame, in_page_offset |-> va - r.va]
    <3>1. h \in forward(map, va)
      BY <2>1 DEF forward
    <3>2. h.frame = truth[PageOf(va)]
      BY <2>3, <2>6
    <3> QED BY <3>1, <3>2
  <2>9. {h.frame : h \in forward(map, va)} = {truth[PageOf(va)]}
    BY <2>7, <2>8
  <2> QED BY <2>2, <2>4, <2>6, <2>9
<1>4. ASSUME NEW p \in VaPages
      PROVE  p \in reverse(map, truth[p])
  <2>1. PICK a \in Allocs(mode, pages) : a.active /\ p \in a.base .. (a.base + a.size - 1)
    BY AllocsAre
  <2>2. /\ \E r \in map : r.va = PageOf(p)
        /\ PageOf(p) \in VaPages /\ PageOf(p) <= p /\ p < PageOf(p) + PageSize /\ p \in Nat
    BY <1>3, <2>1
  <2>3. p <= p /\ p < p + PageSize
    BY <1>2, <2>2
  <2> DEFINE q == PageOf(p)
  <2>4. q = p
    <3>1. q \in VaPages /\ q <= p /\ p < q + PageSize /\ p \in Int
      BY <2>2
    <3> HIDE DEF q
    <3> QED BY <2>3, <3>1, OnePage
  <2> QED BY <2>2, <2>4 DEF reverse, TrueRows
<1> QED BY <1>1, <1>3, <1>4

-----------------------------------------------------------------------------
(* The ledgers that pass.                                                  *)

\* A set with one element does not have two.
LEMMA OneElement ==
  ASSUME NEW S, IsFiniteSet(S), Cardinality(S) = 1
  PROVE  S # {} /\ \A x \in S, y \in S : x = y
<1>1. \E x : S = {x}
  BY FS_Singleton
<1> QED BY <1>1

\* What an allocation's ledger has found if nothing failed.
LEMMA CleanLedger ==
  ASSUME NEW R, NEW a, NEW x, NEW y, IsFiniteSet(R),
         build_allocation_ledger(R, a, x, y).failures = {}
  PROVE  /\ \A m \in OfType(R, "MAP"), o \in OfType(R, "MAP") : Covers(m, a) /\ Covers(o, a) => m = o
         /\ Tiles(a, build_allocation_ledger(R, a, x, y).segments)
         /\ build_allocation_ledger(R, a, x, y).alloc = a
<1> DEFINE near(type) == {r \in OfType(R, type) : Covers(r, a)}
           headers == near("HEADER")
           mapped_at == MappedAt(near("MAP"))
           unmapped_at == UnmappedAt(near("FREE"), mapped_at)
           extents == Extents(R, a, headers)
           segments == {s \in extents : decode_pte(s)}
           c == [maps         |-> Cardinality(near("MAP")) # 1,
                 no_header    |-> headers = {},
                 pending_free |-> headers # {} /\ unmapped_at = None,
                 outlived     |-> headers # {} /\ unmapped_at > y,
                 incomplete   |-> \E h \in headers : ~CompleteQuery(R, h),
                 non_local    |-> segments # extents,
                 coverage     |-> headers # {} /\ ~Tiles(a, segments),
                 late_map     |-> segments # {} /\ mapped_at >= x]
<1>1. build_allocation_ledger(R, a, x, y) =
        [alloc |-> a, segments |-> segments, failures |-> Failing(c),
         mapped_at |-> mapped_at, unmapped_at |-> unmapped_at]
  BY Zenon DEF build_allocation_ledger
<1>2. /\ build_allocation_ledger(R, a, x, y).alloc = a
      /\ build_allocation_ledger(R, a, x, y).segments = segments
      /\ Failing(c) = {}
  <2> HIDE DEF segments, c, mapped_at, unmapped_at
  <2> QED BY <1>1
<1>3. "maps" \in DOMAIN c /\ "no_header" \in DOMAIN c /\ "coverage" \in DOMAIN c
  <2> HIDE DEF near, headers, mapped_at, unmapped_at, extents, segments
  <2> QED OBVIOUS
<1>4. ~c["maps"] /\ ~c["no_header"] /\ ~c["coverage"]
  <2> HIDE DEF c
  <2> QED BY <1>2, <1>3 DEF Failing
<1>5. Cardinality(near("MAP")) = 1 /\ Tiles(a, segments)
  <2>1. /\ c["maps"] <=> Cardinality(near("MAP")) # 1
        /\ c["no_header"] <=> headers = {}
        /\ c["coverage"] <=> headers # {} /\ ~Tiles(a, segments)
    <3> HIDE DEF near, headers, mapped_at, unmapped_at, extents, segments
    <3> QED BY Zenon
  <2> HIDE DEF c, near, headers, segments
  <2> QED BY <1>4, <2>1
<1>6. IsFiniteSet(near("MAP"))
  <2>1. near("MAP") \subseteq R
    BY DEF OfType
  <2> HIDE DEF near
  <2> QED BY <2>1, FS_Subset
<1>7. \A m \in near("MAP"), o \in near("MAP") : m = o
  <2> HIDE DEF near
  <2> QED BY <1>5, <1>6, OneElement
<1> QED BY <1>2, <1>5, <1>7

\* The rows at the check are one map call's, and its frames are those of the snapshot.
Truthful(R, i, t, f) ==
  /\ t \in Nat /\ NonFree(i) = trace_map(RangeAt(i), PagesAt(i), t, f) /\ R \subseteq All
  /\ OnRange(i, truth, f)

\* The ledgers of the TensorRT, pool and injection runs, when they are clean, give such a map.
LEMMA LedgerIsTrue ==
  ASSUME Types, Timed, mode \notin {"alias", "scratch"}, NEW x, NEW y,
         build_final_ledger(rows, Allocs(mode, pages), x, y).ok
  PROVE  LET map == map_rows_from_segments(build_final_ledger(rows, Allocs(mode, pages), x, y).ledgers)
         IN  /\ ~Twice(rows)
             /\ \A t, f : Truthful(rows, 1, t, f) => TrueRows(map) /\ CoversActive(map)
<1> DEFINE L(a) == build_allocation_ledger(rows, a, x, y)
           ledgers == {L(a) : a \in Allocs(mode, pages)}
           map == map_rows_from_segments(ledgers)
<1>1. /\ build_final_ledger(rows, Allocs(mode, pages), x, y).ledgers = ledgers
      /\ \A a \in Allocs(mode, pages) : L(a).failures = {}
  BY DEF build_final_ledger
<1>2. Fixed /\ IsFiniteSet(rows)
  BY DEF Types
<1>3. ASSUME NEW a \in Allocs(mode, pages)
      PROVE  /\ \A m \in OfType(rows, "MAP"), o \in OfType(rows, "MAP") :
                   Covers(m, a) /\ Covers(o, a) => m = o
             /\ Tiles(a, L(a).segments) /\ L(a).alloc = a
  <2>1. L(a).failures = {}
    BY <1>1
  <2> QED BY <1>2, <2>1, CleanLedger
<1>4. RangeIds = {1} /\ 1 \in RangeIds
  BY <1>2, RangesAre
<1>5. \A m \in rows : m.base = RangeAt(1).base
  BY <1>4 DEF Timed, All
<1>6. ~Twice(rows)
  <2>1. PICK a \in Allocs(mode, pages) : TRUE
    BY <1>2, AllocsAre
  <2>2. \A m \in Maps(rows) : m \in OfType(rows, "MAP") /\ Covers(m, a)
    BY <1>2, AllocsAre DEF Maps, OfType, Covers
  <2> QED BY <1>3, <2>2 DEF Twice
<1>7. ASSUME NEW t, NEW f, Truthful(rows, 1, t, f), NEW a \in Allocs(mode, pages)
      PROVE  \A s \in L(a).segments : Shows(s, 1, f, a)
  <2>1. /\ t \in Nat /\ NonFree(1) = trace_map(RangeAt(1), PagesAt(1), t, f) /\ rows \subseteq All
    BY <1>7 DEF Truthful
  <2>2. \A m \in rows : Covers(m, a) => m.base = RangeAt(1).base
    BY <1>5
  <2> QED BY <1>2, <1>4, <2>1, <2>2, SegmentsAre, Zenon
<1>8. \A r : r \in map <=> \E a \in Allocs(mode, pages) : \E s \in L(a).segments :
           r = [alloc |-> L(a).alloc, va |-> s.va, frame |-> s.frame, active |-> L(a).alloc.active]
  BY DEF map_rows_from_segments
<1> HIDE DEF map, L
<1>9. ASSUME NEW t, NEW f, Truthful(rows, 1, t, f)
      PROVE  TrueRows(map)
  <2> SUFFICES ASSUME NEW r \in map PROVE r.va \in VaPages /\ r.frame = truth[r.va]
    BY DEF TrueRows
  <2>1. PICK a \in Allocs(mode, pages) : \E s \in L(a).segments :
           r = [alloc |-> L(a).alloc, va |-> s.va, frame |-> s.frame, active |-> L(a).alloc.active]
    BY <1>8
  <2>2. PICK s \in L(a).segments :
           r = [alloc |-> L(a).alloc, va |-> s.va, frame |-> s.frame, active |-> L(a).alloc.active]
    BY <2>1
  <2>3. Shows(s, 1, f, a)
    BY <1>7, <1>9
  <2>4. PICK k \in 0 .. (PagesAt(1) - 1) : s.va = PageAt(1, k) /\ s.frame = f[k]
    BY <2>3 DEF Shows
  <2>5. PageAt(1, k) \in VaPages
    BY <1>2, <1>4, PageIs
  <2>6. truth[PageAt(1, k)] = f[k]
    BY <1>9 DEF Truthful, OnRange
  <2> QED BY <2>2, <2>4, <2>5, <2>6
<1>10. ASSUME NEW t, NEW f, Truthful(rows, 1, t, f)
       PROVE  CoversActive(map)
  <2> SUFFICES ASSUME NEW a \in Allocs(mode, pages), a.active,
                      NEW va \in a.base .. (a.base + a.size - 1)
               PROVE  \E r \in map : r.active /\ decode_pte(r) /\ r.va <= va /\ va < r.va + PageSize
    BY DEF CoversActive
  <2>1. Cardinality({s \in L(a).segments : s.from <= va /\ va < s.to}) = 1
    BY <1>3 DEF Tiles
  <2>2. {s \in L(a).segments : s.from <= va /\ va < s.to} # {}
    BY <2>1, FS_EmptySet
  <2>3. PICK s \in L(a).segments : s.from <= va /\ va < s.to
    BY <2>2
  <2>4. Shows(s, 1, f, a)
    BY <1>7, <1>10
  <2>5. PICK k \in 0 .. (PagesAt(1) - 1) :
           s.va = PageAt(1, k) /\ s.frame = f[k] /\ decode_pte(s)
             /\ s.from = Larger(a.base, s.va)
             /\ s.to = Smaller(a.base + a.size, s.va + PageSize)
    BY <2>4 DEF Shows
  <2>6. s.va \in Nat /\ a.base \in Nat /\ a.size \in Nat /\ PageSize \in Nat
    BY <1>2, <1>4, <2>5, PageIs, AllocsAre, ProbeAssumption
  <2>7. s.va <= va /\ va < s.va + PageSize
    BY <2>3, <2>5, <2>6 DEF Larger, Smaller
  <2> DEFINE r == [alloc |-> L(a).alloc, va |-> s.va, frame |-> s.frame, active |-> L(a).alloc.active]
  <2>8. r \in map
    BY <1>8
  <2>9. r.active /\ decode_pte(r) /\ r.va = s.va
    BY <1>3, <2>5 DEF decode_pte
  <2> HIDE DEF r
  <2> QED BY <2>7, <2>8, <2>9
<1> QED BY <1>1, <1>6, <1>9, <1>10 DEF map

\* The pages collected of an aliased range.
LEMMA CollectedAre ==
  ASSUME Types, NEW i \in RangeIds, NEW t, NEW f, Truthful(rows, i, t, f)
  PROVE  \A p \in collect_pages(rows, RangeAt(i).base).pages :
           /\ decode_pte(p)
           /\ \E k \in 0 .. (PagesAt(i) - 1) : p.va = PageAt(i, k) /\ p.frame = f[k]
<1> DEFINE heads == {r \in OfType(rows, "HEADER") : r.base = RangeAt(i).base}
<1>1. \A p \in collect_pages(rows, RangeAt(i).base).pages :
        /\ decode_pte(p)
        /\ \E h \in heads : \E e \in EntriesOf(rows, h) : p = [va |-> PageVa(h, e), frame |-> e.frame]
  BY DEF collect_pages
<1>2. /\ Fixed /\ t \in Nat /\ rows \subseteq All
      /\ NonFree(i) = trace_map(RangeAt(i), PagesAt(i), t, f)
  BY DEF Types, Truthful
<1>3. \A h \in heads : h \in OfType(rows, "HEADER") /\ h.base = RangeAt(i).base
  OBVIOUS
<1> HIDE DEF heads
<1>4. ASSUME NEW p \in collect_pages(rows, RangeAt(i).base).pages
      PROVE  \E k \in 0 .. (PagesAt(i) - 1) : p.va = PageAt(i, k) /\ p.frame = f[k]
  <2>1. PICK h \in heads : \E e \in EntriesOf(rows, h) : p = [va |-> PageVa(h, e), frame |-> e.frame]
    BY <1>1
  <2>2. PICK e \in EntriesOf(rows, h) : p = [va |-> PageVa(h, e), frame |-> e.frame]
    BY <2>1
  <2>3. \E k \in 0 .. (PagesAt(i) - 1) : PageVa(h, e) = PageAt(i, k) /\ e.frame = f[k]
    BY <1>2, <1>3, EntryIs
  <2> QED BY <2>2, <2>3
<1> QED BY <1>1, <1>4

\* A range collected without failure has one map call.
LEMMA CollectedOnce ==
  ASSUME Types, NEW base, collect_pages(rows, base).failures = {}
  PROVE  \A m \in OfType(rows, "MAP"), o \in OfType(rows, "MAP") : m.base = base /\ o.base = base => m = o
<1> DEFINE near(type) == {r \in OfType(rows, type) : r.base = base}
           headers == near("HEADER")
           decoded == UNION {{[va |-> PageVa(h, e), frame |-> e.frame] : e \in EntriesOf(rows, h)} :
                             h \in {g \in headers : CompleteQuery(rows, g)}}
           pages0 == {p \in decoded : decode_pte(p)}
           c == [maps       |-> Cardinality(near("MAP")) # 1,
                 no_header  |-> headers = {},
                 frees      |-> Cardinality(near("FREE")) # 1,
                 incomplete |-> \E h \in headers : ~CompleteQuery(rows, h),
                 non_local  |-> pages0 # decoded,
                 conflict   |-> \E p, q \in pages0 : p.va = q.va /\ p.frame # q.frame]
<1>1. collect_pages(rows, base) =
        [failures |-> Failing(c), pages |-> pages0, mapped_at |-> MappedAt(near("MAP")),
         unmapped_at |-> UnmappedAt(near("FREE"), 0)]
  BY Zenon DEF collect_pages
<1>2. Failing(c) = {}
  <2> HIDE DEF c, near, pages0
  <2> QED BY <1>1
<1>3. "maps" \in DOMAIN c
  <2> HIDE DEF near, headers, decoded, pages0
  <2> QED OBVIOUS
<1>4. ~c["maps"]
  <2> HIDE DEF c
  <2> QED BY <1>2, <1>3 DEF Failing
<1>5. Cardinality(near("MAP")) = 1
  <2>1. c["maps"] <=> Cardinality(near("MAP")) # 1
    <3> HIDE DEF near, headers, decoded, pages0
    <3> QED BY Zenon
  <2> HIDE DEF c, near
  <2> QED BY <1>4, <2>1
<1>6. IsFiniteSet(near("MAP"))
  <2>1. near("MAP") \subseteq rows /\ IsFiniteSet(rows)
    BY DEF OfType, Types
  <2> HIDE DEF near
  <2> QED BY <2>1, FS_Subset
<1>7. \A m \in near("MAP"), o \in near("MAP") : m = o
  <2> HIDE DEF near
  <2> QED BY <1>5, <1>6, OneElement
<1> QED BY <1>7

\* So do the pages of the aliased ranges, when the alias probe confirms them.
LEMMA AliasIsTrue ==
  ASSUME Types, mode = "alias", CheckAlias.ok, CheckAlias.confirmed
  PROVE  /\ ~Twice(rows)
         /\ \A t1, f1, t2, f2 : Truthful(rows, 1, t1, f1) /\ Truthful(rows, 2, t2, f2) =>
              TrueRows(CheckAlias.map) /\ CoversActive(CheckAlias.map)
<1> DEFINE b1 == RangeAt(1).base
           b2 == RangeAt(2).base
           first == collect_pages(rows, b1)
           second == collect_pages(rows, b2)
           map == {[alloc |-> b1, va |-> p.va, frame |-> p.frame, active |-> TRUE] :
                     p \in first.pages \cup second.pages}
<1>1. /\ CheckAlias.ok => first.failures = {} /\ DoubleMapped(first.pages, b1, second.pages, b2)
      /\ CheckAlias.confirmed = (first.pages # {})
      /\ CheckAlias.map = map
  <2> HIDE DEF first, second
  <2> QED BY Zenon DEF CheckAlias, RangeAt, first, second
<1>2. /\ first.failures = {} /\ first.pages # {}
      /\ Offsets(first.pages, b1) = Offsets(second.pages, b2)
  BY <1>1 DEF DoubleMapped
<1>3. second.pages # {}
  <2> HIDE DEF first, second
  <2> QED BY <1>2 DEF Offsets
<1>4. /\ Fixed /\ RangeIds = {1, 2} /\ PagesAt(1) = 1 /\ PagesAt(2) = 1
      /\ b1 \in Nat /\ b2 \in Nat /\ PageSize \in Nat \ {0}
      /\ \A i \in RangeIds : RangeAt(i).len = 1 * PageSize /\ 1 * PageSize = PageSize
                             /\ PageAt(i, 0) = RangeAt(i).base + 0 * PageSize /\ 0 * PageSize = 0
                             /\ RangeAt(i).base \in Nat
  <2>1. PageSize \in Nat \ {0} /\ 1 * PageSize = PageSize /\ 0 * PageSize = 0
    BY ProbeAssumption
  <2> QED BY <2>1, RangesAre DEF Types, PageAt
<1>5. ~Twice(rows)
  <2>1. \A m \in OfType(rows, "MAP"), o \in OfType(rows, "MAP") : m.base = b1 /\ o.base = b1 => m = o
    <3> HIDE DEF b1
    <3> QED BY <1>2, CollectedOnce
  <2> QED BY <2>1 DEF Twice, Maps, OfType
<1>6. ASSUME NEW t1, NEW f1, NEW t2, NEW f2, Truthful(rows, 1, t1, f1), Truthful(rows, 2, t2, f2)
      PROVE  TrueRows(map) /\ CoversActive(map)
  <2> DEFINE PagesOf(i) == IF i = 1 THEN first.pages ELSE second.pages
  <2>1. ASSUME NEW i \in RangeIds, NEW p \in PagesOf(i)
        PROVE  p.va = PageAt(i, 0) /\ p.frame = truth[PageAt(i, 0)] /\ decode_pte(p)
    <3>1. CASE i = 1
      <4>1. decode_pte(p) /\ \E k \in 0 .. (PagesAt(1) - 1) : p.va = PageAt(1, k) /\ p.frame = f1[k]
        BY <1>4, <1>6, <2>1, <3>1, CollectedAre
      <4>2. p.va = PageAt(1, 0) /\ p.frame = f1[0]
        BY <1>4, <4>1
      <4> QED BY <1>4, <1>6, <3>1, <4>1, <4>2 DEF Truthful, OnRange
    <3>2. CASE i = 2
      <4>1. decode_pte(p) /\ \E k \in 0 .. (PagesAt(2) - 1) : p.va = PageAt(2, k) /\ p.frame = f2[k]
        BY <1>4, <1>6, <2>1, <3>2, CollectedAre
      <4>2. p.va = PageAt(2, 0) /\ p.frame = f2[0]
        BY <1>4, <4>1
      <4> QED BY <1>4, <1>6, <3>2, <4>1, <4>2 DEF Truthful, OnRange
    <3> QED BY <1>4, <3>1, <3>2
  <2>2. \A r : r \in map <=> \E i \in RangeIds : \E p \in PagesOf(i) :
             r = [alloc |-> b1, va |-> p.va, frame |-> p.frame, active |-> TRUE]
    <3> HIDE DEF first, second, b1
    <3> QED BY <1>4
  <2>3. \A i \in RangeIds : PagesOf(i) # {}
    <3> HIDE DEF first, second
    <3> QED BY <1>2, <1>3
  <2> HIDE DEF PagesOf, map
  <2>4. TrueRows(map)
    <3> SUFFICES ASSUME NEW r \in map PROVE r.va \in VaPages /\ r.frame = truth[r.va]
      BY DEF TrueRows
    <3>1. PICK i \in RangeIds : \E p \in PagesOf(i) :
             r = [alloc |-> b1, va |-> p.va, frame |-> p.frame, active |-> TRUE]
      BY <2>2
    <3>2. PICK p \in PagesOf(i) :
             r = [alloc |-> b1, va |-> p.va, frame |-> p.frame, active |-> TRUE]
      BY <3>1
    <3>3. PageAt(i, 0) \in VaPages
      <4>1. 0 \in 0 .. (PagesAt(i) - 1)
        BY <1>4
      <4> QED BY <1>4, <4>1, PageIs
    <3> QED BY <2>1, <3>2, <3>3
  <2>5. CoversActive(map)
    <3> SUFFICES ASSUME NEW a \in Allocs(mode, pages), a.active,
                        NEW va \in a.base .. (a.base + a.size - 1)
                 PROVE  \E r \in map : r.active /\ decode_pte(r) /\ r.va <= va /\ va < r.va + PageSize
      BY DEF CoversActive
    <3>1. PICK i \in RangeIds : a.base = RangeAt(i).base /\ a.size = RangeAt(i).len
      BY <1>4, AllocsAre
    <3>2. PICK p \in PagesOf(i) : TRUE
      BY <2>3
    <3>3. p.va = PageAt(i, 0) /\ decode_pte(p)
      BY <2>1
    <3>4. p.va = a.base /\ a.size = PageSize /\ a.base \in Nat
      BY <1>4, <3>1, <3>3
    <3> DEFINE r == [alloc |-> b1, va |-> p.va, frame |-> p.frame, active |-> TRUE]
    <3>5. r \in map
      BY <2>2
    <3>6. r.active /\ decode_pte(r) /\ r.va = p.va
      BY <3>3 DEF decode_pte
    <3> HIDE DEF r
    <3> QED BY <1>4, <3>4, <3>5, <3>6
  <2> QED BY <2>4, <2>5
<1> QED BY <1>1, <1>5, <1>6

\* The entries at hand are those of a map call.
Answered(t, f, entries) ==
  \A e \in entries : \E p \in Queries(PagesAt(1)) : \E k \in 0 .. (p[2] - 1) :
     e = Entry(Header(RangeAt(1), PagesAt(1), p, t), k, f[p[1] + k])

\* A sample of a byte shows the byte's page, and what the call put there.
SampleShows(s, o, f, entries) ==
  /\ \E k \in 0 .. (PagesAt(1) - 1) : s.va = PageAt(1, k) /\ s.frame = f[k]
  /\ s.va <= o /\ o < s.va + PageSize
  /\ \E e \in entries : s.frame = e.frame

\* What the scratch probe takes, if the map call was answered by one query.
LEMMA SampleIs ==
  ASSUME Fixed, mode = "scratch", NEW t \in Nat, NEW f,
         NEW q \in Queries(PagesAt(1)),
         \A p \in Queries(PagesAt(1)) : p[1] = q[1],
         NEW entries, Answered(t, f, entries),
         NEW header, header = Header(RangeAt(1), PagesAt(1), q, t),
         NEW o \in Nat, NEW s \in SampleOf(header, entries, o)
  PROVE  SampleShows(s, o, f, entries)
<1> DEFINE n == PagesAt(1)
           m == driver.map_offset
           relative == header.map_offset + (o - header.offset)
           z == q[1] * PageSize
           j == o \div PageSize
           x == o % PageSize
<1>1. /\ RangeAt(1).base = 0 /\ n \in Nat \ {0} /\ PageSize \in Nat \ {0} /\ m \in Nat
  BY RangesAre, ProbeAssumption DEF Fixed
<1>2. header.map_offset = m /\ header.offset = m + z /\ header.base = 0
  BY <1>1 DEF Header
<1>3. PICK e \in entries :
        /\ s = [va |-> header.base + (o - x), frame |-> e.frame]
        /\ relative >= 0 /\ e.index = relative \div PageSize
  BY DEF SampleOf
<1>4. PICK p \in Queries(n) : \E k \in 0 .. (p[2] - 1) :
            e = Entry(Header(RangeAt(1), n, p, t), k, f[p[1] + k])
  BY DEF Answered
<1>5. PICK k \in 0 .. (p[2] - 1) : e = Entry(Header(RangeAt(1), n, p, t), k, f[p[1] + k])
  BY <1>4
<1>6. /\ p[1] \in Nat /\ p[2] \in Nat \ {0} /\ p[1] + p[2] <= n /\ p[1] = q[1]
  BY <1>1, QueriesAre
<1>7. e.index = k /\ e.frame = f[p[1] + k]
  BY <1>5 DEF Entry
<1>8. /\ j \in Nat /\ x \in 0 .. PageSize - 1 /\ o = PageSize * j + x
  BY <1>1, Division
<1>9. z \in Nat /\ relative = o - z
  <2>1. z \in Nat
    BY <1>1, <1>6
  <2> HIDE DEF z, m
  <2> QED BY <1>1, <1>2, <2>1
<1>10. k = j - q[1]
  <2> DEFINE i == j - q[1]
             w == PageSize * i
             v == PageSize * j
  <2>1. w = v - z /\ v \in Nat /\ i \in Int /\ w \in Int
    <3>1. j \in Nat /\ q[1] \in Nat
      BY <1>6, <1>8
    <3> DEFINE g == q[1]
    <3> HIDE DEF j, g
    <3>2. PageSize * (j - g) = PageSize * j - g * PageSize
          /\ PageSize * j \in Nat /\ j - g \in Int /\ PageSize * (j - g) \in Int
      BY <1>1, <3>1 DEF g
    <3> QED BY <3>2 DEF g
  <2>2. relative = w + x
    <3> HIDE DEF w, v, z, relative, x, j
    <3> QED BY <1>8, <1>9, <2>1 DEF v
  <2>3. i \in Nat
    <3> SUFFICES ASSUME i < 0 PROVE FALSE
      BY <2>1
    <3>1. PageSize * i <= PageSize * (-1)
      <4> HIDE DEF i
      <4> QED BY <1>1, <2>1
    <3>2. PageSize * (-1) = -PageSize
      BY <1>1
    <3>3. w + x < 0
      <4> HIDE DEF x, i
      <4> QED BY <1>1, <1>8, <2>1, <3>1, <3>2
    <3>4. w + x >= 0
      BY <1>3, <2>2
    <3> HIDE DEF w, x
    <3> QED BY <1>8, <2>1, <3>3, <3>4
  <2> HIDE DEF i, x, relative
  <2>4. relative \in Nat /\ relative = PageSize * i + x
    <3>1. PageSize * i \in Nat
      BY <1>1, <2>3
    <3> HIDE DEF v
    <3> QED BY <1>8, <2>2, <3>1
  <2>5. i = relative \div PageSize
    BY <1>1, <1>8, <2>3, <2>4, Division
  <2>6. k = i
    BY <1>3, <1>7, <2>5 DEF relative
  <2> QED BY <2>6 DEF i
<1>11. p[1] + k = j /\ j \in 0 .. (n - 1)
  <2> HIDE DEF j, n
  <2>1. k \in Nat /\ k <= p[2] - 1
    BY <1>6
  <2> QED BY <1>1, <1>6, <1>8, <1>10, <2>1
<1>12. s.va = PageSize * j
  <2>1. s.va = header.base + (o - x)
    BY <1>3
  <2> DEFINE v == PageSize * j
  <2>2. v \in Nat /\ o = v + x
    BY <1>1, <1>8
  <2> HIDE DEF v, x
  <2> QED BY <1>2, <1>8, <2>1, <2>2 DEF v
<1>13. PageAt(1, j) = PageSize * j /\ PageSize * j \in Nat
  BY <1>1, <1>8 DEF PageAt
<1>14. s.va <= o /\ o < s.va + PageSize
  <2> DEFINE v == PageSize * j
  <2>1. v \in Nat /\ s.va = v /\ o = v + x
    BY <1>8, <1>12, <1>13
  <2> HIDE DEF v, x
  <2> QED BY <1>1, <1>8, <2>1
<1> QED BY <1>3, <1>7, <1>11, <1>12, <1>13, <1>14 DEF SampleShows

\* The times of the events that delimit the first phase of the scratch probe.
LEMMA ScratchTimes ==
  ASSUME Len(out) = 6, seen = Len(out), \A j \in 1 .. Len(out) : out[j].event = ScratchEvents[j]
  PROVE  TimeOf("ALLOCATION_BEGIN") = out[2].time /\ TimeOf("ALLOCATED") = out[3].time
<1>1. \A j \in 1 .. 6 : j \in {1, 2, 3, 4, 5, 6}
  OBVIOUS
<1>2. /\ out[1].event = "WAIT_PRE_ALLOC_GATE" /\ out[2].event = "ALLOCATION_BEGIN"
      /\ out[3].event = "ALLOCATED" /\ out[4].event = "ACCESS_END"
      /\ out[5].event = "FREE_BEGIN" /\ out[6].event = "FREE_END"
  BY DEF ScratchEvents
<1>3. \A j \in 1 .. 6 : (out[j].event = "ALLOCATION_BEGIN" <=> j = 2)
                        /\ (out[j].event = "ALLOCATED" <=> j = 3)
  BY <1>1, <1>2
<1>4. (CHOOSE j \in 1 .. seen : out[j].event = "ALLOCATION_BEGIN") = 2
      /\ (CHOOSE j \in 1 .. seen : out[j].event = "ALLOCATED") = 3
  BY <1>3
<1>5. Found("ALLOCATION_BEGIN") /\ Found("ALLOCATED")
  <2>1. 2 \in 1 .. seen /\ 3 \in 1 .. seen
    OBVIOUS
  <2> QED BY <1>2, <2>1 DEF Found
<1> QED BY <1>4, <1>5 DEF TimeOf

\* What the scratch probe accepts.
LEMMA ScratchIsTrue ==
  ASSUME Types, mode = "scratch", rows = All,
         \A x \in All : x.time \in Nat /\ x.time >= out[2].time,
         out[2].time \in Nat, out[3].time \in Nat,
         TimeOf("ALLOCATION_BEGIN") = out[2].time, TimeOf("ALLOCATED") = out[3].time,
         CheckScratch.ok, CheckScratch.confirmed
  PROVE  /\ ~Twice(Early)
         /\ \A t \in Nat : \A f :
              /\ {x \in Early : x.type # "FREE"} = trace_map(RangeAt(1), PagesAt(1), t, f)
              /\ OnRange(1, truth, f)
              => TrueRows(CheckScratch.map) /\ CoversActive(CheckScratch.map)
<1>1. Fixed /\ IsFiniteSet(rows)
  BY DEF Types
<1>2. PICK a : Allocs(mode, pages) = {a}
  BY <1>1, AllocsAre
<1>3. /\ RangeIds = {1} /\ 1 \in RangeIds /\ RangeAt(1).base = 0 /\ PagesAt(1) \in Nat \ {0}
      /\ PageSize \in Nat \ {0}
      /\ a.base = 0 /\ a.size \in Nat
  <2>1. /\ RangeIds = {1} /\ 1 \in RangeIds /\ RangeAt(1).base = 0 /\ PagesAt(1) \in Nat \ {0}
    BY <1>1, RangesAre
  <2> QED BY <1>1, <1>2, <2>1, AllocsAre, ProbeAssumption
<1>4. (CHOOSE b \in Allocs(mode, pages) : TRUE) = a
  BY <1>2
<1> DEFINE times == [begin |-> TimeOf("ALLOCATION_BEGIN"), allocated |-> TimeOf("ALLOCATED"),
                     free_begin |-> TimeOf("FREE_BEGIN"), free_end |-> TimeOf("FREE_END")]
           ledger == ScratchLedger(rows, a, times)
           map == {[alloc |-> a.base, va |-> s.va, frame |-> s.frame, active |-> TRUE] :
                     s \in ledger.samples}
<1>5. (CheckScratch.ok => ledger.ok) /\ (CheckScratch.confirmed <=> ledger.local)
      /\ CheckScratch.map = map
  <2> DEFINE b == CHOOSE b0 \in Allocs(mode, pages) : TRUE
             led == ScratchLedger(rows, b, times)
             rec == [raises |-> FALSE, ok |-> CommonFailures = {} /\ led.ok,
                     confirmed |-> led.local,
                     map |-> {[alloc |-> b.base, va |-> s.va, frame |-> s.frame, active |-> TRUE] :
                                s \in led.samples}]
  <2>1. CheckScratch = rec
    BY DEF CheckScratch
  <2>2. b = a
    BY <1>4
  <2>3. /\ rec.ok <=> CommonFailures = {} /\ led.ok
        /\ rec.confirmed = led.local
        /\ rec.map = {[alloc |-> b.base, va |-> s.va, frame |-> s.frame, active |-> TRUE] :
                                s \in led.samples}
    <3> HIDE DEF led, b, times
    <3> QED BY Zenon
  <2> HIDE DEF b, times
  <2> QED BY <2>1, <2>2, <2>3
<1> DEFINE B(type) == {r \in OfType(rows, type) : out[2].time <= r.time /\ r.time <= out[3].time}
           maps == B("MAP")
           headers == B("HEADER")
           entries == B("ENTRY")
           header == CHOOSE h \in headers : TRUE
           samples == UNION {SampleOf(header, entries, o) : o \in 0 .. (a.size - 1)}
<1>6. /\ ledger.ok => /\ Cardinality(maps) = 1 /\ Cardinality(headers) = 1
                      /\ \A o \in 0 .. (a.size - 1) : SampleOf(header, entries, o) # {}
                      /\ ledger.samples = samples
      /\ ledger.local <=> \A e \in entries : decode_pte(e)
  <2>1. /\ Between(rows, "MAP", times.begin, times.allocated) = maps
        /\ Between(rows, "HEADER", times.begin, times.allocated) = headers
        /\ Between(rows, "ENTRY", times.begin, times.allocated) = entries
    <3>1. times.begin = out[2].time /\ times.allocated = out[3].time
      OBVIOUS
    <3> HIDE DEF times
    <3> QED BY <3>1, Zenon DEF Between
  <2> HIDE DEF maps, headers, entries, times
  <2> QED BY <2>1 DEF ScratchLedger
<1>7. /\ Cardinality(maps) = 1 /\ Cardinality(headers) = 1
      /\ \A o \in 0 .. (a.size - 1) : SampleOf(header, entries, o) # {}
      /\ \A e \in entries : decode_pte(e)
      /\ ledger.samples = samples
  BY <1>5, <1>6
<1> HIDE DEF ledger
<1>8. \A type : IsFiniteSet(B(type))
  <2> TAKE type
  <2>1. B(type) \subseteq rows
    BY DEF OfType
  <2> HIDE DEF B
  <2> QED BY <1>1, <2>1, FS_Subset
<1>9. \A type : B(type) = OfType(Early, type)
  BY DEF Early, OfType
<1> HIDE DEF B
<1>10. ~Twice(Early)
  <2>1. \A x \in maps, y \in maps : x = y
    BY <1>7, <1>8, OneElement
  <2>2. \A x \in Maps(Early) : x \in maps
    BY <1>9 DEF Maps, OfType
  <2> QED BY <2>1, <2>2 DEF Twice
<1>11. headers # {} /\ \A x \in headers, y \in headers : x = y
  BY <1>7, <1>8, OneElement
<1>12. ASSUME NEW t \in Nat, NEW f,
              {x \in Early : x.type # "FREE"} = trace_map(RangeAt(1), PagesAt(1), t, f),
              OnRange(1, truth, f)
       PROVE  TrueRows(map) /\ CoversActive(map)
  <2> DEFINE n == PagesAt(1)
             T == trace_map(RangeAt(1), n, t, f)
             H(q) == Header(RangeAt(1), n, q, t)
  <2>1. /\ OfType(T, "HEADER") = {H(q) : q \in Queries(n)}
        /\ \A e \in OfType(T, "ENTRY") : \E q \in Queries(n) : \E k \in 0 .. (q[2] - 1) :
             e = Entry(H(q), k, f[q[1] + k])
    <3>1. Fixed /\ RangeAt(1).base \in Nat /\ n \in Nat \ {0} /\ t \in Nat
      BY <1>1, <1>3
    <3> HIDE DEF n
    <3> QED BY <3>1, TraceIs DEF T, H
  <2>2. headers = OfType(T, "HEADER") /\ entries = OfType(T, "ENTRY")
    BY <1>9, <1>12 DEF OfType
  <2>3. header \in headers
    BY <1>11
  <2>4. PICK q \in Queries(n) : header = H(q)
    BY <2>1, <2>2, <2>3
  <2>5. \A p \in Queries(n) : p[1] = q[1]
    <3> TAKE p \in Queries(n)
    <3>0. H(p) \in headers /\ H(q) \in headers
      <4> HIDE DEF H, headers, T, entries
      <4> QED BY <2>1, <2>2
    <3>1. H(p) = H(q)
      <4> HIDE DEF H, headers
      <4> QED BY <1>11, <3>0
    <3>2. H(p).time = t + p[1] /\ H(q).time = t + q[1]
      BY DEF Header
    <3>3. p[1] \in Nat /\ q[1] \in Nat
      BY <1>1, <1>3, QueriesAre
    <3> HIDE DEF H
    <3> QED BY <3>1, <3>2, <3>3
  <2>6. \A e \in entries : \E p \in Queries(n) : \E k \in 0 .. (p[2] - 1) :
           e = Entry(H(p), k, f[p[1] + k])
    BY <2>1, <2>2
  <2> HIDE DEF header, headers, entries, T
  <2>7. ASSUME NEW o \in 0 .. (a.size - 1), NEW s \in SampleOf(header, entries, o)
        PROVE  /\ \E k \in 0 .. (n - 1) : s.va = PageAt(1, k) /\ s.frame = f[k]
               /\ s.va <= o /\ o < s.va + PageSize
               /\ decode_pte(s)
    <3>1. o \in Nat
      BY <1>3
    <3>2. SampleShows(s, o, f, entries)
      <4>1. header = Header(RangeAt(1), PagesAt(1), q, t) /\ q \in Queries(PagesAt(1))
        BY <2>4
      <4>2. \A p \in Queries(PagesAt(1)) : p[1] = q[1]
        BY <2>5
      <4>3. Answered(t, f, entries)
        BY <2>6 DEF Answered
      <4> HIDE DEF n, H
      <4> QED BY <1>1, <4>1, <4>2, <4>3, <3>1, SampleIs, Zenon
    <3> QED BY <1>7, <3>2 DEF SampleShows, decode_pte
  <2>8. \A r : r \in map <=> \E o \in 0 .. (a.size - 1) : \E s \in SampleOf(header, entries, o) :
             r = [alloc |-> a.base, va |-> s.va, frame |-> s.frame, active |-> TRUE]
    BY <1>7
  <2> HIDE DEF map
  <2>9. TrueRows(map)
    <3> SUFFICES ASSUME NEW r \in map PROVE r.va \in VaPages /\ r.frame = truth[r.va]
      BY DEF TrueRows
    <3>1. PICK o \in 0 .. (a.size - 1) : \E s \in SampleOf(header, entries, o) :
             r = [alloc |-> a.base, va |-> s.va, frame |-> s.frame, active |-> TRUE]
      BY <2>8
    <3>2. PICK s \in SampleOf(header, entries, o) :
             r = [alloc |-> a.base, va |-> s.va, frame |-> s.frame, active |-> TRUE]
      BY <3>1
    <3>3. PICK k \in 0 .. (n - 1) : s.va = PageAt(1, k) /\ s.frame = f[k]
      BY <2>7
    <3>4. PageAt(1, k) \in VaPages
      BY <1>1, <1>3, PageIs
    <3>5. truth[PageAt(1, k)] = f[k]
      BY <1>12 DEF OnRange
    <3> QED BY <3>2, <3>3, <3>4, <3>5
  <2>10. CoversActive(map)
    <3> SUFFICES ASSUME NEW b \in Allocs(mode, pages), b.active,
                        NEW va \in b.base .. (b.base + b.size - 1)
                 PROVE  \E r \in map : r.active /\ decode_pte(r) /\ r.va <= va /\ va < r.va + PageSize
      BY DEF CoversActive
    <3>1. b = a /\ va \in 0 .. (a.size - 1)
      BY <1>2, <1>3
    <3>2. PICK s \in SampleOf(header, entries, va) : TRUE
      BY <1>7, <3>1
    <3>3. s.va <= va /\ va < s.va + PageSize /\ decode_pte(s)
      BY <2>7, <3>1
    <3> DEFINE r == [alloc |-> a.base, va |-> s.va, frame |-> s.frame, active |-> TRUE]
    <3>4. r \in map
      BY <2>8, <3>1
    <3>5. r.active /\ decode_pte(r) /\ r.va = s.va
      BY <3>3 DEF decode_pte
    <3> HIDE DEF r
    <3> QED BY <3>3, <3>4, <3>5
  <2> QED BY <2>9, <2>10
<1> QED BY <1>5, <1>10, <1>12

-----------------------------------------------------------------------------
(* The check.                                                              *)

\* A run without a common failure ended well and lost no row.
LEMMA CommonPassed ==
  ASSUME Types, CommonFailures = {}
  PROVE  exit_ok /\ lost_event_count = 0
<1> DEFINE conds == [exit      |-> ~exit_ok,
                     lifecycle |-> [i \in 1 .. seen |-> out[i].event] # Expected(mode),
                     lost      |-> lost_event_count > 0]
<1>1. CommonFailures = {name \in DOMAIN conds : conds[name]}
  BY Zenon DEF CommonFailures, Failing
<1>2. /\ "exit" \in DOMAIN conds /\ "lost" \in DOMAIN conds
      /\ conds["exit"] <=> ~exit_ok
      /\ conds["lost"] <=> lost_event_count > 0
  OBVIOUS
<1> HIDE DEF conds
<1>3. exit_ok /\ ~(lost_event_count > 0)
  BY <1>1, <1>2
<1> QED BY <1>3 DEF Types

\* A run passes if the checks of its probe found nothing.
LEMMA PassedIs ==
  ASSUME NEW r, Status(r) = "passed"
  PROVE  r.ok /\ r.confirmed
BY DEF Status

\* What each probe looks at, and the map it publishes.
LEMMA ResultIs ==
  ASSUME Fixed
  PROVE  /\ Result.ok => CommonFailures = {}
         /\ mode \notin {"alias", "scratch"} =>
              /\ Result.ok => FinalLedger.ok
              /\ Result.map = map_rows_from_segments(FinalLedger.ledgers)
         /\ mode = "alias" => Result = CheckAlias
         /\ mode = "scratch" => Result = CheckScratch
<1>1. mode \in {"trt", "t2", "pool", "alias", "scratch"}
  BY DEF Fixed, AllModes
<1>2. CheckTrt.ok => CommonFailures = {} /\ FinalLedger.ok
  BY DEF CheckTrt, replay
<1>3. CheckTrt.map = map_rows_from_segments(FinalLedger.ledgers)
  BY DEF CheckTrt
<1>4. CheckPool.ok => CommonFailures = {} /\ FinalLedger.ok
  BY DEF CheckPool
<1>5. CheckPool.map = map_rows_from_segments(FinalLedger.ledgers)
  BY DEF CheckPool
<1>6. CheckT2.ok => CommonFailures = {} /\ FinalLedger.ok
  BY DEF CheckT2
<1>7. CheckT2.map = map_rows_from_segments(FinalLedger.ledgers)
  BY DEF CheckT2
<1>8. CheckAlias.ok => CommonFailures = {}
  BY DEF CheckAlias
<1>9. CheckScratch.ok => CommonFailures = {}
  BY DEF CheckScratch
<1>10. /\ mode = "trt" => Result = CheckTrt
       /\ mode = "pool" => Result = CheckPool
       /\ mode = "t2" => Result = CheckT2
       /\ mode = "alias" => Result = CheckAlias
       /\ mode = "scratch" => Result = CheckScratch
  BY DEF Result
<1> QED BY <1>1, <1>2, <1>3, <1>4, <1>5, <1>6, <1>7, <1>8, <1>9, <1>10

\* Where everything is when the check passes.
AtPass ==
  /\ at = CheckAt /\ verdict # "raised"
  /\ child = "exited" /\ pc = EndAt /\ rows = All /\ NoLoss /\ seen = Len(out)
  /\ Result.ok /\ Result.confirmed

\* The check passes only at the end of a child that ended well.
LEMMA PassIs ==
  ASSUME Types, InOrder, Check, verdict' = "passed"
  PROVE  /\ AtPass /\ published' = Result.map /\ at' = at + 1
         /\ UNCHANGED <<work, causes>>
<1>1. /\ At("check") /\ at' = at + 1 /\ verdict' = Status(Result) /\ published' = Result.map
      /\ UNCHANGED <<work, causes>>
  BY DEF Check
<1>2. Result.ok /\ Result.confirmed
  BY <1>1, PassedIs
<1>3. at = CheckAt
  BY <1>1, StepAt DEF StepOf
<1>4. verdict # "raised" /\ child = "exited" /\ ring = {} /\ lost = 0 /\ seen = Len(out)
  BY <1>3 DEF InOrder, CheckAt, WatchAt
<1>5. exit_ok /\ lost_event_count = 0
  BY <1>2, CommonPassed, ResultIs DEF Types
<1>6. pc = EndAt /\ rows = All
  BY <1>4, <1>5 DEF InOrder, All
<1> QED BY <1>1, <1>2, <1>3, <1>4, <1>5, <1>6 DEF AtPass, NoLoss

\* What AcceptedMapIsTrue says of a map.
TrueMap(map) ==
  /\ mode # "scratch" => "remap" \notin causes
  /\ conflicts(map) = {}
  /\ \A a \in {b \in Allocs(mode, pages) : b.active} :
       \A va \in a.base .. (a.base + a.size - 1) :
          LET p == PageOf(va)
          IN  {h.frame : h \in forward(map, va)} = {truth[p]}
  /\ \A p \in VaPages : p \in reverse(map, truth[p])
  /\ mode \in {"pool", "t2"} => worked = work.frame

\* At the check the rows of a range are still those of its one call.
LEMMA OnceMapped ==
  ASSUME Types, Observed, AtPass, ~Twice(rows)
  PROVE  /\ "remap" \notin causes
         /\ \A i \in RangeIds : \E t, f : Truthful(rows, i, t, f) /\ (Releases => worked = work.frame)
<1>1. Fixed /\ rows = All /\ NoLoss /\ pc = EndAt
  BY DEF Types, AtPass
<1>2. "remap" \notin causes /\ \A i \in RangeIds : Logged(i)
  BY <1>1 DEF Observed
<1>3. ASSUME NEW i \in RangeIds
      PROVE  \E t, f : Truthful(rows, i, t, f) /\ (Releases => worked = work.frame)
  <2>1. pc > MapAt(i) /\ pc > SnapAt /\ (Releases => pc > WorkAt)
    <3>1. /\ MapAt(i) \in Nat /\ SnapAt \in Nat /\ FreeAt(i) \in Nat /\ EndAt \in Nat
          /\ MapAt(i) < SnapAt /\ SnapAt < FreeAt(i) /\ FreeAt(i) < EndAt - 1
          /\ Releases => WorkAt < FreeAt(i)
      BY <1>1, PlacesInOrder
    <3>2. WorkAt \in Nat
      BY DEF WorkAt
    <3> QED BY <1>1, <3>1, <3>2
  <2>2. PICK t, f : t \in Nat /\ Mapped(i, t, f)
    <3>1. Logged(i)
      BY <1>2
    <3> QED BY <2>1, <3>1, LoggedIs
  <2>3. Truthful(rows, i, t, f)
    BY <1>1, <2>1, <2>2 DEF Mapped, Truthful
  <2>4. Releases => worked = work.frame
    BY <2>1, <2>2 DEF Mapped
  <2> QED BY <2>3, <2>4
<1> QED BY <1>2, <1>3

\* A map of true rows that covers what is active is a true map.
LEMMA RowsMakeMap ==
  ASSUME Fixed, NEW map, TrueRows(map), CoversActive(map),
         mode # "scratch" => "remap" \notin causes,
         Releases => worked = work.frame
  PROVE  TrueMap(map)
BY LookupsAreTrue, Zenon DEF TrueMap, Releases

\* The checks accept only a true map.
LEMMA CheckIsTrue ==
  ASSUME Types, InOrder, Timed, Observed, Sampled, AtPass
  PROVE  TrueMap(Result.map)
<1>1. Fixed /\ rows = All /\ NoLoss /\ pc = EndAt /\ seen = Len(out) /\ Result.ok /\ Result.confirmed
  BY DEF Types, AtPass
<1>2. 1 \in RangeIds
  BY <1>1, RangesAre
<1>3. CASE mode \notin {"alias", "scratch"}
  <2>1. FinalLedger.ok /\ Result.map = map_rows_from_segments(FinalLedger.ledgers)
    BY <1>1, <1>3, ResultIs
  <2> DEFINE x == TimeOf("ALLOCATED")
             y == TimeOf("PROCESS_END")
             L == build_final_ledger(rows, Allocs(mode, pages), x, y)
             map == map_rows_from_segments(L.ledgers)
  <2>2. L.ok /\ Result.map = map
    BY <2>1 DEF FinalLedger
  <2>3. ~Twice(rows) /\ \A t, f : Truthful(rows, 1, t, f) => TrueRows(map) /\ CoversActive(map)
    <3> HIDE DEF x, y
    <3> QED BY <1>3, <2>2, LedgerIsTrue
  <2> HIDE DEF map, L
  <2>4. "remap" \notin causes /\ \E t, f : Truthful(rows, 1, t, f) /\ (Releases => worked = work.frame)
    BY <1>2, <2>3, OnceMapped
  <2>5. TrueRows(map) /\ CoversActive(map)
    BY <2>3, <2>4
  <2>6. TrueMap(map)
    BY <1>1, <2>4, <2>5, RowsMakeMap
  <2> QED BY <2>2, <2>6
<1>4. CASE mode = "alias"
  <2>1. CheckAlias.ok /\ CheckAlias.confirmed /\ Result.map = CheckAlias.map
    BY <1>1, <1>4, ResultIs
  <2>2. /\ ~Twice(rows)
        /\ \A t1, f1, t2, f2 : Truthful(rows, 1, t1, f1) /\ Truthful(rows, 2, t2, f2) =>
             TrueRows(CheckAlias.map) /\ CoversActive(CheckAlias.map)
    BY <1>4, <2>1, AliasIsTrue
  <2>3. "remap" \notin causes /\ \A i \in RangeIds : \E t, f : Truthful(rows, i, t, f)
    BY <2>2, OnceMapped
  <2>4. 2 \in RangeIds /\ ~Releases
    BY <1>1, <1>4, RangesAre DEF Releases
  <2>5. TrueRows(CheckAlias.map) /\ CoversActive(CheckAlias.map)
    BY <1>2, <2>2, <2>3, <2>4
  <2> QED BY <1>1, <2>1, <2>3, <2>4, <2>5, RowsMakeMap
<1>5. CASE mode = "scratch"
  <2>1. CheckScratch.ok /\ CheckScratch.confirmed /\ Result.map = CheckScratch.map
    BY <1>1, <1>5, ResultIs
  <2>2. /\ Len(out) = 6 /\ pc > SnapAt
        /\ \A j \in 1 .. Len(out) : out[j].event = ScratchEvents[j] /\ out[j].time \in Nat
        /\ \A z \in All : z.time >= out[2].time
        /\ Sample
    <3>1. pc = 11 /\ SnapAt = 5 /\ Said(11) = 6
      BY <1>1, <1>5 DEF EndAt, SnapAt, Said
    <3> QED BY <1>1, <1>5, <3>1, SampledIs
  <2>3. 2 \in 1 .. Len(out) /\ 3 \in 1 .. Len(out)
    BY <2>2
  <2>4. out[2].time \in Nat /\ out[3].time \in Nat
    BY <2>2, <2>3
  <2>5. TimeOf("ALLOCATION_BEGIN") = out[2].time /\ TimeOf("ALLOCATED") = out[3].time
    BY <1>1, <2>2, ScratchTimes
  <2>6. \A z \in All : z.time \in Nat /\ z.time >= out[2].time
    BY <2>2 DEF Timed
  <2>7. /\ ~Twice(Early)
        /\ \A t \in Nat : \A f :
             /\ {z \in Early : z.type # "FREE"} = trace_map(RangeAt(1), PagesAt(1), t, f)
             /\ OnRange(1, truth, f)
             => TrueRows(CheckScratch.map) /\ CoversActive(CheckScratch.map)
    BY <1>1, <1>5, <2>1, <2>4, <2>5, <2>6, ScratchIsTrue
  <2>8. PICK t, f : /\ t \in Nat
                     /\ {z \in Early : z.type # "FREE"} = trace_map(RangeAt(1), PagesAt(1), t, f)
                     /\ OnRange(1, truth, f)
    BY <2>2, <2>7 DEF Sample
  <2>9. TrueRows(CheckScratch.map) /\ CoversActive(CheckScratch.map)
    BY <2>7, <2>8
  <2>10. ~Releases
    BY <1>5 DEF Releases
  <2> QED BY <1>1, <1>5, <2>1, <2>9, <2>10, RowsMakeMap
<1> QED BY <1>3, <1>4, <1>5

-----------------------------------------------------------------------------
(* What is settled stays settled.                                          *)

\* The published map is the one in question.
LEMMA MapIsTrueIs ==
  MapIsTrue <=> TrueMap(published)
BY Zenon DEF MapIsTrue, TrueMap

\* The truth of a map depends on what the run did, not on how far the script is.
LEMMA TrueMapKept ==
  ASSUME UNCHANGED <<mode, pages, truth, worked, work>>,
         "remap" \in causes' <=> "remap" \in causes,
         NEW map, published' = map, TrueMap(map)
  PROVE  MapIsTrue'
<1>1. VaPages' = VaPages /\ Allocs(mode, pages)' = Allocs(mode, pages)
  BY DEF VaPages
<1>2. \A va : PageOf(va)' = PageOf(va)
  BY <1>1 DEF PageOf
<1>3. conflicts(published)' = conflicts(map)
  BY DEF conflicts
<1>4. \A va : forward(published, va)' = forward(map, va)
  BY DEF forward
<1>5. \A f : reverse(published, f)' = reverse(map, f)
  BY DEF reverse
<1> QED BY <1>1, <1>2, <1>3, <1>4, <1>5 DEF MapIsTrue, TrueMap

\* Only the check passes a run; after it the script goes on or raises.
LEMMA ScriptVerdict ==
  ASSUME Types, InOrder, ScriptStep, ~Check
  PROVE  /\ verdict' \in {verdict, "raised"} /\ published' = published
         /\ verdict' # "raised" => at' >= at
         /\ ~Ended
<1>1. at \in Nat /\ Len(Script) \in Nat
  <2>1. Len(Script) \in Nat
    BY ScriptIs DEF Types
  <2> QED BY <2>1 DEF Types
<1>2. CASE Spawn
  BY <1>1, <1>2 DEF Spawn, At
<1>3. CASE SetTargetTgid
  BY <1>1, <1>3 DEF SetTargetTgid, At
<1>4. CASE OpenFile
  BY <1>1, <1>4 DEF OpenFile, At
<1>5. CASE ReadPipe
  BY <1>1, <1>5 DEF ReadPipe, Awaiting
<1>6. CASE AwaitEnds
  BY <1>1, <1>6 DEF AwaitEnds, Awaiting, Raise
<1>7. CASE Watch
  BY <1>1, <1>7 DEF Watch, At
<1>8. CASE TimesOut
  BY <1>1, <1>8 DEF TimesOut, Awaiting, At, Raise
<1>9. CASE Settle
  BY <1>1, <1>9 DEF Settle, At
<1>10. CASE Communicate
  BY <1>1, <1>10 DEF Communicate, At
<1>11. CASE PreLedger
  BY <1>1, <1>11 DEF PreLedger, At, Raise
<1>12. CASE WriteWork
  BY <1>1, <1>12 DEF WriteWork, At
<1>13. CASE Terminate
  BY <1>1, <1>13 DEF Terminate, At
<1>14. CASE Kill
  BY <1>1, <1>14 DEF Kill, At, Ended
<1> QED BY <1>2, <1>3, <1>4, <1>5, <1>6, <1>7, <1>8, <1>9, <1>10, <1>11, <1>12, <1>13,
           <1>14 DEF ScriptStep

\* The script passes a run only with a true map, and leaves it so.
LEMMA ScriptSettled ==
  ASSUME GateInv, ScriptStep
  PROVE  Settled'
<1>1. Types /\ InOrder /\ Timed /\ Observed /\ Sampled /\ Settled
  BY DEF GateInv
<1> SUFFICES ASSUME verdict' = "passed" PROVE at' > CheckAt' /\ MapIsTrue'
  BY DEF Settled
<1>2. UNCHANGED <<mode, pages, truth, worked>> /\ ("remap" \in causes' <=> "remap" \in causes)
  BY <1>1, ScriptFrame DEF fixed
<1>3. CheckAt' = CheckAt
  <2>1. UNCHANGED fixed
    BY <1>1, ScriptFrame
  <2> QED BY <1>1, <2>1, FixedKept DEF Same, Types
<1>4. CheckAt \in Nat /\ at \in Nat /\ CheckAt > 8
  <2>1. Len(Script) \in Nat
    BY <1>1, ScriptIs DEF Types
  <2> QED BY <1>1, <2>1 DEF Types, CheckAt
<1>5. CASE Check
  <2>1. AtPass /\ published' = Result.map /\ at' = at + 1 /\ work' = work
    BY <1>1, <1>5, PassIs
  <2>2. PICK m : m = Result.map
    OBVIOUS
  <2>3. TrueMap(m)
    BY <1>1, <2>1, <2>2, CheckIsTrue
  <2>4. MapIsTrue'
    BY <1>2, <2>1, <2>2, <2>3, TrueMapKept
  <2>5. at' > CheckAt
    BY <1>4, <2>1 DEF AtPass
  <2> QED BY <1>3, <2>4, <2>5
<1>6. CASE ~Check
  <2>1. verdict = "passed" /\ published' = published /\ at' >= at
    BY <1>1, <1>6, ScriptVerdict
  <2>2. at > CheckAt /\ MapIsTrue
    BY <1>1, <2>1 DEF Settled
  <2>3. work' = work
    BY <1>1, <1>4, <2>2, ScriptTakes
  <2>4. PICK m : m = published
    OBVIOUS
  <2>5. TrueMap(m)
    BY <2>2, <2>4, MapIsTrueIs
  <2>6. MapIsTrue'
    BY <1>2, <2>1, <2>3, <2>4, <2>5, TrueMapKept
  <2>7. at' \in Nat
    <3>1. at' \in 1 .. (Len(Script) + 1) /\ Len(Script) \in Nat
      BY <1>1, ScriptOrder, ScriptIs DEF Types
    <3> QED BY <3>1
  <2> QED BY <1>3, <1>4, <2>1, <2>2, <2>6, <2>7
<1> QED BY <1>5, <1>6

\* When a run has passed its child is gone.
LEMMA ChildSettled ==
  ASSUME Types, InOrder, Settled, ChildMoves
  PROVE  Settled'
<1>1. child # "exited" /\ verdict' = verdict
  BY DEF ChildMoves, scriptVars
<1>2. CheckAt \in Nat /\ WatchAt \in Nat /\ CheckAt > WatchAt /\ at \in Nat
  <2>1. Len(Script) \in Nat
    BY ScriptIs DEF Types
  <2> QED BY <2>1 DEF Types, CheckAt, WatchAt
<1>3. verdict # "passed"
  BY <1>1, <1>2 DEF Settled, InOrder
<1> QED BY <1>1, <1>3 DEF Settled

-----------------------------------------------------------------------------
(* The invariant holds.                                                    *)

\* The invariant holds at first.
LEMMA GateInit ==
  Init => GateInv
<1> SUFFICES ASSUME Init PROVE GateInv
  OBVIOUS
<1>1. Fixed
  BY ProbeAssumption DEF Init, Fixed
<1>2. RangeIds = (IF mode = "alias" THEN {1, 2} ELSE {1}) /\ 1 \in RangeIds /\ PagesAt(1) \in Nat \ {0}
  BY <1>1, RangesAre
<1>3. /\ at = 1 /\ pc = 1 /\ verdict = "none" /\ All = {} /\ out = <<>> /\ child = "absent"
      /\ lost = 0 /\ lost_event_count = 0 /\ clock = 0 /\ causes = {} /\ ~gate /\ ~release /\ ~exit_ok
      /\ gate_map = {} /\ rows = {} /\ ring = {}
  BY DEF Init, All
<1>4. Types
  <2>1. Len(Script) \in Nat /\ EndAt \in Nat /\ EndAt >= 1
    BY <1>1, ScriptIs DEF EndAt
  <2>2. IsFiniteSet(rows) /\ IsFiniteSet(ring)
    BY <1>3, FS_EmptySet
  <2>3. IsSequence(out)
    <3>1. out \in Seq({})
      BY <1>3
    <3> QED BY <3>1 DEF IsSequence
  <2> QED BY <1>1, <1>3, <2>1, <2>2, <2>3 DEF Types
<1>5. InOrder
  BY <1>3 DEF InOrder, WatchAt
<1>6. Timed
  <2>1. PageAt(1, 0) \in VaPages
    BY <1>1, <1>2, PageIs
  <2>2. page_table[PageAt(1, 0)] = NoFrame
    BY <2>1 DEF Init
  <2> QED BY <1>3, <2>2 DEF Timed
<1>7. Observed
  <2>1. \A i \in RangeIds : Logged(i)
    <3> TAKE i \in RangeIds
    <3>1. MapAt(i) \in Nat /\ 2 < MapAt(i)
      BY <1>1, PlacesInOrder
    <3>2. NonFree(i) = {}
      BY <1>3 DEF NonFree
    <3> QED BY <1>3, <3>1, <3>2, LoggedIs
  <2> QED BY <1>3, <2>1 DEF Observed
<1>8. Sampled
  BY <1>3 DEF Sampled, Said, SnapAt
<1>9. Settled
  BY <1>3 DEF Settled
<1> QED BY <1>4, <1>5, <1>6, <1>7, <1>8, <1>9 DEF GateInv

\* Each step of the script keeps the invariant.
LEMMA ScriptKeepsGate ==
  ASSUME GateInv, ScriptStep
  PROVE  GateInv'
<1>1. Types /\ InOrder /\ Timed /\ Observed /\ Sampled
  BY DEF GateInv
<1>2. Types' /\ InOrder'
  BY <1>1, ScriptTypes, ScriptOrder
<1>3. Timed' /\ Observed' /\ Sampled'
  BY <1>1, ScriptTimed, ScriptObserved, ScriptSampled
<1>4. Settled'
  BY ScriptSettled
<1> QED BY <1>2, <1>3, <1>4 DEF GateInv

\* Each step of the child keeps the invariant.
LEMMA ChildKeepsGate ==
  ASSUME GateInv, ChildStep
  PROVE  GateInv'
<1>1. Types /\ InOrder /\ Timed /\ Observed /\ Sampled /\ Settled
  BY DEF GateInv
<1>2. ChildMoves
  BY <1>1, ChildStepMoves
<1>3. InOrder' /\ Settled'
  BY <1>1, <1>2, ChildOrder, ChildSettled
<1>4. CASE ChildMap \/ ChildUnmap \/ Remap
  <2>1. \E new, why : Call(new, why)
    BY <1>1, <1>4, ChildMapIs, ChildUnmapIs, RemapIs
  <2>2. Types' /\ Timed' /\ Sampled'
    BY <1>1, <2>1, CallTypes, CallTimed, CallSampled
  <2>3. Observed'
    BY <1>1, <1>4, ChildMapObserved, ChildUnmapObserved, RemapObserved
  <2> QED BY <1>3, <2>2, <2>3 DEF GateInv
<1>5. CASE ~ChildMap /\ ~ChildUnmap /\ ~Remap
  <2>1. Quiet
    BY <1>1, <1>5, ChildStepQuiet
  <2>2. Types' /\ Timed' /\ Observed' /\ Sampled'
    BY <1>1, <2>1, QuietTypes, QuietTimed, QuietObserved, QuietSampled
  <2> QED BY <1>3, <2>2 DEF GateInv
<1> QED BY <1>4, <1>5

\* So does a step that changes nothing.
LEMMA GateStutters ==
  ASSUME GateInv, UNCHANGED vars
  PROVE  GateInv'
<1>1. UNCHANGED <<mode, pages, driver, at, verdict, gate, release, signal, seen, target, rows,
                  lost_event_count, gate_map, work, published, child, pc, exit_ok, out, clock,
                  page_table, truth, worked, ring, lost, faults, causes>>
  BY DEF vars, fixed, scriptVars, childVars, ringVars, faultVars
<1>2. Types /\ InOrder /\ Timed /\ Observed /\ Sampled /\ Settled /\ UNCHANGED fixed
  BY <1>1 DEF GateInv, fixed
<1>3. Same /\ Fixed'
  BY <1>2, FixedKept DEF Types
<1>4. Types'
  BY <1>1, <1>2, <1>3 DEF Types, Same, IsSequence
<1>5. InOrder'
  BY <1>1, <1>2, <1>3 DEF InOrder, Same
<1>6. All' = All /\ (NoLoss' <=> NoLoss)
  BY <1>1 DEF All, NoLoss
<1>7. Timed'
  BY <1>1, <1>2, <1>3, <1>6 DEF Timed, Same
<1>8. Observed'
  <2>1. Twice(All)' <=> Twice(All)
    BY <1>3, <1>6 DEF Twice, Maps, Same
  <2>2. \A i : NonFree(i)' = NonFree(i)
    BY <1>3, <1>6 DEF NonFree, Same
  <2>3. ASSUME NEW i, Logged(i) PROVE Logged(i)'
    <3>1. CASE pc > MapAt(i)
      <4>1. PICK t, f : t \in Nat /\ Mapped(i, t, f)
        BY <2>3, <3>1, LoggedIs
      <4> DEFINE Q(u, g) ==
              /\ NonFree(i)' = trace_map(RangeAt(i), PagesAt(i), u, g)
              /\ child' # "exited" /\ pc' <= FreeAt(i) => OnRange(i, page_table', g)
              /\ pc' > SnapAt => OnRange(i, truth', g)
              /\ Releases => \A r \in gate_map' : \E k \in 0 .. (PagesAt(i) - 1) :
                                r.va = PageAt(i, k) /\ r.frame = g[k]
              /\ Releases /\ pc' > WorkAt => worked' = work'.frame
      <4>2. Q(t, f)
        BY <1>1, <2>2, <4>1, Zenon DEF Mapped
      <4>3. Logged(i)' <=> IF pc' > MapAt(i) THEN \E u \in Nat : \E g : Q(u, g)
                           ELSE NonFree(i)' = {} /\ (Releases => gate_map' = {})
        BY <1>3, LoggedIsNext, Zenon
      <4> HIDE DEF Q
      <4> QED BY <1>1, <3>1, <4>1, <4>2, <4>3
    <3>2. CASE ~(pc > MapAt(i))
      <4>1. NonFree(i) = {} /\ (Releases => gate_map = {})
        BY <2>3, <3>2, LoggedIs
      <4> QED BY <1>1, <1>3, <2>2, <3>2, <4>1, LoggedIsNext
    <3> QED BY <3>1, <3>2
  <2> QED BY <1>1, <1>2, <1>3, <1>6, <2>1, <2>3 DEF Observed, Same
<1>9. Sampled'
  <2>1. Early' = Early
    BY <1>1, <1>6 DEF Early
  <2>2. Sample => Sample'
    BY <1>1, <1>3, <2>1, SampleKept
  <2>3. Sampled => (mode = "scratch" =>
            /\ Len(out) = Said(pc)
            /\ \A j \in 1 .. Len(out) : out[j].event = ScratchEvents[j] /\ out[j].time \in Nat /\ out[j].time < clock
            /\ \A x \in All : x.time >= out[2].time
            /\ pc > SnapAt /\ NoLoss => Sample)
    BY SampledIs, Zenon
  <2> QED BY <1>1, <1>2, <1>3, <1>6, <2>2, <2>3 DEF Sampled, Sample, Same, Said, ScratchEvents
<1>10. Settled'
  <2>1. ASSUME verdict = "passed" PROVE MapIsTrue'
    <3>1. PICK m : m = published
      OBVIOUS
    <3>2. TrueMap(m)
      BY <1>2, <2>1, <3>1, MapIsTrueIs DEF Settled
    <3> QED BY <1>1, <3>1, <3>2, TrueMapKept
  <2> QED BY <1>1, <1>2, <1>3, <2>1 DEF Settled, Same
<1> QED BY <1>4, <1>5, <1>7, <1>8, <1>9, <1>10 DEF GateInv

\* Whatever the child, the driver and the ring do, the map that an accepted run publishes
\* is the page table at the snapshot (the checks of the five probe scripts, with the
\* ledger, the samples and the lookups).
THEOREM AcceptedMapsAreTrue == Spec => []AcceptedMapIsTrue
<1>1. Init => GateInv
  BY GateInit
<1>2. GateInv /\ [Next]_vars => GateInv'
  <2>1. GateInv /\ ScriptStep => GateInv'
    BY ScriptKeepsGate
  <2>2. GateInv /\ ChildStep => GateInv'
    BY ChildKeepsGate
  <2>3. GateInv /\ UNCHANGED vars => GateInv'
    BY GateStutters
  <2> QED BY <2>1, <2>2, <2>3 DEF Next, Done
<1>3. GateInv => AcceptedMapIsTrue
  <2> SUFFICES ASSUME GateInv, verdict = "passed" PROVE AcceptedMapIsTrue
    BY Zenon DEF AcceptedMapIsTrue
  <2>1. MapIsTrue
    BY DEF GateInv, Settled
  <2> QED BY <2>1, Zenon DEF AcceptedMapIsTrue, MapIsTrue
<1> QED BY <1>1, <1>2, <1>3, PTL DEF Spec

-----------------------------------------------------------------------------
(* The reader of the pipe.                                                 *)

\* A line that the text up to before did not hold, and the text up to last
\* holds, starts in the window.
LEMMA WindowHoldsNewLines ==
  ASSUME NEW before \in Nat, NEW last \in Nat, before <= last,
         ~HasLine(1, before), HasLine(1, last)
  PROVE  HasLine(Window(before), last)
<1>1. Len(marker) \in Nat \ {0}
  BY MarkerAssumption
<1>2. PICK p \in 1 .. (last - Len(marker) + 1) :
        /\ p = 1 \/ output[p - 1] \in Breaks
        /\ \A k \in 1 .. Len(marker) : output[p + k - 1] = marker[k]
  BY DEF HasLine
<1>3. p > before - Len(marker) + 1
  <2> SUFFICES ASSUME p <= before - Len(marker) + 1 PROVE FALSE
    BY <1>1
  <2>1. p \in 1 .. (before - Len(marker) + 1)
    BY <1>1
  <2>2. HasLine(1, before)
    BY <1>2, <2>1 DEF HasLine
  <2> QED BY <2>2
<1>4. Window(before) \in 1 .. p
  BY <1>1, <1>3 DEF Window
<1>5. p \in Window(before) .. (last - Len(marker) + 1)
  BY <1>1, <1>4
<1>6. p = Window(before) \/ output[p - 1] \in Breaks
  BY <1>1, <1>2, <1>4
<1> QED BY <1>2, <1>5, <1>6 DEF HasLine

\* ScanInit establishes the invariant.
LEMMA InitScanInv == ScanInit => ScanInv
<1> SUFFICES ASSUME ScanInit PROVE ScanInv
  OBVIOUS
<1>1. output \in Seq(Symbols) /\ Len(output) = 0
  BY DEF ScanInit
<1>2. TypeOK
  <2>1. captured \in 0 .. Len(output)
    BY <1>1 DEF ScanInit
  <2> QED BY <1>1, <2>1, Zenon DEF ScanInit, TypeOK
<1>3. WindowExhaustive /\ GivesUpOnlyWithoutLine
  BY DEF ScanInit, WindowExhaustive, GivesUpOnlyWithoutLine
<1> QED BY <1>2, <1>3 DEF ScanInv

\* The invariant is inductive.
LEMMA NextKeepsScanInv == ScanInv /\ [ScanNext]_scanVars => ScanInv'
<1> SUFFICES ASSUME ScanInv, [ScanNext]_scanVars PROVE ScanInv'
  OBVIOUS
<1> USE DEF ScanInv
<1>0. /\ output \in Seq(Symbols) /\ captured \in 0 .. Len(output)
      /\ Len(output) \in Nat
  BY DEF TypeOK
<1>1. CASE Write
  <2>1. PICK byte \in Symbols : output' = Append(output, byte)
    BY <1>1 DEF Write
  <2>2. /\ output' \in Seq(Symbols)
        /\ Len(output') = Len(output) + 1
    BY <1>0, <2>1
  <2>3. TypeOK'
    BY <1>0, <1>1, <2>2 DEF Write, TypeOK
  <2>4. HasLine(1, captured)' <=> HasLine(1, captured)
    <3>1. captured' = captured
      BY <1>1 DEF Write
    <3>2. HasLine(1, captured)' <=> \E p \in 1 .. (captured - Len(marker) + 1) :
            /\ p = 1 \/ output'[p - 1] \in Breaks
            /\ \A k \in 1 .. Len(marker) : output'[p + k - 1] = marker[k]
      BY <3>1 DEF HasLine
    <3>3. \A i \in 1 .. Len(output) : output'[i] = output[i]
      BY <1>0, <2>1
    <3>4. Len(marker) \in Nat \ {0}
      BY MarkerAssumption
    <3>5. \A p \in 1 .. (captured - Len(marker) + 1) :
            /\ p > 1 => p - 1 \in 1 .. Len(output)
            /\ \A k \in 1 .. Len(marker) : p + k - 1 \in 1 .. Len(output)
      BY <1>0, <3>4
    <3>6. ASSUME NEW p \in 1 .. (captured - Len(marker) + 1)
          PROVE  /\ (p = 1 \/ output'[p - 1] \in Breaks) <=>
                    (p = 1 \/ output[p - 1] \in Breaks)
                 /\ (\A k \in 1 .. Len(marker) : output'[p + k - 1] = marker[k]) <=>
                    (\A k \in 1 .. Len(marker) : output[p + k - 1] = marker[k])
      <4>1. p = 1 \/ output'[p - 1] = output[p - 1]
        BY <3>3, <3>5
      <4>2. \A k \in 1 .. Len(marker) : output'[p + k - 1] = output[p + k - 1]
        BY <3>3, <3>5
      <4> QED BY <4>1, <4>2
    <3> QED BY <3>2, <3>6 DEF HasLine
  <2>5. WindowExhaustive'
    BY <1>1, <2>4 DEF Write, WindowExhaustive
  <2>6. GivesUpOnlyWithoutLine'
    BY <1>1 DEF Write, GivesUpOnlyWithoutLine
  <2> QED BY <2>3, <2>5, <2>6
<1>2. CASE End
  BY <1>2 DEF End, TypeOK, WindowExhaustive, GivesUpOnlyWithoutLine, HasLine
<1>3. CASE Start
  <2>1. PICK n \in 0 .. Len(output) : captured' = n /\ found' = HasLine(1, n)
    BY <1>3 DEF Start
  <2>2. HasLine(1, captured)' = HasLine(1, n)
    BY <1>3, <2>1 DEF Start, HasLine
  <2>3. found' \in BOOLEAN
    BY <2>1 DEF HasLine
  <2> QED
    BY <1>3, <1>0, <2>1, <2>2, <2>3
       DEF Start, TypeOK, WindowExhaustive, GivesUpOnlyWithoutLine
<1>4. CASE Return
  BY <1>4 DEF Return, TypeOK, WindowExhaustive, GivesUpOnlyWithoutLine, HasLine
<1>5. CASE Deadline
  BY <1>5 DEF Deadline, TypeOK, WindowExhaustive, GivesUpOnlyWithoutLine, HasLine
<1>6. CASE ReadChunk
  <2>1. PICK last \in Nat :
          /\ captured <= last /\ last <= Len(output)
          /\ captured' = last
          /\ found' = HasLine(Window(captured), last)
    <3>1. ChunkSize \in Nat
      BY MarkerAssumption
    <3> QED BY <1>6, <1>0, <3>1 DEF ReadChunk
  <2>2. ~found /\ reader = "loop" /\ UNCHANGED <<output, alive, late, reader>>
    BY <1>6 DEF ReadChunk
  <2>3. found' \in BOOLEAN
    BY <2>1 DEF HasLine
  <2>4. TypeOK'
    BY <1>0, <2>1, <2>2, <2>3 DEF TypeOK
  <2>5. HasLine(1, captured)' = HasLine(1, last)
    BY <2>1, <2>2 DEF HasLine
  <2>6. WindowExhaustive'
    <3>1. ~HasLine(1, captured)
      BY <2>2 DEF WindowExhaustive
    <3>2. HasLine(1, last) => HasLine(Window(captured), last)
      BY <1>0, <2>1, <3>1, WindowHoldsNewLines
    <3> QED BY <2>1, <2>5, <3>2 DEF WindowExhaustive
  <2>7. GivesUpOnlyWithoutLine'
    BY <2>2 DEF GivesUpOnlyWithoutLine
  <2> QED BY <2>4, <2>6, <2>7
<1>7. CASE ReadNothing
  BY <1>7 DEF ReadNothing, TypeOK, WindowExhaustive, GivesUpOnlyWithoutLine, HasLine
<1>8. CASE PollAlive
  BY <1>8 DEF PollAlive, TypeOK, WindowExhaustive, GivesUpOnlyWithoutLine, HasLine
<1>9. CASE PollEnded
  <2>1. /\ ~alive /\ captured' = Len(output) /\ found' = HasLine(1, Len(output))
        /\ reader' = "done" /\ UNCHANGED <<output, alive, late>>
    BY <1>9 DEF PollEnded
  <2>2. found' \in BOOLEAN
    BY <2>1 DEF HasLine
  <2>3. TypeOK'
    BY <1>0, <2>1, <2>2 DEF TypeOK
  <2>4. HasLine(1, captured)' = HasLine(1, Len(output))
    BY <2>1 DEF HasLine
  <2>5. HasLine(1, Len(output))' = HasLine(1, Len(output))
    BY <2>1 DEF HasLine
  <2> QED
    BY <2>1, <2>3, <2>4, <2>5 DEF WindowExhaustive, GivesUpOnlyWithoutLine
<1>10. CASE UNCHANGED scanVars
  BY <1>10 DEF scanVars, TypeOK, WindowExhaustive, GivesUpOnlyWithoutLine, HasLine
<1> QED
  BY <1>1, <1>2, <1>3, <1>4, <1>5, <1>6, <1>7, <1>8, <1>9, <1>10 DEF ScanNext, ScanDone

\* Hence it holds in every reachable state.
LEMMA ScanInvHolds == ScanSpec => []ScanInv
BY InitScanInv, NextKeepsScanInv, PTL DEF ScanSpec

\* Searching only the window of each chunk misses no line that starts with the
\* marker, for any marker, chunk size and output.
THEOREM NoLineIsMissed == ScanSpec => []WindowExhaustive
<1>1. ScanInv => WindowExhaustive
  BY DEF ScanInv
<1> QED BY <1>1, ScanInvHolds, PTL

\* A wait that ends without the line before its deadline has read everything a
\* dead runner wrote.
THEOREM GivingUpIsJustified == ScanSpec => []GivesUpOnlyWithoutLine
<1>1. ScanInv => GivesUpOnlyWithoutLine
  BY DEF ScanInv
<1> QED BY <1>1, ScanInvHolds, PTL
=============================================================================
