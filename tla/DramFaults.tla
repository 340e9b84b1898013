------------------------------ MODULE DramFaults ------------------------------
(***************************************************************************)
(* The sampler of tools/g5_faultinj/fault_model.py: it places the flips of *)
(* one trial on the bytes that the workload keeps in memory, single bits   *)
(* and pairs or triples in one row or in one bank, over the anchors that   *)
(* the memory table established (BankTable).                               *)
(*                                                                         *)
(* A unit of an address is a block of BlockBytes bytes here: the region    *)
(* that the code knows to lie in one row.  An attempt to place an event    *)
(* draws one byte after the other and reserves its bit; a draw that misses *)
(* too often gives the bits of the attempt back and starts over.           *)
(***************************************************************************)
EXTENDS BankTable

CONSTANTS
  BlockBytes,    \* bytes of a block, 256 in the code
  Bits,          \* bound: bits of a byte
  MaxAttempts,   \* bound: attempts at an event, MAX_SITE_ATTEMPTS
  SampledRuns    \* bound: the tables of at most so many runs are sampled from

VARIABLES
  left,          \* events still to place: [s, d, t]
  pattern,       \* the event under way
  attempt,       \* its sites so far
  attempts,
  used,          \* reserved (page, byte, bit)
  placed,        \* the placed events, each the sequence of its sites
  count          \* the sites placed so far

fault_vars == <<left, pattern, attempt, attempts, used, placed, count>>
vars == <<table_vars, fault_vars>>

\* A snapshot row is a part of one page; the rows of an allocation carry its one
\* base, and a virtual page has one page of memory behind it.
ASSUME FaultAssumption ==
  /\ {BlockBytes, MaxAttempts} \subseteq Nat \ {0} /\ SampledRuns \in Nat
  /\ \A w \in Worlds :
       /\ \A page \in Pages : w.gpu.seed[page] \in Nat
       /\ w.campaign.level \in [s : Nat, d : Nat, t : Nat] /\ w.campaign.bits \in Nat
       /\ \A allocation \in DOMAIN w.campaign.prefix : w.campaign.prefix[allocation] \in Nat
       /\ w.campaign.snapshot \subseteq
            [allocation : {row.allocation : row \in w.campaign.snapshot}, instrument : BOOLEAN,
             va_base : Nat, va_page : Nat, pa : Pages, start : Nat,
             stop : 0 .. BlockBytes * PageBytes]
       /\ \A row \in w.campaign.snapshot :
            /\ row.va_page % (BlockBytes * PageBytes) = 0
            /\ \A other \in w.campaign.snapshot :
                 row.allocation = other.allocation =>
                   /\ row.va_base = other.va_base
                   /\ row.va_page = other.va_page => row.pa = other.pa

FaultInit ==
  /\ Init
  /\ left = [s |-> 0, d |-> 0, t |-> 0] /\ pattern = "none" /\ attempt = <<>>
  /\ attempts = 0 /\ used = {} /\ placed = {} /\ count = 0

-----------------------------------------------------------------------------
(* The level: how many events of each size add up to the bits of a trial.  *)

Square(x) == x * x

\* The squared distance to the shares 60, 20 and 20, times 100 events squared.
Distance(c) ==
  LET events == c.s + c.d + c.t IN
  Square(10 * c.s - 6 * events) + Square(10 * c.d - 2 * events) + Square(10 * c.t - 2 * events)

Closer(b, c) ==
  LET nb == Distance(b) * Square(c.s + c.d + c.t)
      nc == Distance(c) * Square(b.s + b.d + b.t)
  IN nb < nc \/ (nb = nc /\ (b.s > c.s \/ (b.s = c.s /\ b.d >= c.d)))

resolve_composition(bits) ==
  LET feasible == {c \in [s : 0..bits, d : 0..bits, t : 0..bits] :
                     c.s + 2 * c.d + 3 * c.t = bits}
  IN IF bits = 0 THEN [s |-> 0, d |-> 0, t |-> 0]
     ELSE CHOOSE b \in feasible : \A c \in feasible : Closer(b, c)

-----------------------------------------------------------------------------
(* The surface: the rows of the snapshot that the workload exposes.        *)

_clip_to_prefix(row) ==
  LET limit == world.campaign.prefix[row.allocation] + row.va_base - row.va_page IN
  IF limit >= row.stop THEN {row}
  ELSE IF limit <= row.start THEN {} ELSE {[row EXCEPT !.stop = limit]}

surface_rows_for ==
  UNION {IF row.allocation \in DOMAIN world.campaign.prefix THEN _clip_to_prefix(row) ELSE {row} :
         row \in {r \in world.campaign.snapshot :
                    ~r.instrument /\ r.allocation \notin world.campaign.excludes}}

Cells(row) == {<<row.pa, x>> : x \in row.start .. row.stop - 1}
Resident == UNION {Cells(row) : row \in surface_rows_for}

covering_row(cell) ==
  CHOOSE row \in surface_rows_for : cell \in Cells(row)

\* The residency guard and the frozen level refuse a campaign that drifted.
StartTrial ==
  /\ pc = "built" /\ world.campaign.snapshot # {} /\ Len(runs) <= SampledRuns
  /\ IF /\ MapThenSumSet(LAMBDA row : row.stop - row.start, surface_rows_for) = world.campaign.resident
        /\ world.campaign.level = resolve_composition(world.campaign.bits)
     THEN pc' = "sample" /\ left' = world.campaign.level
     ELSE pc' = "model error" /\ UNCHANGED left
  /\ UNCHANGED <<world, runs, table, pattern, attempt, attempts, used, placed, count>>

-----------------------------------------------------------------------------
(* sample_event.                                                           *)

Legs == [SBU |-> <<"base">>, H2 |-> <<"base", "block">>, H3 |-> <<"base", "block", "block">>,
         V2 |-> <<"base", "anchor">>, V3 |-> <<"base", "anchor", "anchor">>,
         L |-> <<"base", "block", "anchor">>]

Patterns == [s |-> {"SBU"}, d |-> {"H2", "V2"}, t |-> {"H3", "V3", "L"}]

\* The events of a trial come in any order.
NextEvent ==
  /\ pc = "sample" /\ pattern = "none"
  /\ \E size \in DOMAIN left : \E p \in Patterns[size] :
       left[size] > 0 /\ pattern' = p /\ left' = [left EXCEPT ![size] = @ - 1]
  /\ attempts' = 1
  /\ UNCHANGED <<table_vars, attempt, used, placed, count>>

Base == attempt[1].cell
Taken == {attempt[i].cell : i \in DOMAIN attempt}
Masks == {attempt[i].mask : i \in DOMAIN attempt}

Unit(cell) == cell[1] + (cell[2] \div BlockBytes)

anchor_masks(page) == {Xor[page][a[2]] : a \in {b \in table.anchors : b[1] = page}}

\* Mutant: the mask is added to the address.
AnchorAdded(mask) ==
  <<Base[1], (Base[2] + BlockBytes * mask) % (BlockBytes * PageBytes)>>

AnchorCell(mask) ==
  <<Base[1], BlockBytes * in_page(Xor[Unit(Base)][mask]) + (Base[2] % BlockBytes)>>

\* Where the next byte of the attempt may be drawn: [cell, mask].
Drawn ==
  CASE attempt = <<>> -> {[cell |-> cell, mask |-> 0] : cell \in Resident}
    [] Legs[pattern][Len(attempt) + 1] = "block" ->
         {[cell |-> cell, mask |-> 0] :
            cell \in {Base[1]} \X {x \in 0 .. BlockBytes * PageBytes - 1 :
                                     x \div BlockBytes = Base[2] \div BlockBytes}}
    [] OTHER ->
         {[cell |-> AnchorCell(mask), mask |-> mask] : mask \in anchor_masks(Base[1]) \ Masks}

Usable(draw) == attempt = <<>> \/ draw.cell \in Resident \ Taken

\* Mutant: the drawn bit is not reserved for the rest of the trial.
DrawAnyBit(cell) == 0 .. Bits - 1

_draw_bit(cell) == {bit \in 0 .. Bits - 1 : <<cell, bit>> \notin used}

_make_site(draw, bit) ==
  LET row == covering_row(draw.cell) IN
  [cell |-> draw.cell, mask |-> draw.mask, bit |-> bit, allocation |-> row.allocation,
   byte_offset |-> row.va_page + draw.cell[2] - row.va_base,
   leg |-> Legs[pattern][Len(attempt) + 1]]

\* add: one more byte of the event; the last one completes it.
Draw ==
  /\ pc = "sample" /\ pattern # "none"
  /\ \E draw \in {d \in Drawn : Usable(d)} : \E bit \in _draw_bit(draw.cell) :
       LET grown == Append(attempt, _make_site(draw, bit)) IN
       /\ used' = used \cup {<<draw.cell, bit>>}
       /\ IF Len(grown) = Len(Legs[pattern])
          THEN /\ placed' = placed \cup {grown} /\ count' = count + Len(grown)
               /\ attempt' = <<>> /\ pattern' = "none"
          ELSE attempt' = grown /\ UNCHANGED <<placed, count, pattern>>
  /\ UNCHANGED <<table_vars, left, attempts>>

\* Every draw of a leg may miss when one of its candidates is unusable.
CanMiss ==
  \/ Drawn = {}
  \/ \E draw \in Drawn : ~Usable(draw) \/ _draw_bit(draw.cell) # 0 .. Bits - 1

\* Mutant: a missed draw keeps its bits.
KeptBits == used

\* The attempt gives back the bits of its sites.
Returned == used \ {<<attempt[i].cell, attempt[i].bit>> : i \in DOMAIN attempt}

\* SamplingError inside an attempt: back to a fresh base, or the trial fails.
Miss ==
  /\ pc = "sample" /\ pattern # "none" /\ CanMiss
  /\ used' = Returned /\ attempt' = <<>>
  /\ IF attempts < MaxAttempts THEN attempts' = attempts + 1 /\ UNCHANGED pc
     ELSE pc' = "sampling error" /\ UNCHANGED attempts
  /\ UNCHANGED <<world, runs, table, left, pattern, placed, count>>

FinishTrial ==
  /\ pc = "sample" /\ pattern = "none" /\ \A size \in DOMAIN left : left[size] = 0
  /\ pc' = IF count = world.campaign.bits THEN "sampled" ELSE "model error"
  /\ UNCHANGED <<world, runs, table, fault_vars>>

FaultNext ==
  \/ Next /\ UNCHANGED fault_vars
  \/ StartTrial \/ NextEvent \/ Draw \/ Miss \/ FinishTrial

FaultSpec == FaultInit /\ [][FaultNext]_vars

-----------------------------------------------------------------------------
Target(site) == <<site.allocation, site.byte_offset, site.bit>>
AllSites == UNION {ToSet(e) : e \in placed \cup {attempt}}

\* The byte of an allocation is exposed: kept by the prefix, not excluded, not
\* a buffer of the instrumentation, and behind it lies the byte that was drawn.
Exposed(site) ==
  \E row \in world.campaign.snapshot :
    /\ row.allocation = site.allocation /\ site.cell \in Cells(row)
    /\ row.va_base + site.byte_offset - row.va_page = site.cell[2]
    /\ ~row.instrument /\ row.allocation \notin world.campaign.excludes
    /\ row.allocation \in DOMAIN world.campaign.prefix =>
         site.byte_offset < world.campaign.prefix[row.allocation]

\* No two flips of a trial meet in one bit of an allocation, where they would
\* cancel, whatever the retries gave back; every one lands on the surface; and
\* the trial has exactly the bits of its level (fault_model.py:1106).
SitesNeverCancel ==
  /\ \A x \in AllSites, y \in AllSites : x # y => Target(x) # Target(y)
  /\ Cardinality(AllSites) = count + Len(attempt)
  /\ used = {<<x.cell, x.bit>> : x \in AllSites}
  /\ \A x \in AllSites : Exposed(x)
  /\ pc = "sampled" => count = world.campaign.bits

\* The legs of an event keep what their labels say of the memory: a block mate
\* stays in the row of the base, an anchor mate leaves it and keeps its bank,
\* for every base on the page although only the page's first byte was measured.
LabelsHold ==
  AllRight =>
    \A e \in placed : \A i \in 2 .. Len(e) :
      LET base == Unit(e[1].cell)
          mate == Unit(e[i].cell)
      IN CASE e[i].leg = "block" ->
                SameBank(world.gpu, base, mate) /\ Row(world.gpu, base) = Row(world.gpu, mate)
           [] e[i].leg = "anchor" -> Conflict(world.gpu, base, mate)
=============================================================================
