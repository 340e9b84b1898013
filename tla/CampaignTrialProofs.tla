------------------------ MODULE CampaignTrialProofs -------------------------
(***************************************************************************)
(* Theorems about the trial loop, for any number of allocations, bits,     *)
(* images and sites: what the engine sees is what was drawn, the runner's  *)
(* own checks never trip, a trial leaves no trace, and the orchestrator's  *)
(* replay of the cache rows accepts every trial that the runner completes. *)
(***************************************************************************)
EXTENDS CacheReplay, FiniteSetTheorems, FunctionTheorems, SequenceTheorems,
        WellFoundedInduction, TLAPS

-----------------------------------------------------------------------------
(* The inductive invariant.                                                *)

\* The bits of allocation a whose DRAM site is flipped at the moment.
Held(a) == {trial.dram[k].bit : k \in {m \in 1 .. flipped : trial.dram[m].alloc = a}}

\* The cache sites of allocation a that are applied and not yet removed, and
\* their bits.
On(a) == {i \in Range(cache_active) : trial.cache[i].alloc = a}
Lit(a) == {trial.cache[i].bit : i \in On(a)}

InPass == {"stage", "apply", "readback", "remove"}
AfterPass == {"restore", "sanity", "ended"}
Outside == {"idle", "flip", "thrown"}

Record ==
  [applied: BOOLEAN, before: Byte, after: Byte,
   removal: {"not_applied", "re_xor", "restored", "overwritten"},
   removal_image: Image, remove_before: Byte, remove_after: Byte]

ByteState ==
  [pristine: Byte, active_mask: Byte, active_count: Nat, overwritten: BOOLEAN]

\* Every variable has its type, and main threw for no other reason than a failed
\* CUDA call or a sanity inference that diverged.
TypeOK ==
  /\ memory \in [Alloc -> Byte]
  /\ trial \in Trials
  /\ pristine \in [Alloc -> Byte]
  /\ pc \in InPass \cup AfterPass \cup Outside
  /\ flipped \in 0 .. Len(trial.dram)
  /\ image \in Image
  /\ records \in [DOMAIN trial.cache -> Record]
  /\ cache_active \in Seq(DOMAIN trial.cache)
  /\ visited \in 0 .. Len(cache_active)
  /\ cache_bytes \in [Alloc -> ByteState]
  /\ due \in BOOLEAN
  /\ error \in {"none", "cuda", "sanity"}

\* Where the loop stands and what its locals then are.
Progress ==
  /\ pc \in InPass => flipped = Len(trial.dram)
  /\ pc \in {"idle", "sanity", "ended", "thrown"} => flipped = 0
  /\ pc \in {"idle", "flip", "thrown"} => image = 0
  /\ pc \in Outside \cup AfterPass => cache_active = <<>>
  /\ pc \in Outside \cup {"stage", "apply", "readback"} => ~due
  /\ pc \in AfterPass => due \/ image + 1 = Images
  /\ pc = "remove" =>
       \A k \in 1 .. visited : ~ToRemove(trial.cache[cache_active[k]])

\* Which cache sites are applied, in force and removed.
Lifetimes ==
  /\ Distinct(cache_active)
  /\ \A i \in DOMAIN trial.cache :
       LET c == trial.cache[i]
           r == records[i]
       IN /\ ~r.applied => r = NoRecord
          /\ r.applied => pc \notin Outside /\ c.start <= image
          /\ pc = "stage" /\ r.applied => c.start < image
          /\ c.start < image => r.applied
          /\ pc \in AfterPass \cup {"readback", "remove"} /\ c.start = image => r.applied
          /\ i \in Range(cache_active) =>
               r.applied /\ r.removal = "not_applied" /\ image <= c.last
          /\ r.applied /\ i \notin Range(cache_active) =>
               /\ r.removal # "not_applied"
               /\ r.removal_image = IF c.last > image THEN image ELSE c.last
               /\ \/ c.last < image
                  \/ pc \in AfterPass \cup {"remove"} /\ (due \/ c.last = image)

\* The device holds the loaded weights, the flipped DRAM sites and the applied
\* cache sites, and the staged image with those of the input.
DeviceContent ==
  /\ \A w \in Weights : memory[w] = Xor(Held(w), Lit(w))
  /\ pc = "flip" => \A a \in Alloc : memory[a] = Xor(pristine[a], Held(a))
  /\ pc \in {"apply", "readback", "remove"} =>
       memory[Input] = Xor(Xor(campaign_input[image], MaskOf(Input, trial.dram)), Lit(Input))
  /\ pc = "restore" => memory[Input] = Xor(campaign_input[image], Held(Input))

\* The byte states say what is applied, and where the engine does not write also
\* what the byte holds.
BytesTracked ==
  \A a \in Alloc :
    LET b == cache_bytes[a]
    IN /\ b.active_count = Cardinality(On(a))
       /\ b.active_mask = Lit(a)
       /\ a \in Weights \cup {Input} =>
            /\ ~b.overwritten
            /\ On(a) # {} => memory[a] = Xor(b.pristine, Lit(a))

TrialInv == TypeOK /\ Progress /\ Lifetimes /\ DeviceContent /\ BytesTracked

-----------------------------------------------------------------------------
(* Sets of bits, sequences and trials.                                     *)

\* XOR with one more bit, or with one bit less.
LEMMA XorFacts ==
  /\ \A x : Xor(x, {}) = x
  /\ \A x, y, b : b \notin y => Xor(Xor(x, y), {b}) = Xor(x, y \cup {b})
  /\ \A x, y, b : b \in y => Xor(Xor(x, y), {b}) = Xor(x, y \ {b})
  /\ \A x, y, z : Xor(Xor(x, y), z) = Xor(Xor(x, z), y)
  /\ \A x, y : Xor(Xor(x, y), y) = x
  /\ \A x \in Byte, y \in Byte : Xor(x, y) \in Byte
BY DEF Xor, Byte

\* Erasing one entry keeps the others in their order.
LEMMA RemoveAtFacts ==
  ASSUME NEW S, NEW s \in Seq(S), NEW i \in 1 .. Len(s)
  PROVE  /\ RemoveAt(s, i) \in Seq(S)
         /\ Len(RemoveAt(s, i)) = Len(s) - 1
         /\ \A k \in 1 .. (i - 1) : RemoveAt(s, i)[k] = s[k]
         /\ \A k \in i .. (Len(s) - 1) : RemoveAt(s, i)[k] = s[k + 1]
<1> DEFINE u == SubSeq(s, 1, i - 1)
           v == SubSeq(s, i + 1, Len(s))
<1>1. Len(s) \in Nat /\ i \in Int /\ \A k \in 1 .. Len(s) : s[k] \in S
  OBVIOUS
<1>2. /\ u \in Seq(S) /\ Len(u) = i - 1
      /\ \A k \in 1 .. (i - 1) : u[k] = s[k]
  <2>1. \A k \in 1 .. (i - 1) : s[k] \in S
    BY <1>1
  <2> HIDE DEF u
  <2>2. /\ u \in Seq(S) /\ Len(u) = IF 1 <= i - 1 THEN i - 1 - 1 + 1 ELSE 0
        /\ \A k \in 1 .. (i - 1) - 1 + 1 : u[k] = s[1 + k - 1]
    BY <1>1, <2>1, SubSeqProperties DEF u
  <2> QED BY <1>1, <2>2
<1>3. /\ v \in Seq(S) /\ Len(v) = Len(s) - i
      /\ \A k \in 1 .. (Len(s) - i) : v[k] = s[i + k]
  <2>1. \A k \in i + 1 .. Len(s) : s[k] \in S
    BY <1>1
  <2> HIDE DEF v
  <2>2. /\ v \in Seq(S)
        /\ Len(v) = IF i + 1 <= Len(s) THEN Len(s) - (i + 1) + 1 ELSE 0
        /\ \A k \in 1 .. Len(s) - (i + 1) + 1 : v[k] = s[i + 1 + k - 1]
    BY <1>1, <2>1, SubSeqProperties DEF v
  <2> QED BY <1>1, <2>2
<1> HIDE DEF u, v
<1>4. /\ u \o v \in Seq(S) /\ Len(u \o v) = Len(u) + Len(v)
      /\ \A k \in 1 .. Len(u) + Len(v) :
           (u \o v)[k] = IF k <= Len(u) THEN u[k] ELSE v[k - Len(u)]
  BY <1>2, <1>3, ConcatProperties
<1>5. RemoveAt(s, i) = u \o v
  BY DEF RemoveAt, u, v
<1>6. \A k \in i .. (Len(s) - 1) : (u \o v)[k] = s[k + 1]
  <2> TAKE k \in i .. (Len(s) - 1)
  <2>1. k - (i - 1) \in 1 .. (Len(s) - i) /\ k \in 1 .. Len(u) + Len(v) /\ ~(k <= Len(u))
    BY <1>1, <1>2, <1>3
  <2>2. (u \o v)[k] = v[k - (i - 1)]
    BY <1>2, <1>4, <2>1
  <2>3. i + (k - (i - 1)) = k + 1
    BY <1>1
  <2> QED BY <1>3, <2>1, <2>2, <2>3
<1>7. \A k \in 1 .. (i - 1) : (u \o v)[k] = s[k]
  BY <1>1, <1>2, <1>3, <1>4
<1>8. Len(u \o v) = Len(s) - 1
  BY <1>1, <1>2, <1>3, <1>4
<1>9. u \o v \in Seq(S)
  BY <1>4
<1> QED BY <1>5, <1>6, <1>7, <1>8, <1>9, Zenon

\* Erasing the entry at i takes its value, and no other, out of the range.
LEMMA RemoveDistinct ==
  ASSUME NEW S, NEW s \in Seq(S), Distinct(s), NEW i \in 1 .. Len(s)
  PROVE  /\ Distinct(RemoveAt(s, i))
         /\ Range(RemoveAt(s, i)) = Range(s) \ {s[i]}
<1> DEFINE r == RemoveAt(s, i)
<1>1. /\ DOMAIN s = 1 .. Len(s) /\ Len(s) \in Nat
      /\ r \in Seq(S) /\ DOMAIN r = 1 .. (Len(s) - 1)
      /\ \A k \in 1 .. (i - 1) : r[k] = s[k]
      /\ \A k \in i .. (Len(s) - 1) : r[k] = s[k + 1]
  <2> HIDE DEF r
  <2>1. /\ r \in Seq(S) /\ Len(r) = Len(s) - 1
        /\ \A k \in 1 .. (i - 1) : r[k] = s[k]
        /\ \A k \in i .. (Len(s) - 1) : r[k] = s[k + 1]
    BY RemoveAtFacts, Zenon DEF r
  <2>2. DOMAIN r = 1 .. Len(r) /\ DOMAIN s = 1 .. Len(s) /\ Len(s) \in Nat
    BY <2>1
  <2> QED BY <2>1, <2>2
<1> HIDE DEF r
<1>2. \A k \in DOMAIN r : \/ k < i /\ r[k] = s[k] /\ k \in DOMAIN s
                          \/ k >= i /\ r[k] = s[k + 1] /\ k + 1 \in DOMAIN s
  BY <1>1
<1>3. Distinct(r)
  <2> SUFFICES ASSUME NEW k \in DOMAIN r, NEW m \in DOMAIN r, k # m
               PROVE  r[k] # r[m]
    BY DEF Distinct
  <2>1. PICK p \in DOMAIN s : r[k] = s[p] /\ p = IF k < i THEN k ELSE k + 1
    BY <1>1, <1>2
  <2>2. PICK q \in DOMAIN s : r[m] = s[q] /\ q = IF m < i THEN m ELSE m + 1
    BY <1>1, <1>2
  <2>3. p # q
    BY <1>1, <2>1, <2>2
  <2> QED BY <2>1, <2>2, <2>3 DEF Distinct
<1>4. \A k \in DOMAIN s : k # i => s[k] \in Range(r) /\ s[k] # s[i]
  <2> SUFFICES ASSUME NEW k \in DOMAIN s, k # i
               PROVE  s[k] \in Range(r) /\ s[k] # s[i]
    OBVIOUS
  <2>1. CASE k < i
    BY SMTT(40), <1>1, <2>1 DEF Range, Distinct
  <2>2. CASE k > i
    <3>1. k - 1 \in i .. (Len(s) - 1) /\ (k - 1) + 1 = k
      BY <1>1, <2>2
    <3>2. r[k - 1] = s[k] /\ k - 1 \in DOMAIN r
      BY <1>1, <3>1
    <3> QED BY <1>1, <3>2 DEF Range, Distinct
  <2> QED BY <1>1, <2>1, <2>2
<1>5. \A k \in DOMAIN r : \E m \in DOMAIN s : m # i /\ r[k] = s[m]
  BY <1>1, <1>2
<1>6. ASSUME NEW k \in DOMAIN r PROVE r[k] \in Range(s) /\ r[k] # s[i]
  <2>1. PICK m \in DOMAIN s : m # i /\ r[k] = s[m]
    BY <1>5
  <2> QED BY <1>4, <2>1, Zenon DEF Range
<1>7. \A e : e \in Range(s) /\ e # s[i] => e \in Range(r)
  BY <1>4, Zenon DEF Range
<1>8. Range(r) = Range(s) \ {s[i]}
  BY <1>6, <1>7 DEF Range
<1> QED BY <1>3, <1>8 DEF r

\* An appended new value is the only one that joins the range.
LEMMA AppendDistinct ==
  ASSUME NEW S, NEW s \in Seq(S), Distinct(s), NEW e \in S, e \notin Range(s)
  PROVE  /\ Append(s, e) \in Seq(S)
         /\ Distinct(Append(s, e))
         /\ Range(Append(s, e)) = Range(s) \cup {e}
<1> DEFINE r == Append(s, e)
<1>1. /\ r \in Seq(S) /\ DOMAIN s = 1 .. Len(s) /\ Len(s) \in Nat
      /\ DOMAIN r = 1 .. (Len(s) + 1)
      /\ \A k \in 1 .. Len(s) : r[k] = s[k]
      /\ r[Len(s) + 1] = e
  OBVIOUS
<1> HIDE DEF r
<1>2. \A k \in DOMAIN s : s[k] # e
  BY DEF Range
<1>3. Distinct(r)
  BY <1>1, <1>2 DEF Distinct
<1>4. \A k \in DOMAIN s : s[k] \in Range(r)
  BY <1>1 DEF Range
<1>5. e \in Range(r)
  BY <1>1 DEF Range
<1>6. \A k \in DOMAIN r : r[k] = e \/ r[k] \in Range(s)
  BY <1>1 DEF Range
<1>7. Range(r) = Range(s) \cup {e}
  BY <1>4, <1>5, <1>6 DEF Range
<1> QED BY <1>1, <1>3, <1>7 DEF r

\* What a trial's work looks like.
LEMMA TrialFacts ==
  ASSUME NEW t \in Trials
  PROVE  /\ t.dram \in Seq(Site) /\ Distinct(t.dram)
         /\ \A k \in 1 .. Len(t.dram) : t.dram[k].alloc \in Alloc /\ t.dram[k].bit \in Bits
         /\ t.cache \in Seq(CacheSite)
         /\ \A i \in DOMAIN t.cache :
              /\ t.cache[i].alloc \in Alloc /\ t.cache[i].bit \in Bits
              /\ t.cache[i].start \in Image /\ t.cache[i].last \in Image
              /\ t.cache[i].start <= t.cache[i].last
              /\ ~ReadOnly(t.cache[i].alloc) => t.cache[i].last = t.cache[i].start
         /\ \A i, j \in DOMAIN t.cache : i # j => Placeable(t.cache[i], t.cache[j])
<1>1. \A S : \A n \in Nat : \A s \in SeqUpTo(S, n) : s \in Seq(S)
  BY DEF SeqUpTo
<1>2. /\ t.dram \in SeqUpTo(Site, MaxDram) /\ Distinct(t.dram)
      /\ t.cache \in SeqUpTo(CacheSite, MaxCache)
      /\ \A i, j \in DOMAIN t.cache : i # j => Placeable(t.cache[i], t.cache[j])
  BY DEF Trials
<1>3. t.dram \in Seq(Site) /\ t.cache \in Seq(CacheSite)
  BY <1>1, <1>2, TrialAssumption
<1>4. \A k \in 1 .. Len(t.dram) : t.dram[k].alloc \in Alloc /\ t.dram[k].bit \in Bits
  <2>1. \A k \in 1 .. Len(t.dram) : t.dram[k] \in Site
    BY <1>3
  <2> QED BY <2>1 DEF Site
<1>5. \A i \in DOMAIN t.cache :
        /\ t.cache[i].alloc \in Alloc /\ t.cache[i].bit \in Bits
        /\ t.cache[i].start \in Image /\ t.cache[i].last \in Image
        /\ t.cache[i].start <= t.cache[i].last
        /\ ~ReadOnly(t.cache[i].alloc) => t.cache[i].last = t.cache[i].start
  <2>1. \A i \in DOMAIN t.cache : t.cache[i] \in CacheSite
    BY <1>3
  <2> QED BY <2>1 DEF CacheSite
<1> QED BY <1>2, <1>3, <1>4, <1>5

\* The empty work is a trial.
LEMMA NoWorkIsTrial ==
  /\ NoWork \in Trials
  /\ NoWork.dram = <<>> /\ NoWork.cache = <<>>
<1>1. \A S : \A n \in Nat : <<>> \in SeqUpTo(S, n)
  <2> SUFFICES ASSUME NEW S, NEW n \in Nat PROVE <<>> \in SeqUpTo(S, n)
    OBVIOUS
  <2>1. <<>> \in [1 .. 0 -> S] /\ 0 \in 0 .. n
    OBVIOUS
  <2> QED BY <2>1 DEF SeqUpTo
<1> QED BY <1>1, TrialAssumption DEF NoWork, Trials, Distinct

-----------------------------------------------------------------------------
(* Between trials, and every way out of one.                               *)

\* With no site in force nothing is on, and the empty sum of bits is empty.
LEMMA NothingOn ==
  /\ cache_active = <<>> => \A a : On(a) = {} /\ Lit(a) = {}
  /\ flipped = 0 => \A a : Held(a) = {}
  /\ Cardinality({}) = 0 /\ IsFiniteSet({})
<1>1. cache_active = <<>> => Range(cache_active) = {}
  BY DEF Range
<1>2. flipped = 0 => 1 .. flipped = {}
  BY SMT
<1> QED BY <1>1, <1>2, FS_EmptySet DEF On, Lit, Held

\* The locals of the loop body are gone and the weights are clean: how every
\* trial begins, and how main leaves the loop.
Between ==
  /\ memory \in [Alloc -> Byte] /\ \A w \in Weights : memory[w] = {}
  /\ trial = NoWork /\ pristine = Clean /\ flipped = 0 /\ image = 0
  /\ records = <<>> /\ cache_active = <<>> /\ visited = 0
  /\ cache_bytes = [a \in Alloc |-> NoByteState] /\ due = FALSE
  /\ pc \in {"idle", "thrown"} /\ error \in {"none", "cuda", "sanity"}

\* Such a state satisfies the invariant.
LEMMA BetweenIsSound == Between => TrialInv
<1> SUFFICES ASSUME Between PROVE TrialInv
  OBVIOUS
<1> USE DEF Between
<1>1. TypeOK
  <2>1. NoByteState \in ByteState
    BY DEF NoByteState, ByteState, Byte
  <2>2. cache_bytes \in [Alloc -> ByteState]
    BY <2>1
  <2>3. pristine \in [Alloc -> Byte]
    BY DEF Clean, Byte
  <2>4. /\ trial \in Trials /\ trial.dram = <<>> /\ trial.cache = <<>>
    BY NoWorkIsTrial
  <2>5. records \in [DOMAIN trial.cache -> Record] /\ cache_active \in Seq(DOMAIN trial.cache)
    BY <2>4
  <2>6. flipped \in 0 .. Len(trial.dram) /\ visited \in 0 .. Len(cache_active)
    BY <2>4
  <2>7. image \in Image
    BY TrialAssumption DEF Image
  <2> QED BY <2>2, <2>3, <2>4, <2>5, <2>6, <2>7 DEF TypeOK, Outside
<1>2. Progress
  BY DEF Progress, InPass, AfterPass, Outside
<1>3. Lifetimes
  BY NoWorkIsTrial DEF Lifetimes, Distinct
<1>4. DeviceContent
  BY Zenon, NothingOn, XorFacts DEF DeviceContent
<1>5. BytesTracked
  BY NothingOn DEF BytesTracked, NoByteState, Alloc
<1> QED BY <1>1, <1>2, <1>3, <1>4, <1>5 DEF TrialInv

\* The loaded weights before the first trial.
LEMMA InitSound == Init => TrialInv
<1>1. Init => /\ memory \in [Alloc -> Byte] /\ \A w \in Weights : memory[w] = {}
  BY DEF Init, Clean, Byte, Alloc
<1> QED BY <1>1, BetweenIsSound DEF Init, Between

\* The same facts about the state after a step.
LEMMA BetweenNext == Between' => TrialInv'
BY BetweenIsSound, PTL

\* The same of the next state, when the step changes neither set.
LEMMA NothingOnNext ==
  /\ cache_active' = <<>> => \A a : On(a)' = {} /\ Lit(a)' = {}
  /\ flipped' = 0 => \A a : Held(a)' = {}
<1>1. cache_active' = <<>> => Range(cache_active') = {}
  BY DEF Range
<1>2. flipped' = 0 => 1 .. flipped' = {}
  BY SMT
<1> QED BY <1>1, <1>2 DEF On, Lit, Held

\* What a step leaves of the sites in force when it touches none of them.
LEMMA SameSites ==
  /\ UNCHANGED <<trial, cache_active>> => \A a : On(a)' = On(a) /\ Lit(a)' = Lit(a)
  /\ UNCHANGED <<trial, flipped>> => \A a : Held(a)' = Held(a)
BY DEF On, Lit, Held

\* The memory stays a map of bytes when one byte changes.
LEMMA ByteFacts ==
  /\ Input \in Alloc /\ Weights \subseteq Alloc /\ Input \notin Weights
  /\ \A i \in Image : campaign_input[i] \in Byte
  /\ \A t \in Trials : \A a : MaskOf(a, t.dram) \in Byte
  /\ \A b \in Bits : {b} \in Byte
<1>1. Input \in Alloc /\ Weights \subseteq Alloc /\ Input \notin Weights
  BY TrialAssumption DEF Alloc
<1>2. \A i \in Image : campaign_input[i] \in Byte
  BY TrialAssumption DEF Image, Byte
<1>3. \A t \in Trials : \A a : MaskOf(a, t.dram) \in Byte
  <2> TAKE t \in Trials
  <2> TAKE a
  <2>1. \A k \in DOMAIN t.dram : t.dram[k].bit \in Bits
    BY TrialFacts
  <2>2. \A s \in Range(t.dram) : s.bit \in Bits
    BY <2>1 DEF Range
  <2> QED BY <2>2 DEF MaskOf, Byte
<1> QED BY <1>1, <1>2, <1>3 DEF Byte

\* All DRAM sites flipped: the bits held are the mask of the work.
LEMMA AllHeld ==
  ASSUME trial \in Trials, flipped = Len(trial.dram)
  PROVE  \A a : Held(a) = MaskOf(a, trial.dram)
<1>1. DOMAIN trial.dram = 1 .. flipped
  BY TrialFacts
<1> QED BY <1>1 DEF Held, MaskOf, Range

\* A call to CUDA fails, the sanity inference diverges, or the trial ends.
LEMMA LeavingKeepsInv ==
  ASSUME TrialInv, EngineFails \/ SanityDiverges \/ TrialEnd
  PROVE  TrialInv'
<1> USE DEF TrialInv
<1>1. Clean \in [Alloc -> Byte] /\ \A w \in Weights : Clean[w] = {}
  BY DEF Clean, Byte, Alloc
<1>2. CASE EngineFails
  BY <1>1, <1>2, BetweenNext DEF EngineFails, Throw, LocalsGone, Between
<1>3. CASE SanityDiverges
  BY <1>1, <1>3, BetweenNext DEF SanityDiverges, Throw, LocalsGone, Between
<1>4. CASE TrialEnd
  <2>1. cache_active = <<>> /\ flipped = 0
    BY <1>4 DEF TrialEnd, Progress, AfterPass
  <2>2. \A w \in Weights : memory[w] = {}
    BY ZenonT(40), <2>1, NothingOn, XorFacts DEF DeviceContent
  <2>3. pc' = "idle" /\ error' = error
    BY <1>4, <2>1 DEF TrialEnd, CheckedGoto
  <2> QED BY <1>4, <2>2, <2>3, BetweenNext DEF TrialEnd, LocalsGone, Between, TypeOK
<1> QED BY <1>2, <1>3, <1>4

-----------------------------------------------------------------------------
(* Before the pass.                                                        *)

\* TRIAL_BEGIN draws any work; nothing of it is flipped or applied yet.
LEMMA TrialBeginKeepsInv ==
  ASSUME TrialInv, TrialBegin
  PROVE  TrialInv'
<1> USE DEF TrialInv
<1>1. /\ cache_active = <<>> /\ flipped = 0 /\ image = 0 /\ ~due
      /\ UNCHANGED <<memory, flipped, image, cache_active, visited, cache_bytes, due, error>>
      /\ trial' \in Trials /\ pristine' = memory /\ pc' = "flip"
      /\ records' = [i \in DOMAIN trial'.cache |-> NoRecord]
  BY DEF TrialBegin, Progress, Outside
<1>2. \A a : Held(a) = {} /\ On(a) = {} /\ Lit(a) = {}
  BY <1>1, NothingOn
<1>3. \A a : Held(a)' = {} /\ On(a)' = {} /\ Lit(a)' = {}
  BY <1>1, NothingOnNext
<1>4. NoRecord \in Record /\ ~NoRecord.applied
  BY TrialAssumption DEF NoRecord, Record, Byte, Image
<1>5. TypeOK'
  <2>1. records' \in [DOMAIN trial'.cache -> Record]
    BY <1>1, <1>4
  <2>2. cache_active' \in Seq(DOMAIN trial'.cache)
    BY <1>1
  <2>3. flipped' \in 0 .. Len(trial'.dram)
    <3>1. Len(trial'.dram) \in Nat
      BY <1>1, TrialFacts
    <3> QED BY <1>1, <3>1
  <2> QED BY <1>1, <2>1, <2>2, <2>3 DEF TypeOK, Outside
<1>6. Progress'
  BY <1>1 DEF Progress, InPass, AfterPass, Outside
<1>7. Lifetimes'
  <2>1. Range(cache_active') = {} /\ Distinct(cache_active')
    BY <1>1 DEF Range, Distinct
  <2>2. \A i \in DOMAIN trial'.cache : trial'.cache[i].start \in Image
    BY <1>1, TrialFacts
  <2>3. \A i \in DOMAIN trial'.cache : ~(trial'.cache[i].start < image')
    BY <1>1, <2>2, TrialAssumption DEF Image
  <2>4. \A i \in DOMAIN trial'.cache : records'[i] = NoRecord
    BY <1>1
  <2> QED BY <1>1, <1>4, <2>1, <2>3, <2>4 DEF Lifetimes, AfterPass, Outside
<1>8. DeviceContent'
  BY <1>1, <1>2, <1>3, XorFacts DEF DeviceContent
<1>9. BytesTracked'
  BY <1>1, <1>2, <1>3 DEF BytesTracked
<1> QED BY <1>5, <1>6, <1>7, <1>8, <1>9

\* One more DRAM site is held: the next of the work, on a bit not held yet.
LEMMA FlipSiteKeepsInv ==
  ASSUME TrialInv, FlipSite
  PROVE  TrialInv'
<1> USE DEF TrialInv
<1> DEFINE k == flipped + 1
           s == trial.dram[k]
<1>1. /\ pc = "flip" /\ flipped < Len(trial.dram) /\ cache_active = <<>>
      /\ memory' = Flip(memory, s) /\ flipped' = k
      /\ UNCHANGED <<trial, pristine, pc, image, passVars, error>>
  BY DEF FlipSite, Progress, Outside
<1>2. /\ trial.dram \in Seq(Site) /\ Distinct(trial.dram) /\ Len(trial.dram) \in Nat
      /\ flipped \in Nat /\ k \in 1 .. Len(trial.dram)
      /\ \A m \in 1 .. Len(trial.dram) : trial.dram[m] \in Site
  BY <1>1, TrialFacts DEF TypeOK
<1>3. s.alloc \in Alloc /\ s.bit \in Bits
  BY <1>2, TrialFacts DEF TypeOK
<1>4. \A a : On(a) = {} /\ Lit(a) = {} /\ On(a)' = {} /\ Lit(a)' = {}
  BY <1>1, NothingOn, NothingOnNext DEF passVars
<1>5. s.bit \notin Held(s.alloc)
  <2> SUFFICES ASSUME NEW m \in 1 .. flipped, trial.dram[m].alloc = s.alloc,
                      trial.dram[m].bit = s.bit
               PROVE  FALSE
    BY DEF Held
  <2>1. m \in 1 .. Len(trial.dram) /\ m # k
    BY <1>2
  <2>2. trial.dram[m] = s
    BY <1>2, <2>1 DEF Site
  <2> QED BY <1>2, <2>1, <2>2 DEF Distinct
<1>6. \A a : Held(a)' = IF a = s.alloc THEN Held(a) \cup {s.bit} ELSE Held(a)
  <2> HIDE DEF k
  <2>1. 1 .. k = (1 .. flipped) \cup {k}
    BY <1>2 DEF k
  <2> QED BY <1>1, <2>1 DEF Held
<1>7. \A a \in Alloc : memory'[a] = IF a = s.alloc THEN Xor(memory[a], {s.bit}) ELSE memory[a]
  BY <1>1, <1>3 DEF Flip, TypeOK
<1> HIDE DEF s
<1>8. TypeOK'
  <2>1. memory' \in [Alloc -> Byte]
    BY <1>1, <1>3, XorFacts, ByteFacts DEF Flip, TypeOK
  <2>2. flipped' \in 0 .. Len(trial'.dram)
    BY <1>1, <1>2
  <2> QED BY <1>1, <2>1, <2>2 DEF TypeOK, passVars
<1>9. Progress'
  BY <1>1 DEF Progress, passVars, InPass, AfterPass, Outside
<1>10. Lifetimes'
  BY <1>1 DEF Lifetimes, passVars
<1>11. DeviceContent'
  <2>1. \A w \in Weights : memory'[w] = Xor(Held(w)', Lit(w)')
    <3> TAKE w \in Weights
    <3>1. memory[w] = Held(w)
      BY <1>4, XorFacts DEF DeviceContent
    <3>2. Xor(Held(w), {s.bit}) = Held(w) \cup {s.bit} \/ w # s.alloc
      BY <1>5 DEF Xor
    <3>3. memory'[w] = Held(w)'
      BY <1>6, <1>7, <3>1, <3>2, ByteFacts
    <3> QED BY <1>4, <3>3, XorFacts
  <2>2. \A a \in Alloc : memory'[a] = Xor(pristine'[a], Held(a)')
    <3> TAKE a \in Alloc
    <3>1. memory[a] = Xor(pristine[a], Held(a))
      BY <1>1 DEF DeviceContent
    <3>2. CASE a = s.alloc
      BY <1>1, <1>5, <1>6, <1>7, <3>1, <3>2, XorFacts
    <3>3. CASE a # s.alloc
      BY <1>1, <1>6, <1>7, <3>1, <3>3
    <3> QED BY <3>2, <3>3
  <2> QED BY <1>1, <2>1, <2>2 DEF DeviceContent
<1>12. BytesTracked'
  BY <1>1, <1>4 DEF BytesTracked, passVars
<1> QED BY <1>8, <1>9, <1>10, <1>11, <1>12

\* The compare finds every touched allocation at its pristine content with the
\* mask of the work, so main goes on.
LEMMA GuardCompareKeepsInv ==
  ASSUME TrialInv, GuardCompare
  PROVE  TrialInv'
<1> USE DEF TrialInv
<1>1. /\ pc = "flip" /\ flipped = Len(trial.dram)
      /\ UNCHANGED <<memory, trial, pristine, flipped, image, passVars>>
  BY DEF GuardCompare
<1>2. \A a \in {t.alloc : t \in Range(trial.dram)} :
        memory[a] = Xor(pristine[a], MaskOf(a, trial.dram))
  <2>1. \A t \in Range(trial.dram) : t.alloc \in Alloc
    <3>1. \A k \in DOMAIN trial.dram : trial.dram[k].alloc \in Alloc
      BY TrialFacts DEF TypeOK
    <3> QED BY <3>1 DEF Range
  <2> QED BY <1>1, <2>1, AllHeld DEF DeviceContent, TypeOK
<1>3. pc' = "stage" /\ error' = error
  BY <1>2 DEF GuardCompare, CheckedGoto
<1>4. \A a : On(a)' = On(a) /\ Lit(a)' = Lit(a) /\ Held(a)' = Held(a)
  BY <1>1, SameSites DEF passVars
<1>5. TypeOK'
  BY <1>1, <1>3 DEF TypeOK, passVars, InPass
<1>6. Progress'
  BY <1>1, <1>3 DEF Progress, passVars, InPass, AfterPass, Outside
<1>7. Lifetimes'
  <2>1. \A i \in DOMAIN trial.cache : ~records[i].applied
    BY <1>1 DEF Lifetimes, Outside
  <2> QED BY <1>1, <1>3, <2>1 DEF Lifetimes, passVars, AfterPass, Outside
<1>8. DeviceContent'
  BY <1>1, <1>3, <1>4 DEF DeviceContent
<1>9. BytesTracked'
  BY <1>1, <1>4 DEF BytesTracked, passVars
<1> QED BY <1>5, <1>6, <1>7, <1>8, <1>9

-----------------------------------------------------------------------------
(* The pass.                                                               *)

\* No cache site of the input outlives its image, so none is on when the next
\* image is staged.
LEMMA StageInputKeepsInv ==
  ASSUME TrialInv, StageInput
  PROVE  TrialInv'
<1> USE DEF TrialInv
<1>1. /\ pc = "stage" /\ pc' = "apply"
      /\ memory' = [memory EXCEPT ![Input] =
                      Xor(campaign_input[image], MaskOf(Input, trial.dram))]
      /\ UNCHANGED <<trial, pristine, flipped, image, passVars, error>>
  BY DEF StageInput
<1>2. On(Input) = {} /\ Lit(Input) = {}
  <2>1. SUFFICES ASSUME NEW i \in Range(cache_active), trial.cache[i].alloc = Input
                 PROVE  FALSE
    BY DEF On, Lit
  <2>2. i \in DOMAIN trial.cache
    BY DEF TypeOK, Range
  <2>3. trial.cache[i].start < image /\ image <= trial.cache[i].last
    BY <1>1, <2>2 DEF Lifetimes
  <2>4. /\ trial.cache[i].last = trial.cache[i].start
        /\ trial.cache[i].start \in Nat
    BY <2>1, <2>2, TrialFacts, ByteFacts DEF TypeOK, ReadOnly, Image
  <2> QED BY <2>3, <2>4, TrialAssumption DEF TypeOK, Image
<1>3. \A a : On(a)' = On(a) /\ Lit(a)' = Lit(a) /\ Held(a)' = Held(a)
  BY <1>1, SameSites DEF passVars
<1>4. /\ memory'[Input] = Xor(campaign_input[image], MaskOf(Input, trial.dram))
      /\ \A w \in Weights : memory'[w] = memory[w]
      /\ memory' \in [Alloc -> Byte]
  BY <1>1, ByteFacts, XorFacts DEF TypeOK
<1>5. TypeOK'
  BY <1>1, <1>4 DEF TypeOK, passVars, InPass
<1>6. Progress'
  BY <1>1 DEF Progress, passVars, InPass, AfterPass, Outside
<1>7. Lifetimes'
  BY <1>1 DEF Lifetimes, passVars, AfterPass, Outside
<1>8. DeviceContent'
  BY <1>1, <1>2, <1>3, <1>4, XorFacts DEF DeviceContent
<1>9. BytesTracked'
  BY <1>1, <1>2, <1>3, <1>4 DEF BytesTracked, passVars
<1> QED BY <1>5, <1>6, <1>7, <1>8, <1>9

\* The engine writes outputs and scratch; every site that starts at the image
\* has been applied before.
LEMMA EnqueueKeepsInv ==
  ASSUME TrialInv, Enqueue
  PROVE  TrialInv'
<1> USE DEF TrialInv
<1>1. /\ pc = "apply" /\ ToApply = {} /\ pc' = "readback"
      /\ UNCHANGED <<trial, pristine, flipped, image, passVars, error>>
  BY DEF Enqueue, passVars
<1>2. PICK S \in SUBSET Scratch : \E w \in [Outputs \cup S -> Byte] :
        memory' = [a \in Alloc |-> IF a \in Outputs \cup S THEN w[a] ELSE memory[a]]
  BY DEF Enqueue
<1>3. /\ memory' \in [Alloc -> Byte]
      /\ \A a \in Weights \cup {Input} : memory'[a] = memory[a]
  BY <1>2, ByteFacts, TrialAssumption DEF TypeOK
<1>4. \A a : On(a)' = On(a) /\ Lit(a)' = Lit(a) /\ Held(a)' = Held(a)
  BY <1>1, SameSites DEF passVars
<1>5. TypeOK'
  BY <1>1, <1>3 DEF TypeOK, passVars, InPass
<1>6. Progress'
  BY <1>1 DEF Progress, passVars, InPass, AfterPass, Outside
<1>7. Lifetimes'
  <2>1. \A i \in DOMAIN trial.cache : trial.cache[i].start = image => records[i].applied
    BY <1>1 DEF ToApply
  <2> QED BY <1>1, <2>1 DEF Lifetimes, passVars, AfterPass, Outside
<1>8. DeviceContent'
  BY <1>1, <1>3, <1>4 DEF DeviceContent
<1>9. BytesTracked'
  BY <1>1, <1>3, <1>4 DEF BytesTracked, passVars
<1> QED BY <1>5, <1>6, <1>7, <1>8, <1>9

\* The outputs get their faults again and are judged.
LEMMA ReadbackKeepsInv ==
  ASSUME TrialInv, Readback
  PROVE  TrialInv'
<1> USE DEF TrialInv
<1>1. /\ pc = "readback" /\ pc' = "remove" /\ visited' = 0 /\ due' \in BOOLEAN
      /\ UNCHANGED <<trial, pristine, flipped, image, records, cache_active,
                     cache_bytes, error>>
      /\ memory' = [a \in Alloc |-> IF a \in Outputs
                                    THEN Xor(memory[a], MaskOf(a, trial.dram))
                                    ELSE memory[a]]
  BY DEF Readback
<1>2. /\ memory' \in [Alloc -> Byte]
      /\ \A a \in Weights \cup {Input} : memory'[a] = memory[a]
  BY <1>1, ByteFacts, XorFacts, TrialAssumption DEF TypeOK
<1>3. \A a : On(a)' = On(a) /\ Lit(a)' = Lit(a) /\ Held(a)' = Held(a)
  BY <1>1, SameSites
<1>4. TypeOK'
  BY <1>1, <1>2 DEF TypeOK, InPass
<1>5. Progress'
  BY <1>1 DEF Progress, InPass, AfterPass, Outside
<1>6. Lifetimes'
  BY <1>1 DEF Lifetimes, AfterPass, Outside
<1>7. DeviceContent'
  BY <1>1, <1>2, <1>3 DEF DeviceContent
<1>8. BytesTracked'
  BY <1>1, <1>2, <1>3 DEF BytesTracked
<1> QED BY <1>4, <1>5, <1>6, <1>7, <1>8

\* remove_cache leaves an entry whose last image is still to come.
LEMMA KeepCacheKeepsInv ==
  ASSUME TrialInv, KeepCache
  PROVE  TrialInv'
<1> USE DEF TrialInv
<1>1. /\ pc = "remove" /\ visited < Len(cache_active) /\ visited' = visited + 1
      /\ ~ToRemove(trial.cache[cache_active[visited + 1]])
      /\ UNCHANGED <<memory, trial, pristine, pc, flipped, image, records,
                     cache_active, cache_bytes, due, error>>
  BY DEF KeepCache, Visiting
<1>2. visited \in Nat /\ Len(cache_active) \in Nat
  BY DEF TypeOK
<1>3. \A a : On(a)' = On(a) /\ Lit(a)' = Lit(a) /\ Held(a)' = Held(a)
  BY <1>1, SameSites
<1>4. TypeOK'
  BY <1>1, <1>2 DEF TypeOK
<1>5. Progress'
  <2>1. \A k \in 1 .. visited' : k \in 1 .. visited \/ k = visited + 1
    BY <1>1, <1>2
  <2> QED BY <1>1, <2>1 DEF Progress, ToRemove
<1>6. Lifetimes'
  BY <1>1 DEF Lifetimes
<1>7. DeviceContent'
  BY <1>1, <1>3 DEF DeviceContent
<1>8. BytesTracked'
  BY <1>1, <1>3 DEF BytesTracked
<1> QED BY <1>4, <1>5, <1>6, <1>7, <1>8

\* At the end of remove_cache nothing that is due is left.
LEMMA AllVisited ==
  ASSUME TrialInv, Removed, NEW i \in Range(cache_active)
  PROVE  i \in DOMAIN trial.cache /\ ~due /\ image < trial.cache[i].last
<1> USE DEF TrialInv
<1>1. PICK k \in DOMAIN cache_active : cache_active[k] = i
  BY DEF Range
<1>2. k \in 1 .. visited /\ i \in DOMAIN trial.cache
  BY <1>1 DEF Removed, TypeOK
<1>3. ~ToRemove(trial.cache[i])
  BY <1>1, <1>2 DEF Removed, Progress
<1>4. image <= trial.cache[i].last
  BY <1>2 DEF Lifetimes
<1>5. trial.cache[i].last \in Image
  BY <1>2, TrialFacts DEF TypeOK
<1> QED BY <1>2, <1>3, <1>4, <1>5, TrialAssumption DEF ToRemove, TypeOK, Image

\* What lives on holds the next image as well, and the rest is removed.
LEMMA NextImageKeepsInv ==
  ASSUME TrialInv, NextImage
  PROVE  TrialInv'
<1> USE DEF TrialInv
<1>1. /\ pc = "remove" /\ Removed /\ ~due /\ image + 1 < Images
      /\ image' = image + 1 /\ pc' = "stage"
      /\ UNCHANGED <<memory, trial, pristine, flipped, records, cache_active,
                     visited, cache_bytes, due, error>>
  BY DEF NextImage, Removed
<1>2. image \in Nat /\ image' \in Image
  BY <1>1, TrialAssumption DEF TypeOK, Image
<1>3. \A a : On(a)' = On(a) /\ Lit(a)' = Lit(a) /\ Held(a)' = Held(a)
  BY <1>1, SameSites
<1>4. TypeOK'
  BY <1>1, <1>2 DEF TypeOK, InPass
<1>5. Progress'
  BY <1>1 DEF Progress, InPass, AfterPass, Outside
<1>6. Lifetimes'
  <2> SUFFICES ASSUME NEW i \in DOMAIN trial.cache
               PROVE  LET c == trial.cache[i]
                          r == records[i]
                      IN /\ ~r.applied => r = NoRecord
                         /\ r.applied => c.start < image' /\ c.start <= image'
                         /\ c.start < image' => r.applied
                         /\ i \in Range(cache_active) =>
                              r.applied /\ r.removal = "not_applied" /\ image' <= c.last
                         /\ r.applied /\ i \notin Range(cache_active) =>
                              /\ r.removal # "not_applied"
                              /\ r.removal_image = IF c.last > image' THEN image' ELSE c.last
                              /\ c.last < image'
    BY <1>1 DEF Lifetimes, AfterPass, Outside
  <2> DEFINE c == trial.cache[i]
             r == records[i]
  <2>1. c.start \in Nat /\ c.last \in Nat
    BY TrialFacts, TrialAssumption DEF TypeOK, Image
  <2>2. /\ ~r.applied => r = NoRecord
        /\ r.applied => c.start <= image
        /\ c.start < image => r.applied
        /\ c.start = image => r.applied
        /\ i \in Range(cache_active) => r.applied /\ r.removal = "not_applied"
        /\ r.applied /\ i \notin Range(cache_active) =>
             /\ r.removal # "not_applied"
             /\ r.removal_image = IF c.last > image THEN image ELSE c.last
             /\ c.last <= image
    BY <1>1, <1>2, <2>1 DEF Lifetimes, AfterPass
  <2>3. i \in Range(cache_active) => image < c.last
    BY <1>1, AllVisited
  <2> HIDE DEF c, r
  <2> QED BY <1>1, <1>2, <2>1, <2>2, <2>3 DEF c, r
<1>7. DeviceContent'
  BY <1>1, <1>3 DEF DeviceContent
<1>8. BytesTracked'
  BY <1>1, <1>3 DEF BytesTracked
<1> QED BY <1>4, <1>5, <1>6, <1>7, <1>8

\* After the last image, or an invalid output, no cache site is left.
LEMMA PassEndKeepsInv ==
  ASSUME TrialInv, PassEnd
  PROVE  TrialInv'
<1> USE DEF TrialInv
<1>1. /\ pc = "remove" /\ Removed /\ (due \/ image + 1 = Images) /\ pc' = "restore"
      /\ UNCHANGED <<memory, trial, pristine, flipped, image, records,
                     cache_active, visited, cache_bytes, due, error>>
  BY DEF PassEnd, Removed
<1>2. cache_active = <<>>
  <2>1. Range(cache_active) = {}
    <3> SUFFICES ASSUME NEW i \in Range(cache_active) PROVE FALSE
      OBVIOUS
    <3>1. i \in DOMAIN trial.cache /\ ~due /\ image < trial.cache[i].last
      BY <1>1, AllVisited
    <3>2. trial.cache[i].last \in Image
      BY <3>1, TrialFacts DEF TypeOK
    <3> QED BY <1>1, <3>1, <3>2, TrialAssumption DEF TypeOK, Image
  <2>2. cache_active \in Seq(DOMAIN trial.cache)
    BY DEF TypeOK
  <2>3. \A k \in 1 .. Len(cache_active) : cache_active[k] \in Range(cache_active)
    BY <2>2 DEF Range
  <2> QED BY <2>1, <2>2, <2>3
<1>3. \A a : On(a)' = On(a) /\ Lit(a)' = Lit(a) /\ Held(a)' = Held(a)
  BY <1>1, SameSites
<1>4. TypeOK'
  BY <1>1 DEF TypeOK, AfterPass
<1>5. Progress'
  BY <1>1, <1>2 DEF Progress, InPass, AfterPass, Outside
<1>6. Lifetimes'
  BY <1>1 DEF Lifetimes, AfterPass, Outside
<1>7. DeviceContent'
  <2>1. Held(Input) = MaskOf(Input, trial.dram)
    BY <1>1, AllHeld DEF Progress, InPass, TypeOK
  <2>2. Lit(Input) = {}
    BY <1>2, NothingOn
  <2> QED BY <1>1, <1>3, <2>1, <2>2, XorFacts DEF DeviceContent
<1>8. BytesTracked'
  BY <1>1, <1>3 DEF BytesTracked
<1> QED BY <1>4, <1>5, <1>6, <1>7, <1>8

-----------------------------------------------------------------------------
(* After the pass.                                                         *)

\* Restoring in reverse order takes the last held bit away.
LEMMA RestoreSiteKeepsInv ==
  ASSUME TrialInv, RestoreSite
  PROVE  TrialInv'
<1> USE DEF TrialInv
<1> DEFINE s == trial.dram[flipped]
<1>1. /\ pc = "restore" /\ flipped > 0 /\ cache_active = <<>>
      /\ memory' = Flip(memory, s) /\ flipped' = flipped - 1
      /\ UNCHANGED <<trial, pristine, pc, image, passVars, error>>
  BY DEF RestoreSite, Progress, AfterPass
<1>2. /\ trial.dram \in Seq(Site) /\ Distinct(trial.dram) /\ Len(trial.dram) \in Nat
      /\ flipped \in 1 .. Len(trial.dram)
      /\ \A m \in 1 .. Len(trial.dram) : trial.dram[m] \in Site
  BY <1>1, TrialFacts DEF TypeOK
<1>3. s.alloc \in Alloc /\ s.bit \in Bits
  BY <1>2, TrialFacts DEF TypeOK
<1>4. \A a : On(a) = {} /\ Lit(a) = {} /\ On(a)' = {} /\ Lit(a)' = {}
  BY <1>1, NothingOn, NothingOnNext DEF passVars
<1>5. /\ \A a : Held(a)' = IF a = s.alloc THEN Held(a) \ {s.bit} ELSE Held(a)
      /\ s.bit \in Held(s.alloc)
  <2>1. \A m \in 1 .. (flipped - 1) :
          trial.dram[m].alloc = s.alloc => trial.dram[m].bit # s.bit
    <3> SUFFICES ASSUME NEW m \in 1 .. (flipped - 1), trial.dram[m].alloc = s.alloc,
                        trial.dram[m].bit = s.bit
                 PROVE  FALSE
      OBVIOUS
    <3>1. m \in 1 .. Len(trial.dram) /\ m # flipped
      BY <1>2
    <3>2. trial.dram[m] = s
      BY <1>2, <3>1 DEF Site
    <3> QED BY <1>2, <3>1, <3>2 DEF Distinct
  <2>2. 1 .. flipped = (1 .. (flipped - 1)) \cup {flipped}
    BY <1>2
  <2> QED BY <1>1, <2>1, <2>2 DEF Held
<1>6. \A a \in Alloc : memory'[a] = IF a = s.alloc THEN Xor(memory[a], {s.bit}) ELSE memory[a]
  BY <1>1, <1>3 DEF Flip, TypeOK
<1>7. TypeOK'
  <2>1. memory' \in [Alloc -> Byte]
    BY <1>1, <1>3, XorFacts, ByteFacts DEF Flip, TypeOK
  <2>2. flipped' \in 0 .. Len(trial'.dram)
    BY <1>1, <1>2
  <2> QED BY <1>1, <2>1, <2>2 DEF TypeOK, passVars
<1> HIDE DEF s
<1>8. Progress'
  BY <1>1 DEF Progress, passVars, InPass, AfterPass, Outside
<1>9. Lifetimes'
  BY <1>1 DEF Lifetimes, passVars
<1>10. \A a \in Alloc : \A x :
         memory[a] = Xor(x, Held(a)) => memory'[a] = Xor(x, Held(a)')
  <2> TAKE a \in Alloc
  <2> TAKE x
  <2>1. CASE a = s.alloc
    BY <1>5, <1>6, <2>1, XorFacts
  <2>2. CASE a # s.alloc
    BY <1>5, <1>6, <2>2
  <2> QED BY <2>1, <2>2
<1>11. DeviceContent'
  <2>1. \A w \in Weights : memory'[w] = Xor(Held(w)', Lit(w)')
    <3> TAKE w \in Weights
    <3>1. memory[w] = Xor({}, Held(w))
      BY <1>4 DEF DeviceContent, Xor
    <3>2. memory'[w] = Xor({}, Held(w)')
      BY <1>10, <3>1, ByteFacts
    <3> QED BY <1>4, <3>2 DEF Xor
  <2>2. memory'[Input] = Xor(campaign_input[image'], Held(Input)')
    BY <1>1, <1>10, ByteFacts DEF DeviceContent
  <2> QED BY <1>1, <2>1, <2>2 DEF DeviceContent
<1>12. BytesTracked'
  BY <1>1, <1>4 DEF BytesTracked, passVars
<1> QED BY <1>7, <1>8, <1>9, <1>11, <1>12

\* The input binding is the last image again, so main goes on.
LEMMA InputCheckKeepsInv ==
  ASSUME TrialInv, InputCheck
  PROVE  TrialInv'
<1> USE DEF TrialInv
<1>1. /\ pc = "restore" /\ flipped = 0
      /\ UNCHANGED <<memory, trial, pristine, flipped, image, passVars>>
  BY DEF InputCheck
<1>2. memory[Input] = campaign_input[image]
  BY <1>1, NothingOn, XorFacts DEF DeviceContent
<1>3. pc' = "sanity" /\ error' = error
  BY <1>2 DEF InputCheck, CheckedGoto
<1>4. \A a : On(a)' = On(a) /\ Lit(a)' = Lit(a) /\ Held(a)' = Held(a)
  BY <1>1, SameSites DEF passVars
<1>5. TypeOK'
  BY <1>1, <1>3 DEF TypeOK, passVars, AfterPass
<1>6. Progress'
  BY <1>1, <1>3 DEF Progress, passVars, InPass, AfterPass, Outside
<1>7. Lifetimes'
  BY <1>1, <1>3 DEF Lifetimes, passVars, AfterPass, Outside
<1>8. DeviceContent'
  BY <1>1, <1>3, <1>4 DEF DeviceContent
<1>9. BytesTracked'
  BY <1>1, <1>4 DEF BytesTracked, passVars
<1> QED BY <1>5, <1>6, <1>7, <1>8, <1>9

\* The sanity inference stages its image and does not write weights.
LEMMA SanityHoldsKeepsInv ==
  ASSUME TrialInv, SanityHolds
  PROVE  TrialInv'
<1> USE DEF TrialInv
<1>1. /\ pc = "sanity" /\ pc' = "ended"
      /\ UNCHANGED <<trial, pristine, flipped, image, passVars, error>>
  BY DEF SanityHolds
<1>2. PICK S \in SUBSET Scratch : \E w \in [Outputs \cup S -> Byte] :
        memory' = [a \in Alloc |-> CASE a = Input -> campaign_input[sample_index]
                                     [] a \in Outputs \cup S -> w[a]
                                     [] OTHER -> memory[a]]
  BY DEF SanityHolds
<1>3. PICK w \in [Outputs \cup S -> Byte] :
        memory' = [a \in Alloc |-> CASE a = Input -> campaign_input[sample_index]
                                     [] a \in Outputs \cup S -> w[a]
                                     [] OTHER -> memory[a]]
  BY <1>2
<1>4. sample_index \in Image /\ Input \notin Outputs \cup S
  BY TrialAssumption DEF Image
<1>5. /\ memory' \in [Alloc -> Byte]
      /\ \A a \in Weights : memory'[a] = memory[a]
  <2>1. \A a \in Alloc : /\ a = Input => memory'[a] = campaign_input[sample_index]
                         /\ a \in Outputs \cup S => memory'[a] = w[a]
                         /\ a # Input /\ a \notin Outputs \cup S => memory'[a] = memory[a]
    BY <1>3, <1>4
  <2>2. \A a \in Alloc : memory'[a] \in Byte
    BY <1>4, <2>1, ByteFacts DEF TypeOK
  <2>3. \A a \in Weights : a # Input /\ a \notin Outputs \cup S /\ a \in Alloc
    BY TrialAssumption DEF Alloc
  <2> QED BY <1>3, <2>1, <2>2, <2>3
<1>6. \A a : On(a)' = On(a) /\ Lit(a)' = Lit(a) /\ Held(a)' = Held(a)
  BY <1>1, SameSites DEF passVars
<1>7. TypeOK'
  BY <1>1, <1>5 DEF TypeOK, passVars, AfterPass
<1>8. Progress'
  BY <1>1 DEF Progress, passVars, InPass, AfterPass, Outside
<1>9. Lifetimes'
  BY <1>1 DEF Lifetimes, passVars, AfterPass, Outside
<1>10. DeviceContent'
  BY <1>1, <1>5, <1>6 DEF DeviceContent
<1>11. BytesTracked'
  <2>1. \A a : On(a) = {}
    BY <1>1, NothingOn DEF Progress, AfterPass
  <2> QED BY <1>1, <1>6, <2>1 DEF BytesTracked, passVars
<1> QED BY <1>7, <1>8, <1>9, <1>10, <1>11

-----------------------------------------------------------------------------
(* Cache flips come and go.                                                *)

\* The sites on a byte are finitely many; an entry of cache_active is one of
\* them, with the current image in its lifetime.
LEMMA OnFacts ==
  ASSUME TrialInv
  PROVE  /\ \A a : IsFiniteSet(On(a)) /\ Cardinality(On(a)) \in Nat
         /\ \A a : Cardinality(On(a)) = 0 <=> On(a) = {}
         /\ \A i \in Range(cache_active) :
              /\ i \in DOMAIN trial.cache /\ trial.cache[i].alloc \in Alloc
              /\ i \in On(trial.cache[i].alloc)
              /\ trial.cache[i].start <= image /\ image <= trial.cache[i].last
<1> USE DEF TrialInv
<1>1. \A i \in Range(cache_active) : i \in DOMAIN trial.cache
  BY DEF TypeOK, Range
<1>2. \A a : IsFiniteSet(On(a))
  <2>1. DOMAIN trial.cache = 1 .. Len(trial.cache) /\ Len(trial.cache) \in Nat
    BY TrialFacts DEF TypeOK
  <2>2. IsFiniteSet(DOMAIN trial.cache)
    BY <2>1, FS_Interval
  <2> QED BY <1>1, <2>2, FS_Subset DEF On
<1>3. \A a : Cardinality(On(a)) \in Nat /\ (Cardinality(On(a)) = 0 <=> On(a) = {})
  BY <1>2, FS_CardinalityType, FS_EmptySet
<1>4. \A i \in Range(cache_active) :
        trial.cache[i].start <= image /\ image <= trial.cache[i].last
  BY <1>1 DEF Lifetimes
<1>5. \A i \in Range(cache_active) : trial.cache[i].alloc \in Alloc
  BY <1>1, TrialFacts DEF TypeOK
<1> QED BY <1>1, <1>2, <1>3, <1>4, <1>5 DEF On

\* Two sites of one byte that are in force together differ in their bits.
LEMMA OnApart ==
  ASSUME TrialInv, NEW i \in DOMAIN trial.cache,
         trial.cache[i].start <= image, image <= trial.cache[i].last,
         NEW j \in On(trial.cache[i].alloc), i # j
  PROVE  trial.cache[j].bit # trial.cache[i].bit
<1>1. /\ j \in DOMAIN trial.cache /\ trial.cache[j].alloc = trial.cache[i].alloc
      /\ trial.cache[j].start <= image /\ image <= trial.cache[j].last
  BY OnFacts DEF On
<1>2. Placeable(trial.cache[i], trial.cache[j])
  BY <1>1, TrialFacts DEF TrialInv, TypeOK
<1>3. /\ trial.cache[i].start \in Nat /\ trial.cache[i].last \in Nat
      /\ trial.cache[j].start \in Nat /\ trial.cache[j].last \in Nat
      /\ image \in Nat
  BY <1>1, TrialFacts, TrialAssumption DEF TrialInv, TypeOK, Image
<1> QED BY <1>1, <1>2, <1>3 DEF Placeable

\* apply_cache adds one site to its byte and finds every byte it had flipped as
\* it left it.
LEMMA ApplyCacheKeepsInv ==
  ASSUME TrialInv, ApplyCache
  PROVE  TrialInv'
<1> USE DEF TrialInv
<1>1. PICK i \in ToApply :
        LET c       == trial.cache[i]
            b       == cache_bytes[c.alloc]
            before  == memory[c.alloc]
            changed == /\ b.active_count > 0
                       /\ ~b.overwritten
                       /\ before # Xor(b.pristine, b.active_mask)
        IN /\ memory' = Flip(memory, c)
           /\ CheckedGoto(~(changed /\ ReadOnly(c.alloc)), "apply", "read_only")
           /\ records' = [records EXCEPT
                ![i].applied = TRUE, ![i].before = before,
                ![i].after = Xor(before, {c.bit})]
           /\ cache_active' = Append(cache_active, i)
           /\ cache_bytes' = [cache_bytes EXCEPT ![c.alloc] =
                [pristine     |-> IF b.active_count = 0 THEN before ELSE b.pristine,
                 active_mask  |-> Xor(b.active_mask, {c.bit}),
                 active_count |-> b.active_count + 1,
                 overwritten  |-> b.overwritten \/ changed]]
  BY ZenonT(40) DEF ApplyCache
<1> DEFINE c == trial.cache[i]
           x == c.alloc
           b == cache_bytes[x]
           changed == /\ b.active_count > 0
                      /\ ~b.overwritten
                      /\ memory[x] # Xor(b.pristine, b.active_mask)
<1>2. /\ pc = "apply"
      /\ UNCHANGED <<trial, pristine, flipped, image, visited, due>>
  BY Zenon DEF ApplyCache
<1>3. /\ i \in DOMAIN trial.cache /\ c.start = image /\ ~records[i].applied
      /\ records[i] = NoRecord /\ i \notin Range(cache_active)
  BY DEF ToApply, Lifetimes
<1>4. /\ x \in Alloc /\ c.bit \in Bits /\ c.start <= image /\ image <= c.last
      /\ image \in Nat
  BY <1>3, TrialFacts, TrialAssumption DEF TypeOK, Image
<1>5. c.bit \notin Lit(x)
  BY <1>3, <1>4, OnApart, OnFacts DEF Lit, On
<1>6. /\ cache_active' \in Seq(DOMAIN trial.cache) /\ Distinct(cache_active')
      /\ Range(cache_active') = Range(cache_active) \cup {i}
  <2>1. cache_active' = Append(cache_active, i)
    BY Zenon, <1>1
  <2> QED BY SMTT(40), <1>3, <2>1, AppendDistinct DEF TypeOK, Lifetimes
<1>7. /\ \A a : On(a)' = IF a = x THEN On(a) \cup {i} ELSE On(a)
      /\ \A a : Lit(a)' = IF a = x THEN Lit(a) \cup {c.bit} ELSE Lit(a)
      /\ \A a : Held(a)' = Held(a)
  <2>1. \A a : On(a)' = IF a = x THEN On(a) \cup {i} ELSE On(a)
    BY <1>2, <1>6 DEF On
  <2>2. \A a : Held(a)' = Held(a)
    BY <1>2, SameSites
  <2> QED BY <1>2, <2>1, <2>2 DEF Lit
<1>8. /\ memory' \in [Alloc -> Byte]
      /\ \A a \in Alloc : memory'[a] = IF a = x THEN Xor(memory[a], {c.bit}) ELSE memory[a]
  <2>1. memory' = Flip(memory, c)
    BY Zenon, <1>1
  <2> HIDE DEF c
  <2> QED BY SMTT(40), <1>4, <2>1, XorFacts, ByteFacts DEF Flip, TypeOK
<1>9. /\ b \in ByteState /\ b.active_mask = Lit(x)
      /\ b.active_count = Cardinality(On(x)) /\ b.active_count \in Nat
      /\ x \in Weights \cup {Input} => ~b.overwritten /\ ~changed
  <2>1. /\ b \in ByteState /\ b.active_mask = Lit(x) /\ b.active_count = Cardinality(On(x))
        /\ x \in Weights \cup {Input} =>
             /\ ~b.overwritten
             /\ On(x) # {} => memory[x] = Xor(b.pristine, Lit(x))
    BY <1>4 DEF BytesTracked, TypeOK
  <2>2. b.active_count \in Nat /\ (b.active_count > 0 => On(x) # {})
    BY <2>1, OnFacts
  <2> QED BY <2>1, <2>2
<1>10. pc' = "apply" /\ error' = error
  <2>1. CheckedGoto(~(changed /\ ReadOnly(x)), "apply", "read_only")
    BY ZenonT(40), <1>1
  <2> QED BY SMTT(40), <1>9, <2>1 DEF CheckedGoto, ReadOnly
<1>11. /\ cache_bytes' = [cache_bytes EXCEPT ![x] =
                [pristine     |-> IF b.active_count = 0 THEN memory[x] ELSE b.pristine,
                 active_mask  |-> Xor(b.active_mask, {c.bit}),
                 active_count |-> b.active_count + 1,
                 overwritten  |-> b.overwritten \/ changed]]
       /\ records' = [records EXCEPT ![i].applied = TRUE, ![i].before = memory[x],
                        ![i].after = Xor(memory[x], {c.bit})]
  BY Zenon, <1>1
<1>12. /\ records' \in [DOMAIN trial.cache -> Record]
       /\ \A j \in DOMAIN trial.cache : j # i => records'[j] = records[j]
       /\ records'[i].applied /\ records'[i].removal = "not_applied"
  <2>1. memory[x] \in Byte /\ Xor(memory[x], {c.bit}) \in Byte
    BY <1>4, ByteFacts, XorFacts DEF TypeOK
  <2>2. NoRecord \in Record /\ records \in [DOMAIN trial.cache -> Record]
    BY <1>3 DEF TypeOK
  <2> DEFINE r == [NoRecord EXCEPT !.applied = TRUE, !.before = memory[x],
                                   !.after = Xor(memory[x], {c.bit})]
  <2>3. r \in Record /\ r.applied /\ r.removal = "not_applied"
    BY <2>1, <2>2 DEF Record, NoRecord
  <2>4. records' = [records EXCEPT ![i] = r]
    BY <1>3, <1>11
  <2> HIDE DEF r
  <2> QED BY <1>3, <2>2, <2>3, <2>4
<1>13. LET d == cache_bytes'[x]
       IN /\ cache_bytes' \in [Alloc -> ByteState]
          /\ \A a \in Alloc : a # x => cache_bytes'[a] = cache_bytes[a]
          /\ d.active_mask = Lit(x) \cup {c.bit}
          /\ d.active_count = b.active_count + 1
          /\ d.pristine = IF b.active_count = 0 THEN memory[x] ELSE b.pristine
          /\ x \in Weights \cup {Input} => ~d.overwritten
  <2> DEFINE d == [pristine     |-> IF b.active_count = 0 THEN memory[x] ELSE b.pristine,
                   active_mask  |-> Xor(b.active_mask, {c.bit}),
                   active_count |-> b.active_count + 1,
                   overwritten  |-> b.overwritten \/ changed]
  <2>1. Xor(b.active_mask, {c.bit}) = Lit(x) \cup {c.bit}
    BY <1>5, <1>9 DEF Xor
  <2>2. Xor(b.active_mask, {c.bit}) \in Byte /\ b.pristine \in Byte /\ memory[x] \in Byte
    BY <1>4, <1>9, ByteFacts, XorFacts DEF TypeOK, ByteState
  <2>3. (b.overwritten \/ changed) \in BOOLEAN
    BY <1>9 DEF ByteState
  <2>4. d \in ByteState
    BY <1>9, <2>2, <2>3 DEF ByteState
  <2>5. cache_bytes' = [cache_bytes EXCEPT ![x] = d] /\ cache_bytes \in [Alloc -> ByteState]
    BY <1>11 DEF TypeOK
  <2>6. /\ d.active_mask = Lit(x) \cup {c.bit} /\ d.active_count = b.active_count + 1
        /\ d.pristine = IF b.active_count = 0 THEN memory[x] ELSE b.pristine
        /\ x \in Weights \cup {Input} => ~d.overwritten
    BY <1>9, <2>1
  <2> HIDE DEF d
  <2> QED BY <1>4, <2>4, <2>5, <2>6
<1>14. TypeOK'
  <2>1. visited' \in 0 .. Len(cache_active')
    <3>1. cache_active' = Append(cache_active, i)
      BY <1>1
    <3>2. /\ cache_active \in Seq(DOMAIN trial.cache)
          /\ visited \in 0 .. Len(cache_active) /\ visited' = visited
      BY <1>2 DEF TypeOK
    <3>3. Len(cache_active') = Len(cache_active) + 1 /\ Len(cache_active) \in Nat
      BY <3>1, <3>2
    <3> QED BY <3>2, <3>3
  <2> QED BY <1>2, <1>6, <1>8, <1>10, <1>12, <1>13, <2>1 DEF TypeOK, InPass
<1>15. Progress'
  BY <1>2, <1>10 DEF Progress, InPass, AfterPass, Outside
<1>16. Lifetimes'
  <2>1. \A j \in DOMAIN trial.cache : j # i =>
          records'[j] = records[j] /\ (j \in Range(cache_active') <=> j \in Range(cache_active))
    BY <1>6, <1>12
  <2>2. i \in Range(cache_active')
    BY <1>6
  <2> QED BY <1>2, <1>3, <1>4, <1>6, <1>10, <1>12, <2>1, <2>2
          DEF Lifetimes, AfterPass, Outside
<1>17. DeviceContent'
  <2>1. \A a \in Alloc : \A y : memory[a] = Xor(y, Lit(a)) => memory'[a] = Xor(y, Lit(a)')
    <3> TAKE a \in Alloc
    <3> TAKE y
    <3>1. CASE a = x
      BY <1>5, <1>7, <1>8, <3>1, XorFacts
    <3>2. CASE a # x
      BY <1>7, <1>8, <3>2
    <3> QED BY <3>1, <3>2
  <2> QED BY <1>2, <1>7, <1>10, <2>1, ByteFacts DEF DeviceContent
<1>18. BytesTracked'
  <2> SUFFICES ASSUME NEW a \in Alloc
               PROVE  LET d == cache_bytes'[a]
                      IN /\ d.active_count = Cardinality(On(a)')
                         /\ d.active_mask = Lit(a)'
                         /\ a \in Weights \cup {Input} =>
                              /\ ~d.overwritten
                              /\ On(a)' # {} => memory'[a] = Xor(d.pristine, Lit(a)')
    BY DEF BytesTracked
  <2>1. CASE a # x
    BY <1>7, <1>8, <1>13, <2>1 DEF BytesTracked
  <2>2. CASE a = x
    <3>1. Cardinality(On(x) \cup {i}) = Cardinality(On(x)) + 1
      <4>1. i \notin On(x)
        BY <1>3 DEF On
      <4> QED BY <4>1, OnFacts, FS_AddElement
    <3>2. x \in Weights \cup {Input} =>
            memory'[x] = Xor(cache_bytes'[x].pristine, Lit(x) \cup {c.bit})
      <4> SUFFICES ASSUME x \in Weights \cup {Input}
                   PROVE  memory'[x] = Xor(cache_bytes'[x].pristine, Lit(x) \cup {c.bit})
        OBVIOUS
      <4>1. CASE On(x) = {}
        <5>1. Lit(x) = {} /\ b.active_count = 0
          BY <1>9, <4>1, NothingOn DEF Lit
        <5>2. cache_bytes'[x].pristine = memory[x]
          BY <1>13, <5>1
        <5> QED BY <1>4, <1>8, <5>1, <5>2
      <4>2. CASE On(x) # {}
        <5>1. b.active_count # 0
          BY <1>9, <4>2, OnFacts
        <5>2. memory[x] = Xor(b.pristine, Lit(x))
          BY <1>4, <4>2 DEF BytesTracked
        <5>3. cache_bytes'[x].pristine = b.pristine
          BY SMTT(40), <1>13, <5>1
        <5> QED BY <1>4, <1>5, <1>8, <5>2, <5>3, XorFacts
      <4> QED BY <4>1, <4>2
    <3> QED BY <1>7, <1>9, <1>13, <2>2, <3>1, <3>2
  <2> QED BY <2>1, <2>2
<1> QED BY SMTT(40), <1>14, <1>15, <1>16, <1>17, <1>18

\* The entry under remove_cache's cursor, its site, byte and device byte; what
\* FinishRemoval does to the locals is the same whatever became of the byte.
LEMMA FinishRemovalFacts ==
  ASSUME TrialInv, Visiting, visited' = visited,
         UNCHANGED <<trial, pristine, flipped, image, due>>,
         NEW i, i = cache_active[visited + 1], ToRemove(trial.cache[i]),
         NEW removal \in {"re_xor", "restored", "overwritten"},
         NEW after \in Byte, NEW mark \in BOOLEAN,
         mark => trial.cache[i].alloc \notin Weights \cup {Input},
         FinishRemoval(i, removal, after, mark),
         pc' = "remove"
  PROVE  LET x == trial.cache[i].alloc
             e == trial.cache[i].bit
         IN /\ i \in Range(cache_active) /\ x \in Alloc /\ e \in Bits /\ e \in Lit(x)
            /\ \A a : On(a)' = IF a = x THEN On(a) \ {i} ELSE On(a)
            /\ \A a : Lit(a)' = IF a = x THEN Lit(a) \ {e} ELSE Lit(a)
            /\ \A a : Held(a)' = Held(a)
            /\ records' \in [DOMAIN trial.cache -> Record]
            /\ cache_active' \in Seq(DOMAIN trial.cache)
            /\ visited' \in 0 .. Len(cache_active')
            /\ cache_bytes' \in [Alloc -> ByteState]
            /\ Progress'
            /\ Lifetimes'
            /\ \A a \in Alloc :
                 LET d == cache_bytes'[a]
                 IN /\ d.active_count = Cardinality(On(a)')
                    /\ d.active_mask = Lit(a)'
                    /\ a \in Weights \cup {Input} => ~d.overwritten
                    /\ On(a)' # {} => d.pristine = cache_bytes[a].pristine
<1> USE DEF TrialInv
<1> DEFINE c == trial.cache[i]
           x == c.alloc
           b == cache_bytes[x]
           n == visited + 1
<1>1. /\ pc = "remove" /\ visited \in Nat /\ n \in 1 .. Len(cache_active)
      /\ cache_active \in Seq(DOMAIN trial.cache) /\ Len(cache_active) \in Nat
      /\ Distinct(cache_active) /\ visited < Len(cache_active)
  BY DEF Visiting, TypeOK, Lifetimes
<1>2. /\ i \in Range(cache_active) /\ i \in DOMAIN trial.cache
  BY <1>1, OnFacts DEF Range
<1>3. /\ x \in Alloc /\ c.bit \in Bits /\ c.start <= image /\ image <= c.last
      /\ i \in On(x) /\ image \in Nat /\ c.last \in Nat
  <2>1. x \in Alloc /\ i \in On(x) /\ c.start <= image /\ image <= c.last
    BY <1>2, OnFacts
  <2>2. c.bit \in Bits /\ c.last \in Image
    BY SMTT(40), <1>2, TrialFacts DEF TypeOK
  <2> QED BY <2>1, <2>2, TrialAssumption DEF TypeOK, Image
<1>4. /\ records' = [records EXCEPT
           ![i].removal = removal, ![i].removal_image = image,
           ![i].remove_before = memory[x], ![i].remove_after = after]
      /\ cache_active' = RemoveAt(cache_active, n)
      /\ cache_bytes' = [cache_bytes EXCEPT ![x] =
           IF b.active_count = 1 THEN NoByteState
           ELSE [b EXCEPT !.active_mask = Xor(@, {c.bit}),
                          !.active_count = @ - 1,
                          !.overwritten = @ \/ mark]]
  BY ZenonT(40) DEF FinishRemoval
<1>5. /\ cache_active' \in Seq(DOMAIN trial.cache)
      /\ Len(cache_active') = Len(cache_active) - 1
      /\ \A k \in 1 .. visited : cache_active'[k] = cache_active[k]
  <2>1. /\ RemoveAt(cache_active, n) \in Seq(DOMAIN trial.cache)
        /\ Len(RemoveAt(cache_active, n)) = Len(cache_active) - 1
        /\ \A k \in 1 .. (n - 1) : RemoveAt(cache_active, n)[k] = cache_active[k]
    BY SMTT(40), <1>1, RemoveAtFacts
  <2>2. n - 1 = visited
    BY <1>1
  <2> HIDE DEF n
  <2> QED BY Zenon, <1>4, <2>1, <2>2
<1>6. Distinct(cache_active') /\ Range(cache_active') = Range(cache_active) \ {i}
  <2> HIDE DEF n
  <2>1. i = cache_active[n]
    BY DEF n
  <2> QED BY <1>1, <1>4, <2>1, RemoveDistinct
<1>7. \A a : On(a)' = IF a = x THEN On(a) \ {i} ELSE On(a)
  BY <1>6 DEF On
<1>8. \A j \in On(x) : j # i => trial.cache[j].bit # c.bit
  BY <1>2, <1>3, OnApart
<1>9. /\ c.bit \in Lit(x)
      /\ \A a : Lit(a)' = IF a = x THEN Lit(a) \ {c.bit} ELSE Lit(a)
  BY <1>3, <1>7, <1>8 DEF Lit
<1>10. \A a : Held(a)' = Held(a)
  BY SameSites
<1>11. /\ records' \in [DOMAIN trial.cache -> Record]
       /\ \A j \in DOMAIN trial.cache : j # i => records'[j] = records[j]
       /\ records'[i].applied = records[i].applied
       /\ records'[i].removal # "not_applied" /\ records'[i].removal_image = image
  <2> DEFINE r == [records[i] EXCEPT !.removal = removal, !.removal_image = image,
                                     !.remove_before = memory[x], !.remove_after = after]
  <2>1. memory[x] \in Byte /\ image \in Image /\ records[i] \in Record
    BY <1>2, <1>3 DEF TypeOK
  <2>2. /\ r \in Record /\ r.applied = records[i].applied
        /\ r.removal # "not_applied" /\ r.removal_image = image
    BY Zenon, <2>1 DEF Record
  <2>3. records' = [records EXCEPT ![i] = r] /\ records \in [DOMAIN trial.cache -> Record]
    BY Zenon, <1>4 DEF TypeOK
  <2> HIDE DEF r
  <2> QED BY <1>2, <2>2, <2>3
<1>12. Progress'
  BY <1>1, <1>5 DEF Progress, ToRemove, InPass, AfterPass, Outside
<1>13. Lifetimes'
  <2>1. \A j \in DOMAIN trial.cache : j # i =>
          records'[j] = records[j] /\ (j \in Range(cache_active') <=> j \in Range(cache_active))
    BY <1>6, <1>11
  <2>2. i \notin Range(cache_active') /\ records[i].applied
    BY <1>2, <1>6 DEF Lifetimes
  <2>3. due \/ c.last = image
    BY DEF ToRemove
  <2>4. c.last > image \/ c.last = image
    BY <1>3
  <2> SUFFICES ASSUME NEW j \in DOMAIN trial.cache
               PROVE  LET cj == trial.cache[j]
                          r  == records'[j]
                      IN /\ ~r.applied => r = NoRecord
                         /\ r.applied => cj.start <= image
                         /\ cj.start < image => r.applied
                         /\ cj.start = image => r.applied
                         /\ j \in Range(cache_active') =>
                              r.applied /\ r.removal = "not_applied" /\ image <= cj.last
                         /\ r.applied /\ j \notin Range(cache_active') =>
                              /\ r.removal # "not_applied"
                              /\ r.removal_image = IF cj.last > image THEN image ELSE cj.last
                              /\ cj.last < image \/ due \/ cj.last = image
    BY <1>1, <1>6 DEF Lifetimes, AfterPass, Outside
  <2>6. CASE j = i
    BY <1>3, <1>11, <2>2, <2>3, <2>4, <2>6
  <2>7. CASE j # i
    BY <1>1, <2>1, <2>7 DEF Lifetimes, AfterPass
  <2> QED BY <2>6, <2>7
<1>14. /\ b \in ByteState /\ b.active_mask = Lit(x) /\ b.active_count = Cardinality(On(x))
       /\ b.active_count \in Nat \ {0}
       /\ x \in Weights \cup {Input} => ~b.overwritten
  <2>1. BytesTracked /\ cache_bytes \in [Alloc -> ByteState]
    BY DEF TypeOK
  <2>2. On(x) # {} /\ Cardinality(On(x)) \in Nat \ {0}
    BY <1>3, OnFacts
  <2>3. /\ b.active_mask = Lit(x) /\ b.active_count = Cardinality(On(x))
        /\ x \in Weights \cup {Input} => ~b.overwritten
    BY <1>3, <2>1, <2>2, Zenon DEF BytesTracked
  <2> QED BY <1>3, <2>1, <2>2, <2>3
<1>15. Cardinality(On(x) \ {i}) = b.active_count - 1
  <2>1. IsFiniteSet(On(x))
    BY OnFacts
  <2> HIDE DEF x, b
  <2>2. Cardinality(On(x) \ {i}) = Cardinality(On(x)) - 1
    BY <1>3, <2>1, FS_RemoveElement
  <2> QED BY <1>14, <2>2
<1>16. b.active_count = 1 => On(x) \ {i} = {}
  <2>1. IsFiniteSet(On(x) \ {i})
    BY Zenon, OnFacts, FS_RemoveElement
  <2> QED BY <1>14, <1>15, <2>1, FS_EmptySet
<1> DEFINE d == IF b.active_count = 1 THEN NoByteState
                ELSE [b EXCEPT !.active_mask = Xor(@, {c.bit}),
                               !.active_count = @ - 1,
                               !.overwritten = @ \/ mark]
<1>17. /\ d \in ByteState
       /\ d.active_count = b.active_count - 1
       /\ d.active_mask = Lit(x) \ {c.bit}
       /\ x \in Weights \cup {Input} => ~d.overwritten
       /\ b.active_count # 1 => d.pristine = b.pristine
  <2>1. CASE b.active_count = 1
    <3>1. On(x) \ {i} = {}
      BY <1>16, <2>1
    <3>2. Lit(x) \ {c.bit} = {}
      BY SMTT(40), <3>1 DEF Lit
    <3> QED BY <2>1, <3>2 DEF NoByteState, ByteState, Byte
  <2>2. CASE b.active_count # 1
    <3>1. Xor(Lit(x), {c.bit}) = Lit(x) \ {c.bit}
      BY <1>9 DEF Xor
    <3>2. Xor(b.active_mask, {c.bit}) \in Byte
      BY <1>3, <1>14, ByteFacts, XorFacts DEF ByteState
    <3>3. (b.overwritten \/ mark) \in BOOLEAN /\ b.active_count - 1 \in Nat
      BY SMTT(40), <1>14 DEF ByteState
    <3>4. d = [pristine |-> b.pristine, active_mask |-> Xor(b.active_mask, {c.bit}),
               active_count |-> b.active_count - 1, overwritten |-> b.overwritten \/ mark]
      BY <1>14, <2>2 DEF ByteState
    <3>5. b.pristine \in Byte
      BY <1>14 DEF ByteState
    <3> HIDE DEF d
    <3> QED BY Zenon, <1>14, <3>1, <3>2, <3>3, <3>4, <3>5 DEF ByteState
  <2> QED BY Zenon, <2>1, <2>2
<1>18. /\ cache_bytes' \in [Alloc -> ByteState]
       /\ cache_bytes'[x] = d
       /\ \A a \in Alloc : a # x => cache_bytes'[a] = cache_bytes[a]
  <2>1. cache_bytes' = [cache_bytes EXCEPT ![x] = d] /\ cache_bytes \in [Alloc -> ByteState]
    BY Zenon, <1>4 DEF TypeOK
  <2>2. DOMAIN cache_bytes = Alloc /\ x \in Alloc /\ d \in ByteState
    BY <1>3, <1>17, <2>1
  <2> HIDE DEF d, x, b, c
  <2> QED BY SMTT(40), <2>1, <2>2
<1>19. visited' \in 0 .. Len(cache_active')
  BY <1>1, <1>5
<1>20. ASSUME NEW a \in Alloc
       PROVE  /\ cache_bytes'[a].active_count = Cardinality(On(a)')
              /\ cache_bytes'[a].active_mask = Lit(a)'
              /\ a \in Weights \cup {Input} => ~cache_bytes'[a].overwritten
              /\ On(a)' # {} => cache_bytes'[a].pristine = cache_bytes[a].pristine
  <2> HIDE DEF d
  <2>1. CASE a = x
    <3>1. b.active_count = 1 => On(a)' = {}
      BY <1>7, <1>16, <2>1
    <3> QED BY Zenon, <1>7, <1>9, <1>15, <1>17, <1>18, <2>1, <3>1
  <2>2. CASE a # x
    BY <1>7, <1>9, <1>18, <2>2 DEF BytesTracked
  <2> QED BY SMTT(40), <2>1, <2>2
<1> QED BY Zenon, <1>2, <1>3, <1>5, <1>7, <1>9, <1>10, <1>11, <1>12, <1>13, <1>18, <1>19, <1>20

\* A due site is flipped back: its byte is intact, and a weight is back at its
\* pristine content with its last site.
LEMMA UnflipCacheKeepsInv ==
  ASSUME TrialInv, UnflipCache
  PROVE  TrialInv'
<1> USE DEF TrialInv
<1> DEFINE i     == cache_active[visited + 1]
           c     == trial.cache[i]
           x     == c.alloc
           b     == cache_bytes[x]
           after == Xor(memory[x], {c.bit})
<1>1. /\ Visiting /\ pc = "remove" /\ ToRemove(c)
      /\ ReadOnly(x) \/ Intact(x)
      /\ memory' = [memory EXCEPT ![x] = after]
      /\ CheckedGoto(~ReadOnly(x) \/ (Intact(x) /\ (b.active_count = 1 => after = b.pristine)),
                     "remove", "read_only")
      /\ FinishRemoval(i, IF ReadOnly(x) THEN "re_xor" ELSE "restored", after, FALSE)
      /\ UNCHANGED <<trial, pristine, flipped, image, visited, due>>
  BY Zenon DEF UnflipCache, Visiting
<1>2. i \in Range(cache_active)
  <2> HIDE DEF i, c, x, b, after
  <2>1. /\ cache_active \in Seq(DOMAIN trial.cache) /\ visited \in 0 .. Len(cache_active)
        /\ visited < Len(cache_active) /\ Len(cache_active) \in Nat
    <3>1. cache_active \in Seq(DOMAIN trial.cache) /\ visited \in 0 .. Len(cache_active)
      BY DEF TypeOK
    <3>2. visited < Len(cache_active)
      BY <1>1 DEF Visiting
    <3> QED BY <3>1, <3>2
  <2>2. visited + 1 \in DOMAIN cache_active
    BY <2>1
  <2> QED BY <2>2 DEF Range, i
<1>3. /\ x \in Alloc /\ c.bit \in Bits /\ i \in DOMAIN trial.cache /\ i \in On(x)
      /\ c.start <= image /\ image <= c.last
  BY <1>2, OnFacts, TrialFacts DEF TypeOK
<1>4. x \in Weights \cup {Input} =>
        /\ ~b.overwritten /\ b.active_mask = Lit(x)
        /\ memory[x] = Xor(b.pristine, Lit(x))
  BY <1>3 DEF BytesTracked
<1>5. ReadOnly(x) => Intact(x) /\ (b.active_count = 1 => after = b.pristine)
  <2> SUFFICES ASSUME x \in Weights
               PROVE  Intact(x) /\ (b.active_count = 1 => after = b.pristine)
    BY DEF ReadOnly
  <2>1. Intact(x)
    BY <1>4 DEF Intact
  <2>2. ASSUME b.active_count = 1 PROVE after = b.pristine
    <3>1. PICK e : On(x) = {e}
      <4>1. Cardinality(On(x)) = 1 /\ IsFiniteSet(On(x))
        BY <1>3, <2>2, OnFacts DEF BytesTracked
      <4> QED BY <4>1, FS_Singleton
    <3>2. Lit(x) = {c.bit}
      BY <1>3, <3>1 DEF Lit
    <3> QED BY <1>4, <3>2, XorFacts
  <2> QED BY <2>1, <2>2
<1>6. pc' = "remove" /\ error' = error
  BY ZenonT(40), <1>1, <1>5 DEF CheckedGoto
<1>7. after \in Byte /\ memory' \in [Alloc -> Byte]
  <2>1. memory[x] \in Byte /\ {c.bit} \in Byte
    BY SMTT(40), <1>3, ByteFacts DEF TypeOK
  <2>2. after \in Byte
    BY <2>1, XorFacts
  <2> HIDE DEF after
  <2> QED BY Zenon, <1>1, <1>3, <2>2 DEF TypeOK
<1>8. \A a \in Alloc : memory'[a] = IF a = x THEN after ELSE memory[a]
  BY Zenon, <1>1 DEF TypeOK
<1> HIDE DEF i
<1>9. /\ c.bit \in Lit(x)
      /\ \A a : On(a)' = IF a = x THEN On(a) \ {i} ELSE On(a)
      /\ \A a : Lit(a)' = IF a = x THEN Lit(a) \ {c.bit} ELSE Lit(a)
      /\ \A a : Held(a)' = Held(a)
      /\ records' \in [DOMAIN trial.cache -> Record]
      /\ cache_active' \in Seq(DOMAIN trial.cache)
      /\ visited' \in 0 .. Len(cache_active')
      /\ cache_bytes' \in [Alloc -> ByteState]
      /\ Progress'
      /\ Lifetimes'
      /\ \A a \in Alloc :
           LET d == cache_bytes'[a]
           IN /\ d.active_count = Cardinality(On(a)')
              /\ d.active_mask = Lit(a)'
              /\ a \in Weights \cup {Input} => ~d.overwritten
              /\ On(a)' # {} => d.pristine = cache_bytes[a].pristine
  <2>1. i = cache_active[visited + 1]
    BY SMTT(40) DEF i
  <2>2. CASE ReadOnly(x)
    BY ZenonT(40), <1>1, <1>6, <1>7, <2>1, <2>2, FinishRemovalFacts
  <2>3. CASE ~ReadOnly(x)
    BY ZenonT(40), <1>1, <1>6, <1>7, <2>1, <2>3, FinishRemovalFacts
  <2> QED BY <2>2, <2>3
<1>10. \A a \in Alloc : \A y : memory[a] = Xor(y, Lit(a)) => memory'[a] = Xor(y, Lit(a)')
  <2> TAKE a \in Alloc
  <2> TAKE y
  <2>1. CASE a = x
    BY <1>8, <1>9, <2>1, XorFacts
  <2>2. CASE a # x
    BY SMTT(40), <1>8, <1>9, <2>2
  <2> QED BY <2>1, <2>2
<1>11. TypeOK'
  <2>1. UNCHANGED <<trial, pristine, flipped, image, due>>
    BY <1>1
  <2>2. /\ trial' \in Trials /\ pristine' \in [Alloc -> Byte] /\ flipped' \in 0 .. Len(trial'.dram)
        /\ image' \in Image /\ due' \in BOOLEAN /\ records' \in [DOMAIN trial'.cache -> Record]
        /\ cache_active' \in Seq(DOMAIN trial'.cache)
    <3> HIDE DEF i, c, x, b, after
    <3> QED BY <1>9, <2>1, Zenon DEF TypeOK
  <2>3. pc' \in InPass \cup AfterPass \cup Outside /\ error' \in {"none", "cuda", "sanity"}
    BY <1>6 DEF TypeOK, InPass
  <2>4. visited' \in 0 .. Len(cache_active') /\ cache_bytes' \in [Alloc -> ByteState]
    BY <1>9
  <2> HIDE DEF i, c, x, b, after
  <2> QED BY <1>7, <2>2, <2>3, <2>4, Zenon DEF TypeOK
<1>12. DeviceContent'
  <2>1. \A w \in Weights : memory'[w] = Xor(Held(w)', Lit(w)')
    BY <1>9, <1>10, ByteFacts DEF DeviceContent
  <2>2. memory'[Input] = Xor(Xor(campaign_input[image], MaskOf(Input, trial.dram)), Lit(Input)')
    BY <1>1, <1>10, ByteFacts DEF DeviceContent
  <2> QED BY <1>1, <1>6, <2>1, <2>2 DEF DeviceContent
<1>13. BytesTracked'
  <2>1. \A a \in Weights \cup {Input} : On(a)' # {} => On(a) # {}
    BY <1>9
  <2>2. \A a \in Weights \cup {Input} :
          On(a)' # {} => memory'[a] = Xor(cache_bytes'[a].pristine, Lit(a)')
    BY <1>9, <1>10, <2>1, ByteFacts DEF BytesTracked
  <2> QED BY <1>9, <2>2 DEF BytesTracked
<1> QED BY SMTT(40), <1>9, <1>11, <1>12, <1>13

\* A byte with another value is one the engine writes; what it wrote stays.
LEMMA LeaveOverwrittenKeepsInv ==
  ASSUME TrialInv, LeaveOverwritten
  PROVE  TrialInv'
<1> USE DEF TrialInv
<1> DEFINE i == cache_active[visited + 1]
           c == trial.cache[i]
           x == c.alloc
<1>1. /\ Visiting /\ pc = "remove" /\ ToRemove(c)
      /\ ~ReadOnly(x) /\ ~Intact(x)
      /\ FinishRemoval(i, "overwritten", memory[x], TRUE)
      /\ UNCHANGED <<memory, trial, pristine, pc, flipped, image, visited, due, error>>
  BY DEF LeaveOverwritten, Visiting
<1>2. i \in Range(cache_active)
  <2> HIDE DEF i, c, x
  <2>1. /\ cache_active \in Seq(DOMAIN trial.cache) /\ visited \in 0 .. Len(cache_active)
        /\ visited < Len(cache_active) /\ Len(cache_active) \in Nat
    <3>1. cache_active \in Seq(DOMAIN trial.cache) /\ visited \in 0 .. Len(cache_active)
      BY DEF TypeOK
    <3>2. visited < Len(cache_active)
      BY <1>1 DEF Visiting
    <3> QED BY <3>1, <3>2
  <2>2. visited + 1 \in DOMAIN cache_active
    BY <2>1
  <2> QED BY <2>2 DEF Range, i
<1>3. x \in Alloc /\ i \in On(x)
  BY <1>2, OnFacts
<1>4. x \notin Weights \cup {Input}
  <2>1. x \in Weights \cup {Input} => Intact(x)
    BY <1>3 DEF BytesTracked, Intact
  <2> QED BY <1>1, <2>1
<1>5. memory[x] \in Byte
  BY <1>3 DEF TypeOK
<1> HIDE DEF i
<1>6. /\ \A a : On(a)' = IF a = x THEN On(a) \ {i} ELSE On(a)
      /\ \A a : Lit(a)' = IF a = x THEN Lit(a) \ {c.bit} ELSE Lit(a)
      /\ \A a : Held(a)' = Held(a)
      /\ records' \in [DOMAIN trial.cache -> Record]
      /\ cache_active' \in Seq(DOMAIN trial.cache)
      /\ visited' \in 0 .. Len(cache_active')
      /\ cache_bytes' \in [Alloc -> ByteState]
      /\ Progress'
      /\ Lifetimes'
      /\ \A a \in Alloc :
           LET d == cache_bytes'[a]
           IN /\ d.active_count = Cardinality(On(a)')
              /\ d.active_mask = Lit(a)'
              /\ a \in Weights \cup {Input} => ~d.overwritten
              /\ On(a)' # {} => d.pristine = cache_bytes[a].pristine
  <2>1. i = cache_active[visited + 1]
    BY ZenonT(30) DEF i
  <2> QED BY <1>1, <1>4, <1>5, <2>1, FinishRemovalFacts
<1>7. TypeOK'
  BY <1>1, <1>6 DEF TypeOK
<1>8. DeviceContent'
  BY <1>1, <1>4, <1>6 DEF DeviceContent
<1>9. BytesTracked'
  BY <1>1, <1>4, <1>6 DEF BytesTracked
<1> QED BY <1>6, <1>7, <1>8, <1>9

-----------------------------------------------------------------------------
(* The theorems.                                                           *)

\* The invariant is inductive.
LEMMA NextKeepsTrialInv == TrialInv /\ [Next]_vars => TrialInv'
<1> SUFFICES ASSUME TrialInv, [Next]_vars PROVE TrialInv'
  OBVIOUS
<1>1. CASE UNCHANGED vars
  <2>1. \A a : On(a)' = On(a) /\ Lit(a)' = Lit(a) /\ Held(a)' = Held(a)
    BY <1>1, SameSites DEF vars
  <2>2. TypeOK'
    BY <1>1 DEF TrialInv, TypeOK, vars
  <2>3. Progress' /\ Lifetimes'
    BY <1>1 DEF TrialInv, Progress, ToRemove, Lifetimes, vars
  <2>4. DeviceContent' /\ BytesTracked'
    BY <1>1, <2>1 DEF TrialInv, DeviceContent, BytesTracked, vars
  <2> QED BY <2>2, <2>3, <2>4 DEF TrialInv
<1>2. CASE Next
  BY <1>1, <1>2, LeavingKeepsInv, TrialBeginKeepsInv, FlipSiteKeepsInv,
     GuardCompareKeepsInv, StageInputKeepsInv, ApplyCacheKeepsInv,
     EnqueueKeepsInv, ReadbackKeepsInv, KeepCacheKeepsInv, UnflipCacheKeepsInv,
     LeaveOverwrittenKeepsInv, NextImageKeepsInv, PassEndKeepsInv,
     RestoreSiteKeepsInv, InputCheckKeepsInv, SanityHoldsKeepsInv
     DEF Next, Stop
<1> QED BY <1>1, <1>2

\* Hence it holds in every reachable state.
LEMMA TrialInvHolds == Spec => []TrialInv
BY InitSound, NextKeepsTrialInv, PTL DEF Spec

\* The fail-closed checks never trip over the runner's own flips.
THEOREM ChecksHold == Spec => []ChecksNeverSelfInflicted
<1>1. TrialInv => ChecksNeverSelfInflicted
  BY DEF TrialInv, TypeOK, ChecksNeverSelfInflicted
<1> QED BY <1>1, TrialInvHolds, PTL

\* At every enqueue the weights and the input carry exactly the faults that were
\* drawn for the image.
THEOREM ExposureIsExact == Spec => []ExactExposure
<1>1. TrialInv => ExactExposure
  <2> SUFFICES ASSUME TrialInv, NEW a \in Weights \cup {Input}
               PROVE  /\ pc = "apply" /\ ToApply = {} =>
                           memory[a] = Xor(Xor(IF a = Input THEN campaign_input[image] ELSE {},
                                               MaskOf(a, trial.dram)),
                                           CacheMask(a))
                      /\ cache_bytes[a].active_count > 0 =>
                           memory[a] = Xor(cache_bytes[a].pristine, cache_bytes[a].active_mask)
    BY DEF ExactExposure
  <2> USE DEF TrialInv
  <2>1. a \in Alloc /\ (a \in Weights => a # Input)
    BY ByteFacts
  <2>2. cache_bytes[a].active_count > 0 => On(a) # {}
    BY <2>1, OnFacts DEF BytesTracked
  <2>3. ASSUME pc = "apply", ToApply = {}
        PROVE  Lit(a) = CacheMask(a)
    <3>1. \A i \in DOMAIN trial.cache :
            i \in Range(cache_active) <=>
              trial.cache[i].start <= image /\ image <= trial.cache[i].last
      <4> TAKE i \in DOMAIN trial.cache
      <4>1. i \in Range(cache_active) =>
              trial.cache[i].start <= image /\ image <= trial.cache[i].last
        BY OnFacts
      <4>2. ASSUME trial.cache[i].start <= image, image <= trial.cache[i].last
            PROVE  i \in Range(cache_active)
        <5>1. /\ trial.cache[i].start \in Nat /\ trial.cache[i].last \in Nat /\ image \in Nat
          BY TrialFacts, TrialAssumption DEF TypeOK, Image
        <5>2. records[i].applied
          BY <2>3, <4>2, <5>1 DEF Lifetimes, ToApply
        <5> QED BY <2>3, <4>2, <5>1, <5>2 DEF Lifetimes, AfterPass
      <4> QED BY <4>1, <4>2
    <3>2. \A i \in Range(cache_active) : i \in DOMAIN trial.cache
      BY OnFacts
    <3> QED BY <3>1, <3>2 DEF Lit, On, CacheMask, Range
  <2>4. ASSUME pc = "apply", ToApply = {}
        PROVE  memory[a] = Xor(Xor(IF a = Input THEN campaign_input[image] ELSE {},
                                   MaskOf(a, trial.dram)),
                               CacheMask(a))
    <3>1. CASE a = Input
      BY <2>3, <2>4, <3>1 DEF DeviceContent
    <3>2. CASE a # Input
      <4>1. Held(a) = MaskOf(a, trial.dram)
        BY <2>4, AllHeld DEF Progress, InPass, TypeOK
      <4>2. Xor({}, Held(a)) = Held(a)
        BY DEF Xor
      <4> QED BY <2>3, <2>4, <3>2, <4>1, <4>2 DEF DeviceContent
    <3> QED BY <3>1, <3>2
  <2> QED BY <2>1, <2>2, <2>4 DEF BytesTracked
<1> QED BY <1>1, TrialInvHolds, PTL

\* Between trials the weights are clean, and a completed trial has removed every
\* cache site it applied, at the image that was due.
THEOREM NoTraceLeft == Spec => []TrialLeavesNoTrace
<1>1. TrialInv => TrialLeavesNoTrace
  <2> SUFFICES ASSUME TrialInv PROVE TrialLeavesNoTrace
    OBVIOUS
  <2> USE DEF TrialInv
  <2>1. ASSUME pc \in {"idle", "ended"}
        PROVE  \A a \in Weights : memory[a] = {}
    <3>1. cache_active = <<>> /\ flipped = 0
      BY <2>1 DEF Progress, Outside, AfterPass
    <3> QED BY ZenonT(40), <3>1, NothingOn, XorFacts DEF DeviceContent
  <2>2. ASSUME pc = "ended", NEW i \in DOMAIN records
        PROVE  LET c == trial.cache[i] IN
               IF c.start > image
               THEN records[i] = NoRecord /\ due
               ELSE /\ records[i].applied /\ records[i].removal # "not_applied"
                    /\ records[i].removal_image = IF c.last > image THEN image ELSE c.last
    <3>1. i \in DOMAIN trial.cache
      BY DEF TypeOK
    <3>2. /\ trial.cache[i].start \in Nat /\ trial.cache[i].start < Images
          /\ trial.cache[i].last \in Nat /\ image \in Nat
      BY <3>1, TrialFacts, TrialAssumption DEF TypeOK, Image
    <3>3. Range(cache_active) = {} /\ (due \/ image + 1 = Images)
      BY <2>2 DEF Progress, AfterPass, Range
    <3>4. /\ ~records[i].applied => records[i] = NoRecord
          /\ records[i].applied <=> trial.cache[i].start <= image
          /\ records[i].applied =>
               /\ records[i].removal # "not_applied"
               /\ records[i].removal_image =
                    IF trial.cache[i].last > image THEN image ELSE trial.cache[i].last
      BY <2>2, <3>1, <3>2, <3>3 DEF Lifetimes, AfterPass
    <3> QED BY <3>2, <3>3, <3>4, TrialAssumption
  <2> QED BY <2>1, <2>2 DEF TrialLeavesNoTrace
<1> QED BY <1>1, TrialInvHolds, PTL

-----------------------------------------------------------------------------
(* The replay of the cache rows.                                           *)

\* The operations of the trial so far, as the rows tell them.
OpType == [kind : {"apply", "remove"}, index : DOMAIN trial.cache]

Done(op) ==
  IF op.kind = "apply" THEN records[op.index].applied
                       ELSE records[op.index].removal # "not_applied"

ReplayBytes == [pristine : Byte, value : Byte, active : Nat, overwritten : BOOLEAN]

\* The replay has come to the byte states of the runner.
Agrees(acc) ==
  /\ acc \in [ok : BOOLEAN, bytes : [Alloc -> ReplayBytes]] /\ acc.ok
  /\ \A a \in Alloc :
       LET r == acc.bytes[a]
           b == cache_bytes[a]
       IN /\ r.active = b.active_count /\ r.overwritten = b.overwritten
          /\ r.active = 0 => ~r.overwritten
          /\ r.active > 0 => /\ r.pristine = b.pristine
                             /\ ~r.overwritten => r.value = Xor(b.pristine, b.active_mask)

\* ops are the operations done so far in the order of their keys, and accs what
\* the replay holds after each of them.
Log(n, ops, accs) ==
  /\ n \in Nat /\ ops \in [1 .. n -> OpType]
  /\ accs[0] = ReplayStart
  /\ \A k \in 1 .. n : accs[k] = ReplayStep(accs[k - 1], ops[k])
  /\ \A j \in 1 .. n, k \in 1 .. n : j < k => Before(ops[j], ops[k])
  /\ \A op \in OpType : Done(op) <=> \E k \in 1 .. n : ops[k] = op
  /\ Agrees(accs[n])

\* Site i is applied before site j.
Earlier(i, j) ==
  \/ trial.cache[i].start < trial.cache[j].start
  \/ trial.cache[i].start = trial.cache[j].start /\ i < j

\* Sites are applied, stand in cache_active and are removed from an image in
\* this order.
Ordered ==
  /\ \A i \in DOMAIN trial.cache, j \in DOMAIN trial.cache :
       records[i].applied /\ ~records[j].applied => Earlier(i, j)
  /\ \A k \in DOMAIN cache_active, m \in DOMAIN cache_active :
       k < m => Earlier(cache_active[k], cache_active[m])
  /\ pc = "remove" =>
       \A i \in DOMAIN trial.cache : \A k \in DOMAIN cache_active :
         /\ records[i].removal # "not_applied" /\ records[i].removal_image = image
         /\ k > visited
         => Earlier(i, cache_active[k])

\* The values of a row differ as its flip and its removal say.
RowsRight ==
  \A i \in DOMAIN trial.cache :
    LET c == trial.cache[i]
        r == records[i]
    IN /\ r.applied => r.after = Xor(r.before, {c.bit})
       /\ r.removal # "not_applied" =>
            IF ReadOnly(c.alloc)
            THEN r.removal = "re_xor" /\ r.remove_after = Xor(r.remove_before, {c.bit})
            ELSE \/ r.removal = "restored" /\ r.remove_after = Xor(r.remove_before, {c.bit})
                 \/ r.removal = "overwritten" /\ r.remove_after = r.remove_before

ReplayInv == Ordered /\ RowsRight /\ \E n, ops, accs : Log(n, ops, accs)

\* XOR is associative.
LEMMA XorTwice == \A x, y, z : Xor(Xor(x, y), z) = Xor(x, Xor(y, z))
BY DEF Xor

\* Before a trial has applied a site, the replay has nothing to do.
LEMMA FreshReplay ==
  ASSUME cache_active = <<>>, \A i \in DOMAIN trial.cache : records[i] = NoRecord,
         \A a \in Alloc : cache_bytes[a].active_count = 0 /\ ~cache_bytes[a].overwritten,
         \A a \in Alloc : cache_bytes[a].overwritten \in BOOLEAN
  PROVE  ReplayInv
<1>1. Ordered
  BY DEF Ordered, NoRecord
<1>2. RowsRight
  BY DEF RowsRight, NoRecord
<1> DEFINE ops == [k \in 1 .. 0 |-> 0]
           accs == [k \in {0} |-> ReplayStart]
<1>3. Agrees(accs[0])
  <2>1. NoReplay \in ReplayBytes
    BY DEF NoReplay, ReplayBytes, Byte
  <2>2. ReplayStart \in [ok : BOOLEAN, bytes : [Alloc -> ReplayBytes]]
    BY <2>1 DEF ReplayStart
  <2>3. /\ accs[0] = ReplayStart /\ ReplayStart.ok
        /\ \A a \in Alloc : ReplayStart.bytes[a] = NoReplay
    BY DEF ReplayStart
  <2>4. NoReplay.active = 0 /\ NoReplay.overwritten = FALSE
    BY DEF NoReplay
  <2>5. \A a \in Alloc : cache_bytes[a].overwritten = FALSE
    OBVIOUS
  <2> HIDE DEF accs
  <2>6. ASSUME NEW a \in Alloc
        PROVE  LET r == ReplayStart.bytes[a]
                   d == cache_bytes[a]
               IN /\ r.active = d.active_count /\ r.overwritten = d.overwritten
                  /\ r.active = 0 /\ ~r.overwritten /\ ~(r.active > 0)
    <3>1. ReplayStart.bytes[a] = NoReplay
      BY <2>3
    <3>2. NoReplay.overwritten = cache_bytes[a].overwritten /\ ~NoReplay.overwritten
      BY <2>4, <2>5, Zenon
    <3>3. NoReplay.active = cache_bytes[a].active_count /\ ~(NoReplay.active > 0)
      BY <2>4
    <3> QED
      BY <2>4, <3>1, <3>2, <3>3, Zenon
  <2> QED
    BY <2>2, <2>3, <2>6 DEF Agrees
<1>4. Log(0, ops, accs)
  <2>1. ops \in [1 .. 0 -> OpType]
    OBVIOUS
  <2>2. \A op \in OpType : ~Done(op)
    BY DEF OpType, Done, NoRecord
  <2> QED
    BY <1>3, <2>1, <2>2 DEF Log
<1> QED
  BY <1>1, <1>2, <1>4 DEF ReplayInv

\* The order of two keys, place by place.
LEMMA LexIs ==
  ASSUME NEW a \in Int, NEW b \in Int, NEW c \in Int, NEW d \in Int,
         NEW e \in Int, NEW f \in Int, NEW g \in Int, NEW h \in Int
  PROVE  LexLess(<<a, b, c, d>>, <<e, f, g, h>>) <=>
           \/ a < e
           \/ a = e /\ b < f
           \/ a = e /\ b = f /\ c < g
           \/ a = e /\ b = f /\ c = g /\ d < h
<1> DEFINE s == <<a, b, c, d>>
           t == <<e, f, g, h>>
           At(k) == s[k] < t[k] /\ \A m \in 1 .. (k - 1) : s[m] = t[m]
<1>1. DOMAIN s = 1 .. 4
  OBVIOUS
<1>2. LexLess(s, t) <=> At(1) \/ At(2) \/ At(3) \/ At(4)
  <2>1. \A k \in 1 .. 4 : k = 1 \/ k = 2 \/ k = 3 \/ k = 4
    OBVIOUS
  <2> QED
    BY <1>1, <2>1 DEF LexLess
<1>3. At(1) <=> a < e
  OBVIOUS
<1>4. At(2) <=> b < f /\ a = e
  <2>1. 1 .. (2 - 1) = {1}
    OBVIOUS
  <2> QED
    BY <2>1
<1>5. At(3) <=> c < g /\ a = e /\ b = f
  <2>1. 1 .. (3 - 1) = {1, 2}
    OBVIOUS
  <2> QED
    BY <2>1
<1>6. At(4) <=> d < h /\ a = e /\ b = f /\ c = g
  <2>1. 1 .. (4 - 1) = {1, 2, 3}
    OBVIOUS
  <2> QED
    BY <2>1
<1> QED
  BY <1>2, <1>3, <1>4, <1>5, <1>6

\* The numbers of a key.
LEMMA KeyTypes ==
  ASSUME TrialInv, NEW i \in DOMAIN trial.cache
  PROVE  /\ i \in Nat /\ trial.cache[i].start \in Nat /\ trial.cache[i].last \in Nat
         /\ trial.cache[i].start <= trial.cache[i].last /\ trial.cache[i].last < Images
         /\ records[i] \in Record /\ records[i].removal_image \in Nat
         /\ image \in Nat /\ image < Images
         /\ trial.cache[i].alloc \in Alloc /\ trial.cache[i].bit \in Bits
<1>1. /\ trial.cache \in Seq(CacheSite)
      /\ trial.cache[i].start \in Image /\ trial.cache[i].last \in Image
      /\ trial.cache[i].start <= trial.cache[i].last
      /\ trial.cache[i].alloc \in Alloc /\ trial.cache[i].bit \in Bits
  BY TrialFacts DEF TrialInv, TypeOK
<1>2. i \in Nat
  BY <1>1
<1>3. records[i] \in Record /\ image \in Image
  BY DEF TrialInv, TypeOK
<1>4. records[i].removal_image \in Image
  BY <1>3 DEF Record
<1>5. \A x \in Image : x \in Nat /\ x < Images
  BY TrialAssumption DEF Image
<1> QED
  BY <1>1, <1>2, <1>3, <1>4, <1>5

\* No two operations come before each other.
LEMMA BeforeOneWay ==
  ASSUME TrialInv, NEW p \in OpType, NEW q \in OpType, Before(p, q)
  PROVE  ~Before(q, p)
<1>1. ASSUME NEW op \in OpType
      PROVE  \E a \in Int, b \in Int, c \in Int, d \in Int : Key(op) = <<a, b, c, d>>
  <2>1. op.index \in DOMAIN trial.cache
    BY DEF OpType
  <2>2. /\ op.index \in Int /\ trial.cache[op.index].start \in Int
        /\ records[op.index].removal_image \in Int
    BY <2>1, KeyTypes
  <2> QED
    BY <2>2 DEF Key
<1>2. PICK a \in Int, b \in Int, c \in Int, d \in Int : Key(p) = <<a, b, c, d>>
  BY <1>1
<1>3. PICK e \in Int, f \in Int, g \in Int, h \in Int : Key(q) = <<e, f, g, h>>
  BY <1>1
<1> DEFINE s == <<a, b, c, d>>
           t == <<e, f, g, h>>
<1>4. s \in [1 .. 4 -> Int] /\ t \in [1 .. 4 -> Int]
  OBVIOUS
<1>5. Key(p) = s /\ Key(q) = t
  BY <1>2, <1>3
<1> HIDE DEF s, t
<1> SUFFICES ASSUME LexLess(s, t), LexLess(t, s) PROVE FALSE
  BY <1>5 DEF Before
<1>6. PICK k \in 1 .. 4 : s[k] < t[k] /\ \A m \in 1 .. (k - 1) : s[m] = t[m]
  BY <1>4 DEF LexLess
<1>7. PICK l \in 1 .. 4 : t[l] < s[l] /\ \A m \in 1 .. (l - 1) : t[m] = s[m]
  BY <1>4 DEF LexLess
<1>8. k < l \/ k = l \/ l < k
  OBVIOUS
<1>9. s[k] \in Int /\ t[k] \in Int /\ s[l] \in Int /\ t[l] \in Int
  BY <1>4
<1> QED
  BY <1>6, <1>7, <1>8, <1>9

\* A removed site was applied, and removed from no later image.
LEMMA RemovedIs ==
  ASSUME TrialInv, NEW i \in DOMAIN trial.cache, records[i].removal # "not_applied"
  PROVE  /\ records[i].applied /\ trial.cache[i].start <= image
         /\ i \notin Range(cache_active)
         /\ records[i].removal_image <= image
         /\ pc \in {"stage", "apply", "readback"} => records[i].removal_image < image
<1>1. /\ records[i].applied /\ i \notin Range(cache_active)
      /\ trial.cache[i].start <= image
  BY DEF TrialInv, Lifetimes, NoRecord
<1>2. /\ records[i].removal_image =
           IF trial.cache[i].last > image THEN image ELSE trial.cache[i].last
      /\ trial.cache[i].last < image \/ pc \in AfterPass \cup {"remove"}
  BY <1>1 DEF TrialInv, Lifetimes
<1>3. trial.cache[i].last \in Nat /\ image \in Nat
  BY KeyTypes
<1> QED
  BY <1>1, <1>2, <1>3 DEF AfterPass

-----------------------------------------------------------------------------
(* The log through a step.                                                 *)

\* Where no site is applied or removed, the log stays.
LEMMA LogStays ==
  ASSUME UNCHANGED <<trial, records, cache_active, cache_bytes>>, ReplayInv,
         pc' = "remove" =>
           /\ image' = image
           /\ \/ pc = "remove" /\ visited' >= visited /\ visited \in Nat /\ visited' \in Nat
              \/ \A i \in DOMAIN trial.cache :
                   ~(records[i].removal # "not_applied" /\ records[i].removal_image = image),
         cache_active \in Seq(DOMAIN trial.cache)
  PROVE  ReplayInv'
<1>1. \A i, j : Earlier(i, j)' <=> Earlier(i, j)
  BY DEF Earlier
<1>2. DOMAIN cache_active \subseteq Nat
  OBVIOUS
<1>3. Ordered'
  <2>1. /\ \A i \in DOMAIN trial.cache, j \in DOMAIN trial.cache :
             records[i].applied /\ ~records[j].applied => Earlier(i, j)
        /\ \A k \in DOMAIN cache_active, m \in DOMAIN cache_active :
             k < m => Earlier(cache_active[k], cache_active[m])
    BY DEF ReplayInv, Ordered
  <2>2. ASSUME pc' = "remove", NEW i \in DOMAIN trial.cache, NEW k \in DOMAIN cache_active,
               records[i].removal # "not_applied", records[i].removal_image = image,
               k > visited'
        PROVE  Earlier(i, cache_active[k])
    <3>1. pc = "remove" /\ visited' >= visited /\ visited \in Nat /\ visited' \in Nat
      BY <2>2
    <3>2. k > visited
      BY <1>2, <2>2, <3>1
    <3> QED
      BY <2>2, <3>1, <3>2 DEF ReplayInv, Ordered
  <2>3. pc' = "remove" => image' = image
    OBVIOUS
  <2> QED
    BY <1>1, <2>1, <2>2, <2>3 DEF Ordered
<1>4. RowsRight'
  BY DEF ReplayInv, RowsRight
<1>5. PICK n, ops, accs : Log(n, ops, accs)
  BY DEF ReplayInv
<1>6. Log(n, ops, accs)'
  <2>1. OpType' = OpType
    BY DEF OpType
  <2>2. \A op : Done(op)' <=> Done(op)
    BY DEF Done
  <2>3. \A p, q : Before(p, q)' <=> Before(p, q)
    BY DEF Before, Key
  <2>4. \A acc, op : ReplayStep(acc, op)' = ReplayStep(acc, op)
    BY DEF ReplayStep, ReplayApply, ReplayRemove
  <2>5. \A acc : Agrees(acc)' <=> Agrees(acc)
    BY DEF Agrees
  <2>6. ReplayStart' = ReplayStart
    BY DEF ReplayStart
  <2> QED
    BY <1>5, <2>1, <2>2, <2>3, <2>4, <2>5, <2>6 DEF Log
<1> QED
  BY <1>3, <1>4, <1>6 DEF ReplayInv

\* An operation that comes after all others is the next of the log.
LEMMA LogGrows ==
  ASSUME NEW n, NEW ops, NEW accs, Log(n, ops, accs), trial' = trial,
         NEW op \in OpType, ~Done(op), Done(op)',
         \A q \in OpType : q # op => (Done(q)' <=> Done(q)),
         \A q \in OpType : Done(q) => Key(q)' = Key(q),
         \A q \in OpType : \A acc : Done(q) => ReplayStep(acc, q)' = ReplayStep(acc, q),
         \A q \in OpType : Done(q) => Before(q, op)',
         NEW next, next = ReplayStep(accs[n], op)', Agrees(next)'
  PROVE  \E m, os, as : Log(m, os, as)'
<1> DEFINE m == n + 1
           os == [k \in 1 .. m |-> IF k = m THEN op ELSE ops[k]]
           as == [k \in 0 .. m |-> IF k = m THEN next ELSE accs[k]]
<1>1. /\ n \in Nat /\ ops \in [1 .. n -> OpType] /\ accs[0] = ReplayStart
      /\ \A k \in 1 .. n : accs[k] = ReplayStep(accs[k - 1], ops[k])
      /\ \A j \in 1 .. n, k \in 1 .. n : j < k => Before(ops[j], ops[k])
      /\ \A q \in OpType : Done(q) <=> \E k \in 1 .. n : ops[k] = q
  BY DEF Log
<1>2. OpType' = OpType /\ ReplayStart' = ReplayStart
  BY DEF OpType, ReplayStart
<1>3. /\ m \in Nat /\ m \in 1 .. m /\ os[m] = op /\ as[m] = next
      /\ \A k \in 1 .. n : k \in 1 .. m /\ os[k] = ops[k] /\ k # m
      /\ \A k \in 0 .. n : as[k] = accs[k]
      /\ 0 \in 0 .. n /\ n \in 0 .. n /\ m - 1 = n /\ as[0] = accs[0] /\ as[n] = accs[n]
      /\ \A k \in 1 .. m : k = m \/ k \in 1 .. n
  BY <1>1
<1>4. \A k \in 1 .. n : ops[k] \in OpType /\ Done(ops[k])
  BY <1>1
<1> HIDE DEF os, as
<1>5. os \in [1 .. m -> OpType]
  BY <1>1 DEF os
<1>6. as[0] = ReplayStart
  BY <1>1, <1>3
<1>7. ASSUME NEW k \in 1 .. m PROVE as[k] = ReplayStep(as[k - 1], os[k])'
  <2>1. CASE k = m
    <3>1. as[k - 1] = accs[n] /\ os[k] = op /\ as[k] = next
      BY <1>1, <1>3, <2>1
    <3> QED
      BY <3>1
  <2>2. CASE k \in 1 .. n
    <3>1. k \in 0 .. n /\ k - 1 \in 0 .. n
      BY <1>1, <2>2
    <3>2. as[k] = accs[k] /\ as[k - 1] = accs[k - 1] /\ os[k] = ops[k]
      BY <1>3, <2>2, <3>1
    <3>3. accs[k] = ReplayStep(accs[k - 1], ops[k])
      BY <1>1, <2>2
    <3>4. ReplayStep(accs[k - 1], ops[k])' = ReplayStep(accs[k - 1], ops[k])
      BY <1>4, <2>2
    <3> QED
      BY <3>2, <3>3, <3>4
  <2> QED
    BY <1>3, <2>1, <2>2
<1>8. ASSUME NEW j \in 1 .. m, NEW k \in 1 .. m, j < k PROVE Before(os[j], os[k])'
  <2>1. j \in 1 .. n
    BY <1>1, <1>8
  <2>2. os[j] = ops[j] /\ ops[j] \in OpType /\ Done(ops[j])
    BY <1>3, <1>4, <2>1
  <2>3. CASE k = m
    BY <1>3, <2>2, <2>3
  <2>4. CASE k \in 1 .. n
    <3>1. Before(ops[j], ops[k])
      BY <1>1, <1>8, <2>1, <2>4
    <3>2. Key(ops[j])' = Key(ops[j]) /\ Key(ops[k])' = Key(ops[k])
      BY <1>4, <2>2, <2>4
    <3>3. Before(ops[j], ops[k])'
      BY <3>1, <3>2 DEF Before, LexLess
    <3> QED
      BY <1>3, <2>2, <2>4, <3>3
  <2> QED
    BY <1>3, <2>3, <2>4
<1>9. ASSUME NEW q \in OpType PROVE Done(q)' <=> \E k \in 1 .. m : os[k] = q
  <2>1. CASE q = op
    BY <1>3, <2>1
  <2>2. CASE q # op
    BY <1>1, <1>3, <2>2
  <2> QED
    BY <2>1, <2>2
<1>10. Agrees(as[m])'
  BY <1>3
<1>11. Log(m, os, as)'
  BY <1>2, <1>3, <1>5, <1>6, <1>7, <1>8, <1>9, <1>10 DEF Log
<1> QED
  BY <1>11

\* What applying site i does to the state of its byte.
SiteApplied(i) ==
  LET c       == trial.cache[i]
      b       == cache_bytes[c.alloc]
      before  == memory[c.alloc]
      changed == /\ b.active_count > 0
                 /\ ~b.overwritten
                 /\ before # Xor(b.pristine, b.active_mask)
  IN /\ ~(changed /\ ReadOnly(c.alloc))
     /\ cache_bytes' = [cache_bytes EXCEPT ![c.alloc] =
          [pristine     |-> IF b.active_count = 0 THEN before ELSE b.pristine,
           active_mask  |-> Xor(b.active_mask, {c.bit}),
           active_count |-> b.active_count + 1,
           overwritten  |-> b.overwritten \/ changed]]

\* What removing site i with this row does to the state of its byte.
SiteRemoved(i, row, mark) ==
  LET c == trial.cache[i]
      b == cache_bytes[c.alloc]
  IN /\ row.remove_before = memory[c.alloc]
     /\ IF ReadOnly(c.alloc) THEN row.removal = "re_xor"
                             ELSE row.removal \in {"restored", "overwritten"}
     /\ mark <=> row.removal = "overwritten"
     /\ ~mark => /\ Intact(c.alloc)
                 /\ row.remove_after = Xor(memory[c.alloc], {c.bit})
     /\ mark => ~Intact(c.alloc)
     /\ ReadOnly(c.alloc) /\ b.active_count = 1 => row.remove_after = b.pristine
     /\ row.remove_after \in Byte
     /\ cache_bytes' = [cache_bytes EXCEPT ![c.alloc] =
          IF b.active_count = 1 THEN NoByteState
          ELSE [b EXCEPT !.active_mask = Xor(@, {c.bit}),
                         !.active_count = @ - 1,
                         !.overwritten = @ \/ mark]]

\* The replay applies a site as the runner did, and finds the byte changed when
\* the runner found it so.
LEMMA ApplyAgrees ==
  ASSUME TrialInv, NEW i \in DOMAIN trial.cache, NEW acc, Agrees(acc),
         NEW row, row.before = memory[trial.cache[i].alloc],
         row.after = Xor(memory[trial.cache[i].alloc], {trial.cache[i].bit}),
         SiteApplied(i)
  PROVE  \A next : next = ReplayApply(acc, trial.cache[i], row) => Agrees(next)'
<1> DEFINE c == trial.cache[i]
           x == c.alloc
           b == cache_bytes[x]
           r == acc.bytes[x]
           before == memory[x]
           changed == /\ b.active_count > 0
                      /\ ~b.overwritten
                      /\ before # Xor(b.pristine, b.active_mask)
           d == [pristine     |-> IF b.active_count = 0 THEN before ELSE b.pristine,
                 active_mask  |-> Xor(b.active_mask, {c.bit}),
                 active_count |-> b.active_count + 1,
                 overwritten  |-> b.overwritten \/ changed]
           e == [pristine    |-> IF r.active = 0 THEN before ELSE r.pristine,
                 value       |-> Xor(before, {c.bit}),
                 active      |-> r.active + 1,
                 overwritten |-> r.overwritten \/ changed]
<1>1. x \in Alloc /\ c.bit \in Bits /\ before \in Byte /\ {c.bit} \in Byte
  BY KeyTypes DEF TrialInv, TypeOK, Byte
<1>2. /\ acc \in [ok : BOOLEAN, bytes : [Alloc -> ReplayBytes]] /\ acc.ok
      /\ r \in ReplayBytes /\ b \in ByteState
  BY <1>1 DEF Agrees, TrialInv, TypeOK
<1>3. /\ r.active = b.active_count /\ r.overwritten = b.overwritten
      /\ r.active = 0 => ~r.overwritten
      /\ r.active > 0 => /\ r.pristine = b.pristine
                         /\ ~r.overwritten => r.value = Xor(b.pristine, b.active_mask)
  BY <1>1 DEF Agrees
<1>4. (r.active > 0 /\ ~r.overwritten /\ before # r.value) <=> changed
  BY <1>3
<1>5. b.active_count = 0 => b.active_mask = {}
  <2>1. b.active_count = Cardinality(On(x)) /\ b.active_mask = Lit(x)
    BY <1>1 DEF TrialInv, BytesTracked
  <2>2. On(x) = {} => Lit(x) = {}
    BY DEF Lit
  <2>3. Cardinality(On(x)) = 0 <=> On(x) = {}
    BY OnFacts
  <2> QED
    BY <2>1, <2>2, <2>3
<1>6. /\ r.active \in Nat /\ r.pristine \in Byte /\ r.overwritten \in BOOLEAN
      /\ b.active_count \in Nat
  BY <1>2 DEF ReplayBytes, ByteState
<1>7. e \in ReplayBytes
  <2>1. Xor(before, {c.bit}) \in Byte
    BY <1>1, XorFacts
  <2>2. (r.overwritten \/ changed) \in BOOLEAN /\ r.active + 1 \in Nat
    BY <1>6, SMTT(30)
  <2>3. (IF r.active = 0 THEN before ELSE r.pristine) \in Byte
    BY <1>1, <1>6
  <2> HIDE DEF changed
  <2> QED
    BY <2>1, <2>2, <2>3 DEF ReplayBytes
<1> SUFFICES ASSUME NEW next, next = ReplayApply(acc, c, row) PROVE Agrees(next)'
  OBVIOUS
<1>8. next = [ok |-> acc.ok /\ ~(changed /\ ReadOnly(x)), bytes |-> [acc.bytes EXCEPT ![x] = e]]
  <2>1. next = [ok |-> acc.ok /\ ~((r.active > 0 /\ ~r.overwritten /\ before # r.value) /\ ReadOnly(x)),
                bytes |-> [acc.bytes EXCEPT ![x] =
                  [pristine    |-> IF r.active = 0 THEN before ELSE r.pristine,
                   value       |-> Xor(before, {c.bit}),
                   active      |-> r.active + 1,
                   overwritten |-> r.overwritten \/ (r.active > 0 /\ ~r.overwritten /\ before # r.value)]]]
    BY Zenon DEF ReplayApply
  <2>2. (r.active > 0 /\ ~r.overwritten /\ before # r.value) = changed
    BY <1>4
  <2> HIDE DEF changed
  <2> QED
    BY <2>1, <2>2, Zenon
<1>9. ~(changed /\ ReadOnly(x)) /\ cache_bytes' = [cache_bytes EXCEPT ![x] = d]
  BY Zenon DEF SiteApplied
<1>10. e.overwritten = d.overwritten /\ e.active = d.active_count /\ e.active > 0
  <2> HIDE DEF changed
  <2> QED
    BY <1>3, <1>6, SMTT(30)
<1>11. e.pristine = d.pristine
  <2>1. e.pristine = IF r.active = 0 THEN before ELSE r.pristine
    OBVIOUS
  <2>2. d.pristine = IF b.active_count = 0 THEN before ELSE b.pristine
    OBVIOUS
  <2>3. r.active # 0 => r.pristine = b.pristine
    BY <1>3, <1>6, SMTT(30)
  <2> HIDE DEF d, e
  <2> QED
    BY <1>3, <2>1, <2>2, <2>3
<1>12. ASSUME ~e.overwritten PROVE e.value = Xor(d.pristine, d.active_mask)
  <2>1. ~b.overwritten /\ ~changed
    BY <1>3, <1>12
  <2>2. d.active_mask = Xor(b.active_mask, {c.bit}) /\ e.value = Xor(before, {c.bit})
    OBVIOUS
  <2>3. CASE b.active_count = 0
    <3>1. d.pristine = before
      BY <2>3
    <3>2. Xor({}, {c.bit}) = {c.bit}
      BY DEF Xor
    <3> QED
      BY <1>5, <2>2, <2>3, <3>1, <3>2
  <2>4. CASE b.active_count # 0
    <3>1. d.pristine = b.pristine
      BY <2>4
    <3>2. before = Xor(b.pristine, b.active_mask)
      BY <1>6, <2>1, <2>4, SMTT(30)
    <3> QED
      BY <2>2, <3>1, <3>2, XorTwice, SMTT(30)
  <2> QED
    BY <2>3, <2>4
<1> HIDE DEF d, e, changed
<1>13. next.ok = TRUE /\ next.bytes = [acc.bytes EXCEPT ![x] = e]
  BY <1>2, <1>8, <1>9, SMTT(30)
<1>14. next \in [ok : BOOLEAN, bytes : [Alloc -> ReplayBytes]]
  <2>1. [acc.bytes EXCEPT ![x] = e] \in [Alloc -> ReplayBytes]
    BY <1>2, <1>7
  <2>2. next = [ok |-> TRUE, bytes |-> [acc.bytes EXCEPT ![x] = e]]
    BY <1>2, <1>8, <1>9
  <2> QED
    BY <2>1, <2>2, SMTT(30)
<1>15. ASSUME NEW a \in Alloc
       PROVE  LET s == next.bytes[a]
                  t == cache_bytes'[a]
              IN /\ s.active = t.active_count /\ s.overwritten = t.overwritten
                 /\ s.active = 0 => ~s.overwritten
                 /\ s.active > 0 => /\ s.pristine = t.pristine
                                    /\ ~s.overwritten => s.value = Xor(t.pristine, t.active_mask)
  <2>1. CASE a = x
    <3>1. next.bytes[a] = e /\ cache_bytes'[a] = d
      BY <1>1, <1>2, <1>9, <1>13, <2>1, SMTT(30) DEF TrialInv, TypeOK
    <3> QED
      BY <1>10, <1>11, <1>12, <3>1, SMTT(30)
  <2>2. CASE a # x
    <3>1. next.bytes[a] = acc.bytes[a] /\ cache_bytes'[a] = cache_bytes[a]
      BY <1>1, <1>2, <1>9, <1>13, <2>2 DEF TrialInv, TypeOK
    <3> QED
      BY <3>1, ZenonT(30) DEF Agrees
  <2> QED
    BY <2>1, <2>2
<1> QED
  BY <1>13, <1>14, <1>15 DEF Agrees

\* A removal that the replay makes as the runner did: it finds a byte intact when
\* the runner found it intact, and what the runner does about that in order.
LEMMA RemoveAgrees ==
  ASSUME TrialInv, NEW i \in DOMAIN trial.cache, i \in Range(cache_active),
         NEW acc, Agrees(acc), NEW row, NEW mark \in BOOLEAN,
         SiteRemoved(i, row, mark)
  PROVE  \A next : next = ReplayRemove(acc, trial.cache[i], row) => Agrees(next)'
<1> DEFINE c == trial.cache[i]
           x == c.alloc
           b == cache_bytes[x]
           r == acc.bytes[x]
           intact == ~r.overwritten /\ row.remove_before = r.value
           d == IF b.active_count = 1 THEN NoByteState
                ELSE [b EXCEPT !.active_mask = Xor(@, {c.bit}), !.active_count = @ - 1,
                               !.overwritten = @ \/ mark]
           e == IF r.active = 1 THEN NoReplay
                ELSE [r EXCEPT !.value = row.remove_after, !.active = @ - 1,
                               !.overwritten = @ \/ row.removal = "overwritten"]
           fine == /\ acc.ok /\ r.active > 0
                   /\ IF ReadOnly(x) THEN intact ELSE (row.removal = "restored") = intact
                   /\ r.active = 1 /\ ReadOnly(x) => row.remove_after = r.pristine
<1>1. x \in Alloc /\ c.bit \in Bits /\ row.remove_before = memory[x] /\ row.remove_after \in Byte
  BY KeyTypes DEF SiteRemoved
<1>2. /\ acc \in [ok : BOOLEAN, bytes : [Alloc -> ReplayBytes]] /\ acc.ok
      /\ r \in ReplayBytes /\ b \in ByteState
  BY <1>1 DEF Agrees, TrialInv, TypeOK
<1>3. /\ r.active = b.active_count /\ r.overwritten = b.overwritten
      /\ r.active > 0 => /\ r.pristine = b.pristine
                         /\ ~r.overwritten => r.value = Xor(b.pristine, b.active_mask)
  BY <1>1 DEF Agrees
<1>4. /\ r.active \in Nat /\ r.pristine \in Byte /\ r.overwritten \in BOOLEAN
      /\ b.active_count \in Nat /\ r.value \in Byte
  BY <1>2 DEF ReplayBytes, ByteState
<1>5. r.active > 0
  <2>1. b.active_count = Cardinality(On(x))
    BY <1>1 DEF TrialInv, BytesTracked
  <2>2. On(x) # {}
    BY OnFacts
  <2>3. Cardinality(On(x)) # 0
    BY <2>2, OnFacts
  <2> QED
    BY <1>3, <1>4, <2>1, <2>3, SMTT(30)
<1>6. intact <=> Intact(x)
  BY <1>1, <1>3, <1>5 DEF Intact
<1>7. /\ mark <=> row.removal = "overwritten"
      /\ mark <=> ~Intact(x)
      /\ ~mark => row.remove_after = Xor(memory[x], {c.bit})
      /\ IF ReadOnly(x) THEN row.removal = "re_xor" ELSE row.removal \in {"restored", "overwritten"}
      /\ ReadOnly(x) /\ b.active_count = 1 => row.remove_after = b.pristine
      /\ cache_bytes' = [cache_bytes EXCEPT ![x] = d]
  BY Zenon DEF SiteRemoved
<1> SUFFICES ASSUME NEW next, next = ReplayRemove(acc, c, row) PROVE Agrees(next)'
  OBVIOUS
<1>8. next = [ok |-> fine, bytes |-> [acc.bytes EXCEPT ![x] = e]]
  BY Zenon DEF ReplayRemove
<1>9. fine
  <2> HIDE DEF intact
  <2>1. ReadOnly(x) => intact
    BY <1>6, <1>7
  <2>2. ~ReadOnly(x) => (row.removal = "restored") = intact
    <3>1. ASSUME ~ReadOnly(x) PROVE row.removal = "restored" <=> intact
      BY <1>6, <1>7, <3>1
    <3> QED
      BY <3>1 DEF intact
  <2>3. r.active = 1 /\ ReadOnly(x) => row.remove_after = r.pristine
    BY <1>3, <1>5, <1>7, SMTT(30)
  <2> QED
    BY <1>2, <1>5, <2>1, <2>2, <2>3
<1> HIDE DEF fine
<1>10. e \in ReplayBytes
  <2>1. NoReplay \in ReplayBytes
    BY DEF NoReplay, ReplayBytes, Byte
  <2>2. r.active # 1 => r.active - 1 \in Nat
    BY <1>4, <1>5, SMTT(30)
  <2>3. (r.overwritten \/ row.removal = "overwritten") \in BOOLEAN
    OBVIOUS
  <2>4. r.active # 1 => [r EXCEPT !.value = row.remove_after, !.active = @ - 1,
                                  !.overwritten = @ \/ row.removal = "overwritten"] \in ReplayBytes
    BY <1>1, <1>2, <2>2, <2>3 DEF ReplayBytes
  <2> QED
    BY <2>1, <2>4
<1>11. next.bytes = [acc.bytes EXCEPT ![x] = e]
       /\ next.ok = TRUE /\ next \in [ok : BOOLEAN, bytes : [Alloc -> ReplayBytes]]
  <2>1. [acc.bytes EXCEPT ![x] = e] \in [Alloc -> ReplayBytes]
    BY <1>2, <1>10
  <2>2. next = [ok |-> TRUE, bytes |-> [acc.bytes EXCEPT ![x] = e]]
    BY <1>8, <1>9
  <2> HIDE DEF e
  <2> QED
    BY <2>1, <2>2, SMTT(30)
<1>12. /\ e.active = d.active_count /\ e.overwritten = d.overwritten
       /\ e.active = 0 => ~e.overwritten
       /\ e.active > 0 => /\ e.pristine = d.pristine
                          /\ ~e.overwritten => e.value = Xor(d.pristine, d.active_mask)
  <2>1. CASE b.active_count = 1
    <3>1. e = NoReplay /\ d = NoByteState
      BY <1>3, <2>1
    <3> HIDE DEF d, e
    <3> QED
      BY <3>1 DEF NoReplay, NoByteState
  <2>2. CASE b.active_count # 1
    <3>1. /\ e.value = row.remove_after /\ e.active = r.active - 1 /\ e.pristine = r.pristine
          /\ e.overwritten = (r.overwritten \/ row.removal = "overwritten")
      BY <1>2, <1>3, <2>2 DEF ReplayBytes
    <3>2. /\ d.active_mask = Xor(b.active_mask, {c.bit}) /\ d.active_count = b.active_count - 1
          /\ d.pristine = b.pristine /\ d.overwritten = (b.overwritten \/ mark)
      BY <1>2, <2>2 DEF ByteState
    <3> HIDE DEF d, e, r, b
    <3>3. e.active = d.active_count /\ e.active # 0
      BY <1>3, <1>4, <1>5, <2>2, <3>1, <3>2
    <3>4. e.overwritten = d.overwritten
      <4>1. (r.overwritten \/ row.removal = "overwritten") = (b.overwritten \/ mark)
        BY <1>3, <1>7, Zenon
      <4> QED
        BY <3>1, <3>2, <4>1, Zenon
    <3>5. e.pristine = d.pristine
      BY <1>3, <1>5, <3>1, <3>2
    <3>6. ASSUME ~e.overwritten PROVE e.value = Xor(d.pristine, d.active_mask)
      <4>1. ~mark /\ ~b.overwritten
        BY <3>2, <3>4, <3>6
      <4>2. memory[x] = Xor(b.pristine, b.active_mask)
        BY <1>7, <4>1 DEF Intact, b
      <4>3. e.value = Xor(Xor(b.pristine, b.active_mask), {c.bit})
        BY <1>7, <3>1, <4>1, <4>2
      <4> QED
        BY <3>2, <4>3, XorTwice
    <3> QED
      BY <3>3, <3>4, <3>5, <3>6
  <2> HIDE DEF d, e, b
  <2> QED
    BY <2>1, <2>2
<1> HIDE DEF d, e
<1>13. ASSUME NEW a \in Alloc
       PROVE  LET s == next.bytes[a]
                  t == cache_bytes'[a]
              IN /\ s.active = t.active_count /\ s.overwritten = t.overwritten
                 /\ s.active = 0 => ~s.overwritten
                 /\ s.active > 0 => /\ s.pristine = t.pristine
                                    /\ ~s.overwritten => s.value = Xor(t.pristine, t.active_mask)
  <2>1. CASE a = x
    <3>1. next.bytes[a] = e
      BY <1>1, <1>2, <1>11, <2>1
    <3>2. cache_bytes'[a] = d
      <4>1. cache_bytes \in [Alloc -> ByteState]
        BY DEF TrialInv, TypeOK
      <4> QED
        BY <1>1, <1>7, <2>1, <4>1
    <3> QED
      BY <1>12, <3>1, <3>2
  <2>2. CASE a # x
    <3>1. next.bytes[a] = acc.bytes[a] /\ cache_bytes'[a] = cache_bytes[a]
      BY <1>1, <1>2, <1>7, <1>11, <2>2, SMTT(30) DEF TrialInv, TypeOK
    <3> QED
      BY <3>1, ZenonT(30) DEF Agrees
  <2> QED
    BY <2>1, <2>2
<1> QED
  BY <1>11, <1>13 DEF Agrees

-----------------------------------------------------------------------------
(* The steps of the runner that the log follows.                           *)

\* Of the operations of a site that is not removed only its application is done.
LEMMA OtherOps ==
  ASSUME TrialInv, NEW i \in DOMAIN trial.cache, records[i].removal = "not_applied",
         NEW q \in OpType, Done(q)
  PROVE  q.index # i \/ (q.kind = "apply" /\ records[i].applied)
BY DEF Done, OpType

\* apply_cache applies the next site of the order, and the replay follows.
LEMMA ApplyKeepsReplay ==
  ASSUME TrialInv, TrialInv', ReplayInv, ApplyCache
  PROVE  ReplayInv'
<1>1. PICK i \in ToApply :
        /\ \A j \in ToApply : i <= j
        /\ LET c       == trial.cache[i]
               b       == cache_bytes[c.alloc]
               before  == memory[c.alloc]
               changed == /\ b.active_count > 0
                          /\ ~b.overwritten
                          /\ before # Xor(b.pristine, b.active_mask)
           IN /\ memory' = Flip(memory, c)
              /\ CheckedGoto(~(changed /\ ReadOnly(c.alloc)), "apply", "read_only")
              /\ records' = [records EXCEPT
                   ![i].applied = TRUE, ![i].before = before,
                   ![i].after = Xor(before, {c.bit})]
              /\ cache_active' = Append(cache_active, i)
              /\ cache_bytes' = [cache_bytes EXCEPT ![c.alloc] =
                   [pristine     |-> IF b.active_count = 0 THEN before ELSE b.pristine,
                    active_mask  |-> Xor(b.active_mask, {c.bit}),
                    active_count |-> b.active_count + 1,
                    overwritten  |-> b.overwritten \/ changed]]
  BY ZenonT(40) DEF ApplyCache
<1> DEFINE c == trial.cache[i]
           before == memory[c.alloc]
           changed == /\ cache_bytes[c.alloc].active_count > 0
                      /\ ~cache_bytes[c.alloc].overwritten
                      /\ before # Xor(cache_bytes[c.alloc].pristine, cache_bytes[c.alloc].active_mask)
           row == records'[i]
<1>2. pc = "apply" /\ UNCHANGED <<trial, pristine, flipped, image, visited, due>>
  BY Zenon DEF ApplyCache
<1>3. /\ i \in DOMAIN trial.cache /\ c.start = image /\ ~records[i].applied
      /\ records[i] = NoRecord /\ i \notin Range(cache_active)
      /\ records[i].removal = "not_applied"
  BY DEF ToApply, TrialInv, Lifetimes, NoRecord
<1>4. CheckedGoto(~(changed /\ ReadOnly(c.alloc)), "apply", "read_only")
  BY <1>1, Zenon
<1>5. pc' = "apply" /\ ~(changed /\ ReadOnly(c.alloc))
  <2>1. error' # "read_only"
    BY DEF TrialInv, TypeOK
  <2> HIDE DEF changed
  <2> QED
    BY <1>4, <2>1 DEF CheckedGoto
<1>6. /\ row.applied /\ row.before = before /\ row.after = Xor(before, {c.bit})
      /\ row.removal = "not_applied"
      /\ \A j \in DOMAIN trial.cache : j # i => records'[j] = records[j]
  <2>1. records' = [records EXCEPT ![i].applied = TRUE, ![i].before = before,
                                   ![i].after = Xor(before, {c.bit})]
    BY <1>1, Zenon
  <2>2. records \in [DOMAIN trial.cache -> Record] /\ records[i] \in Record
    BY <1>3 DEF TrialInv, TypeOK
  <2>3. row = [records[i] EXCEPT !.applied = TRUE, !.before = before, !.after = Xor(before, {c.bit})]
    BY <1>3, <2>1, <2>2
  <2>4. \A j \in DOMAIN trial.cache : j # i => records'[j] = records[j]
    BY <2>1, <2>2
  <2> HIDE DEF row
  <2> QED
    BY <1>3, <2>2, <2>3, <2>4 DEF Record
<1>7. cache_active' = Append(cache_active, i)
  BY <1>1, Zenon
<1>8. \A j \in DOMAIN trial.cache : records[j].applied => Earlier(j, i)
  BY <1>3 DEF ReplayInv, Ordered
<1>9. \A j \in DOMAIN trial.cache : j # i /\ ~records[j].applied => Earlier(i, j)
  <2> SUFFICES ASSUME NEW j \in DOMAIN trial.cache, j # i, ~records[j].applied
               PROVE  Earlier(i, j)
    OBVIOUS
  <2>1. ~(trial.cache[j].start < image)
    BY DEF TrialInv, Lifetimes
  <2>2. /\ trial.cache[j].start \in Nat /\ image \in Nat /\ i \in Nat /\ j \in Nat
    BY <1>3, KeyTypes
  <2>3. CASE trial.cache[j].start = image
    <3>1. j \in ToApply
      BY <2>3 DEF ToApply
    <3>2. i <= j
      BY <1>1, <3>1
    <3> QED
      BY <1>3, <2>2, <2>3, <3>2 DEF Earlier
  <2> QED
    BY <1>3, <2>1, <2>2, <2>3 DEF Earlier
<1>10. Ordered'
  <2>1. \A j, k : Earlier(j, k)' <=> Earlier(j, k)
    BY <1>2 DEF Earlier
  <2>2. ASSUME NEW j \in DOMAIN trial.cache, NEW k \in DOMAIN trial.cache,
               records'[j].applied, ~records'[k].applied
        PROVE  Earlier(j, k)
    <3>1. k # i /\ ~records[k].applied
      BY <1>6, <2>2
    <3>2. CASE j = i
      BY <1>9, <3>1, <3>2
    <3>3. CASE j # i
      BY <1>6, <2>2, <3>1, <3>3 DEF ReplayInv, Ordered
    <3> QED
      BY <3>2, <3>3
  <2>3. ASSUME NEW k \in DOMAIN cache_active', NEW m \in DOMAIN cache_active', k < m
        PROVE  Earlier(cache_active'[k], cache_active'[m])
    <3>1. /\ cache_active \in Seq(DOMAIN trial.cache) /\ Len(cache_active) \in Nat
          /\ DOMAIN cache_active = 1 .. Len(cache_active)
      BY DEF TrialInv, TypeOK
    <3>2. /\ DOMAIN cache_active' = 1 .. Len(cache_active) + 1
          /\ \A n \in 1 .. Len(cache_active) : cache_active'[n] = cache_active[n]
          /\ cache_active'[Len(cache_active) + 1] = i
      BY <1>7, <3>1
    <3>3. k \in DOMAIN cache_active /\ cache_active'[k] = cache_active[k]
      BY <2>3, <3>1, <3>2
    <3>4. CASE m = Len(cache_active) + 1
      <4>1. cache_active[k] \in Range(cache_active)
        BY <3>3 DEF Range
      <4>2. cache_active[k] \in DOMAIN trial.cache /\ records[cache_active[k]].applied
        BY <3>1, <3>3, <4>1 DEF TrialInv, Lifetimes
      <4> QED
        BY <1>8, <3>2, <3>3, <3>4, <4>2
    <3>5. CASE m \in DOMAIN cache_active
      BY <2>3, <3>1, <3>2, <3>3, <3>5 DEF ReplayInv, Ordered
    <3> QED
      BY <3>1, <3>2, <3>4, <3>5
  <2> QED
    BY <1>2, <1>5, <2>1, <2>2, <2>3 DEF Ordered
<1>11. RowsRight'
  <2> SUFFICES ASSUME NEW j \in DOMAIN trial.cache
               PROVE  LET s == trial.cache[j]
                          r == records'[j]
                      IN /\ r.applied => r.after = Xor(r.before, {s.bit})
                         /\ r.removal # "not_applied" =>
                              IF ReadOnly(s.alloc)
                              THEN r.removal = "re_xor" /\ r.remove_after = Xor(r.remove_before, {s.bit})
                              ELSE \/ r.removal = "restored" /\ r.remove_after = Xor(r.remove_before, {s.bit})
                                   \/ r.removal = "overwritten" /\ r.remove_after = r.remove_before
    BY <1>2 DEF RowsRight
  <2>1. CASE j = i
    BY <1>6, <2>1
  <2>2. CASE j # i
    BY <1>6, <2>2 DEF ReplayInv, RowsRight
  <2> QED
    BY <2>1, <2>2
<1>12. PICK n, ops, accs : Log(n, ops, accs)
  BY DEF ReplayInv
<1> DEFINE op == [kind |-> "apply", index |-> i]
<1>13. op \in OpType /\ ~Done(op) /\ Done(op)' /\ op.kind = "apply" /\ op.index = i
  BY <1>3, <1>6 DEF OpType, Done
<1>14. \A q \in OpType : q # op => (Done(q)' <=> Done(q))
  <2> SUFFICES ASSUME NEW q \in OpType, q # op PROVE Done(q)' <=> Done(q)
    OBVIOUS
  <2>1. CASE q.index = i
    <3>1. q.kind = "remove"
      BY <2>1 DEF OpType
    <3> QED
      BY <1>3, <1>6, <2>1, <3>1 DEF Done
  <2>2. CASE q.index # i
    <3>1. q.index \in DOMAIN trial.cache
      BY DEF OpType
    <3> QED
      BY <1>6, <2>2, <3>1 DEF Done
  <2> QED
    BY <2>1, <2>2
<1>15. \A q \in OpType : Done(q) => q.index \in DOMAIN trial.cache /\ q.index # i /\ records'[q.index] = records[q.index]
  <2> SUFFICES ASSUME NEW q \in OpType, Done(q) PROVE q.index \in DOMAIN trial.cache /\ q.index # i
    BY <1>6
  <2> QED
    BY <1>3, OtherOps DEF OpType
<1>16. \A q \in OpType : Done(q) => Key(q)' = Key(q)
  BY <1>2, <1>15 DEF Key
<1>17. \A q \in OpType : \A acc : Done(q) => ReplayStep(acc, q)' = ReplayStep(acc, q)
  <2> SUFFICES ASSUME NEW q \in OpType, NEW acc, Done(q)
               PROVE  ReplayStep(acc, q)' = ReplayStep(acc, q)
    OBVIOUS
  <2>1. records'[q.index] = records[q.index] /\ trial' = trial
    BY <1>2, <1>15
  <2> QED
    BY <2>1, ZenonT(40) DEF ReplayStep, ReplayApply, ReplayRemove
<1>18. ASSUME NEW q \in OpType, Done(q) PROVE Before(q, op)'
  <2> DEFINE j == q.index
  <2>1. /\ j \in DOMAIN trial.cache /\ j \in Int /\ trial.cache[j].start \in Int
        /\ records[j].removal_image \in Int /\ i \in Int /\ image \in Int
        /\ 0 \in Int /\ 1 \in Int
    BY <1>3, <1>15, <1>18, KeyTypes
  <2>2. Key(op)' = <<image, 0, i, 0>>
    BY <1>2, <1>3 DEF Key
  <2>3. CASE q.kind = "apply"
    <3>1. Key(q) = <<trial.cache[j].start, 0, j, 0>>
      BY <2>3 DEF Key
    <3>2. records[j].applied
      BY <1>18, <2>3 DEF Done
    <3>3. trial.cache[j].start < image \/ (trial.cache[j].start = image /\ j < i)
      BY <1>3, <1>8, <2>1, <3>2 DEF Earlier
    <3>4. LexLess(<<trial.cache[j].start, 0, j, 0>>, <<image, 0, i, 0>>)
      <4> DEFINE sj == trial.cache[j].start
      <4> HIDE DEF j, sj
      <4> QED
        BY <2>1, <3>3, LexIs, SMTT(30) DEF sj
    <3> QED
      BY <1>16, <1>18, <2>2, <3>1, <3>4 DEF Before
  <2>4. CASE q.kind = "remove"
    <3>1. Key(q) = <<records[j].removal_image, 1, trial.cache[j].start, j>>
      BY <2>4 DEF Key
    <3>2. records[j].removal_image < image
      BY <1>2, <1>18, <2>1, <2>4, RemovedIs DEF Done
    <3>3. LexLess(<<records[j].removal_image, 1, trial.cache[j].start, j>>, <<image, 0, i, 0>>)
      <4> DEFINE sj == trial.cache[j].start
                 rj == records[j].removal_image
      <4>1. sj \in Int /\ rj \in Int /\ j \in Int /\ rj < image
        BY <2>1, <3>2
      <4> HIDE DEF j, sj, rj
      <4>2. LexLess(<<rj, 1, sj, j>>, <<image, 0, i, 0>>)
        BY <2>1, <4>1, LexIs, SMTT(30)
      <4> QED
        BY <4>2 DEF sj, rj
    <3> QED
      BY <1>16, <1>18, <2>2, <3>1, <3>3 DEF Before
  <2> QED
    BY <2>3, <2>4 DEF OpType
<1>19. PICK next : next = ReplayStep(accs[n], op)'
  OBVIOUS
<1>20. next = ReplayApply(accs[n], c, row)
  <2> HIDE DEF op
  <2>1. ReplayStep(accs[n], op)' = ReplayApply(accs[n], c, row)
    BY <1>2, <1>13 DEF ReplayStep, ReplayApply
  <2> QED
    BY <1>19, <2>1
<1>21. Agrees(next)'
  <2>1. Agrees(accs[n])
    BY <1>12 DEF Log
  <2>2. SiteApplied(i)
    BY <1>1, <1>5, Zenon DEF SiteApplied
  <2> HIDE DEF row, op
  <2> QED
    BY <1>3, <1>6, <1>20, <2>1, <2>2, ApplyAgrees
<1> HIDE DEF op
<1>22. \E m, os, as : Log(m, os, as)'
  BY <1>2, <1>12, <1>13, <1>14, <1>16, <1>17, <1>18, <1>19, <1>21, LogGrows
<1> QED
  BY <1>10, <1>11, <1>22 DEF ReplayInv

\* What is left of a sequence, in its order, without the entry at i.
LEMMA EntryRemoved ==
  ASSUME NEW S, NEW s \in Seq(S), NEW i \in 1 .. Len(s), NEW r, r = RemoveAt(s, i)
  PROVE  /\ DOMAIN r = 1 .. (Len(s) - 1)
         /\ \A k \in 1 .. (i - 1) : r[k] = s[k]
         /\ \A k \in i .. (Len(s) - 1) : r[k] = s[k + 1]
<1>1. /\ r \in Seq(S) /\ Len(r) = Len(s) - 1
      /\ \A k \in 1 .. (i - 1) : r[k] = s[k]
      /\ \A k \in i .. (Len(s) - 1) : r[k] = s[k + 1]
  BY RemoveAtFacts, Zenon
<1>2. DOMAIN r = 1 .. Len(r)
  BY <1>1
<1> QED
  BY <1>1, <1>2

\* remove_cache takes the next due site of the order, and the replay follows.
LEMMA RemovalKeepsReplay ==
  ASSUME TrialInv, ReplayInv, Visiting, visited' = visited, pc' = "remove",
         UNCHANGED <<trial, image>>,
         NEW i, i = cache_active[visited + 1],
         NEW removal, NEW after \in Byte, NEW mark \in BOOLEAN,
         FinishRemoval(i, removal, after, mark),
         LET c == trial.cache[i]
             b == cache_bytes[c.alloc]
         IN /\ IF ReadOnly(c.alloc) THEN removal = "re_xor"
                                    ELSE removal \in {"restored", "overwritten"}
            /\ mark <=> removal = "overwritten"
            /\ ~mark => Intact(c.alloc) /\ after = Xor(memory[c.alloc], {c.bit})
            /\ mark => ~Intact(c.alloc) /\ after = memory[c.alloc]
            /\ ReadOnly(c.alloc) /\ b.active_count = 1 => after = b.pristine
  PROVE  ReplayInv'
<1> DEFINE c == trial.cache[i]
           x == c.alloc
           row == records'[i]
           n == visited + 1
<1>1. /\ cache_active \in Seq(DOMAIN trial.cache) /\ Len(cache_active) \in Nat
      /\ DOMAIN cache_active = 1 .. Len(cache_active)
      /\ pc = "remove" /\ visited \in Nat /\ n \in 1 .. Len(cache_active)
  BY DEF Visiting, TrialInv, TypeOK
<1>2. i \in Range(cache_active) /\ i \in DOMAIN trial.cache
  BY <1>1, OnFacts DEF Range
<1>3. records[i].applied /\ records[i].removal = "not_applied"
  BY <1>2 DEF TrialInv, Lifetimes
<1>4. /\ row.removal = removal /\ row.removal_image = image /\ row.applied
      /\ row.remove_before = memory[x] /\ row.remove_after = after
      /\ row.before = records[i].before /\ row.after = records[i].after
      /\ \A j \in DOMAIN trial.cache : j # i => records'[j] = records[j]
  <2>1. records' = [records EXCEPT
          ![i].removal = removal, ![i].removal_image = image,
          ![i].remove_before = memory[x], ![i].remove_after = after]
    BY Zenon DEF FinishRemoval
  <2>2. records \in [DOMAIN trial.cache -> Record] /\ records[i] \in Record
    BY <1>2 DEF TrialInv, TypeOK
  <2>3. row = [records[i] EXCEPT !.removal = removal, !.removal_image = image,
                                 !.remove_before = memory[x], !.remove_after = after]
    BY <1>2, <2>1, <2>2
  <2>4. \A j \in DOMAIN trial.cache : j # i => records'[j] = records[j]
    BY <2>1, <2>2
  <2> HIDE DEF row
  <2> QED
    BY <1>3, <2>2, <2>3, <2>4 DEF Record
<1>5. /\ cache_active' = RemoveAt(cache_active, n)
      /\ cache_bytes' = [cache_bytes EXCEPT ![x] =
           IF cache_bytes[x].active_count = 1 THEN NoByteState
           ELSE [cache_bytes[x] EXCEPT !.active_mask = Xor(@, {c.bit}),
                                       !.active_count = @ - 1,
                                       !.overwritten = @ \/ mark]]
  BY Zenon DEF FinishRemoval
<1>6. /\ DOMAIN cache_active' = 1 .. (Len(cache_active) - 1)
      /\ \A k \in 1 .. (n - 1) : cache_active'[k] = cache_active[k]
      /\ \A k \in n .. (Len(cache_active) - 1) : cache_active'[k] = cache_active[k + 1]
  <2> HIDE DEF n
  <2>1. n \in 1 .. Len(cache_active) /\ cache_active \in Seq(DOMAIN trial.cache)
    BY <1>1
  <2>2. cache_active' = RemoveAt(cache_active, n)
    BY <1>5
  <2> QED
    BY <2>1, <2>2, EntryRemoved, Zenon
<1>7. \A j \in DOMAIN trial.cache : records'[j].applied <=> records[j].applied
  BY <1>3, <1>4
<1>8. \A j \in DOMAIN trial.cache :
        records[j].removal # "not_applied" /\ records[j].removal_image = image => Earlier(j, i)
  <2>1. n \in DOMAIN cache_active /\ n > visited /\ cache_active[n] = i
    BY <1>1
  <2> QED
    BY <1>1, <2>1 DEF ReplayInv, Ordered
<1>9. Ordered'
  <2>1. \A j, k : Earlier(j, k)' <=> Earlier(j, k)
    BY DEF Earlier
  <2>2. \A k \in DOMAIN cache_active, m \in DOMAIN cache_active :
          k < m => Earlier(cache_active[k], cache_active[m])
    BY DEF ReplayInv, Ordered
  <2>3. \A k \in DOMAIN cache_active' :
          \/ k < n /\ k \in DOMAIN cache_active /\ cache_active'[k] = cache_active[k]
          \/ k >= n /\ k + 1 \in DOMAIN cache_active /\ cache_active'[k] = cache_active[k + 1]
    BY <1>1, <1>6
  <2>4. ASSUME NEW k \in DOMAIN cache_active', NEW m \in DOMAIN cache_active', k < m
        PROVE  Earlier(cache_active'[k], cache_active'[m])
    <3>1. PICK p \in DOMAIN cache_active : /\ cache_active'[k] = cache_active[p]
                                           /\ p = IF k < n THEN k ELSE k + 1
      BY <1>1, <1>6, <2>3
    <3>2. PICK q \in DOMAIN cache_active : /\ cache_active'[m] = cache_active[q]
                                           /\ q = IF m < n THEN m ELSE m + 1
      BY <1>1, <1>6, <2>3
    <3>3. p < q
      BY <1>1, <1>6, <2>4, <3>1, <3>2
    <3> QED
      BY <2>2, <3>1, <3>2, <3>3
  <2>5. ASSUME NEW j \in DOMAIN trial.cache, NEW k \in DOMAIN cache_active', k > visited',
               records'[j].removal # "not_applied", records'[j].removal_image = image
        PROVE  Earlier(j, cache_active'[k])
    <3>1. /\ k + 1 \in DOMAIN cache_active /\ cache_active'[k] = cache_active[k + 1]
          /\ k + 1 > n /\ k + 1 > visited
      BY <1>1, <1>6, <2>3, <2>5
    <3>2. CASE j = i
      BY <1>1, <2>2, <3>1, <3>2
    <3>3. CASE j # i
      BY <1>1, <1>4, <2>5, <3>1, <3>3 DEF ReplayInv, Ordered
    <3> QED
      BY <3>2, <3>3
  <2>6. \A j \in DOMAIN trial.cache, k \in DOMAIN trial.cache :
          records'[j].applied /\ ~records'[k].applied => Earlier(j, k)
    BY <1>7 DEF ReplayInv, Ordered
  <2> QED
    BY <2>1, <2>4, <2>5, <2>6 DEF Ordered
<1>10. RowsRight'
  <2> SUFFICES ASSUME NEW j \in DOMAIN trial.cache
               PROVE  LET s == trial.cache[j]
                          r == records'[j]
                      IN /\ r.applied => r.after = Xor(r.before, {s.bit})
                         /\ r.removal # "not_applied" =>
                              IF ReadOnly(s.alloc)
                              THEN r.removal = "re_xor" /\ r.remove_after = Xor(r.remove_before, {s.bit})
                              ELSE \/ r.removal = "restored" /\ r.remove_after = Xor(r.remove_before, {s.bit})
                                   \/ r.removal = "overwritten" /\ r.remove_after = r.remove_before
    BY DEF RowsRight
  <2>1. CASE j = i
    <3>1. row.after = Xor(row.before, {c.bit})
      BY <1>2, <1>3, <1>4 DEF ReplayInv, RowsRight
    <3>2. IF ReadOnly(x)
          THEN row.removal = "re_xor" /\ row.remove_after = Xor(row.remove_before, {c.bit})
          ELSE \/ row.removal = "restored" /\ row.remove_after = Xor(row.remove_before, {c.bit})
               \/ row.removal = "overwritten" /\ row.remove_after = row.remove_before
      BY <1>4
    <3> QED
      BY <2>1, <3>1, <3>2
  <2>2. CASE j # i
    BY <1>4, <2>2 DEF ReplayInv, RowsRight
  <2> QED
    BY <2>1, <2>2
<1>11. PICK m, ops, accs : Log(m, ops, accs)
  BY DEF ReplayInv
<1> DEFINE op == [kind |-> "remove", index |-> i]
<1>12. removal # "not_applied"
  OBVIOUS
<1>13. op \in OpType /\ ~Done(op) /\ Done(op)' /\ op.kind = "remove" /\ op.index = i
  BY <1>2, <1>3, <1>4, <1>12 DEF OpType, Done
<1>14. ASSUME NEW q \in OpType
       PROVE  /\ q.index \in DOMAIN trial.cache
              /\ q.index # i => records'[q.index] = records[q.index]
              /\ q.index = i /\ q # op => q.kind = "apply"
  BY <1>4 DEF OpType
<1>15. \A q \in OpType : q # op => (Done(q)' <=> Done(q))
  <2> SUFFICES ASSUME NEW q \in OpType, q # op PROVE Done(q)' <=> Done(q)
    OBVIOUS
  <2>1. CASE q.index = i
    BY <1>3, <1>4, <1>14, <2>1 DEF Done
  <2>2. CASE q.index # i
    BY <1>14, <2>2 DEF Done
  <2> QED
    BY <2>1, <2>2
<1>16. \A q \in OpType : Done(q) => q # op
  BY <1>13
<1>17. \A q \in OpType : Done(q) => Key(q)' = Key(q)
  <2> SUFFICES ASSUME NEW q \in OpType, Done(q) PROVE Key(q)' = Key(q)
    OBVIOUS
  <2>1. CASE q.index = i
    <3>1. q.kind = "apply"
      BY <1>14, <1>16, <2>1
    <3> QED
      BY <3>1 DEF Key
  <2>2. CASE q.index # i
    BY <1>14, <2>2 DEF Key
  <2> QED
    BY <2>1, <2>2
<1>18. \A q \in OpType : \A acc : Done(q) => ReplayStep(acc, q)' = ReplayStep(acc, q)
  <2> SUFFICES ASSUME NEW q \in OpType, NEW acc, Done(q)
               PROVE  ReplayStep(acc, q)' = ReplayStep(acc, q)
    OBVIOUS
  <2>1. CASE q.index = i
    <3>1. q.kind = "apply"
      BY <1>14, <1>16, <2>1
    <3>2. /\ records'[q.index].before = records[q.index].before
          /\ records'[q.index].after = records[q.index].after
      BY <1>4, <2>1
    <3> QED
      BY <3>1, <3>2, Zenon DEF ReplayStep, ReplayApply
  <2>2. CASE q.index # i
    <3>1. records'[q.index] = records[q.index]
      BY <1>14, <2>2
    <3> QED
      BY <3>1, ZenonT(40) DEF ReplayStep, ReplayApply, ReplayRemove
  <2> QED
    BY <2>1, <2>2
<1>19. ASSUME NEW q \in OpType, Done(q) PROVE Before(q, op)'
  <2> DEFINE j == q.index
             sj == trial.cache[j].start
             rj == records[j].removal_image
             si == c.start
  <2>1. /\ j \in Int /\ sj \in Int /\ rj \in Int /\ i \in Int /\ si \in Int /\ image \in Int
        /\ 0 \in Int /\ 1 \in Int
    BY <1>2, <1>14, KeyTypes
  <2>2. Key(op)' = <<image, 1, si, i>>
    BY <1>4 DEF Key
  <2>3. CASE q.kind = "apply"
    <3>1. Key(q) = <<sj, 0, j, 0>>
      BY <2>3 DEF Key
    <3>2. sj <= image
      BY <1>14, <1>19, <2>3 DEF Done, TrialInv, Lifetimes
    <3>3. LexLess(<<sj, 0, j, 0>>, <<image, 1, si, i>>)
      <4> HIDE DEF j, sj, si
      <4> QED
        BY <2>1, <3>2, LexIs, SMTT(30)
    <3> QED
      BY <1>17, <1>19, <2>2, <3>1, <3>3 DEF Before
  <2>4. CASE q.kind = "remove"
    <3>1. Key(q) = <<rj, 1, sj, j>>
      BY <2>4 DEF Key
    <3>2. rj <= image
      BY <1>14, <1>19, <2>4, RemovedIs DEF Done
    <3>3. rj = image => sj < si \/ (sj = si /\ j < i)
      BY <1>8, <1>14, <1>19, <2>4 DEF Done, Earlier
    <3>4. LexLess(<<rj, 1, sj, j>>, <<image, 1, si, i>>)
      <4> HIDE DEF j, sj, rj, si
      <4> QED
        BY <2>1, <3>2, <3>3, LexIs, SMTT(30)
    <3> QED
      BY <1>17, <1>19, <2>2, <3>1, <3>4 DEF Before
  <2> QED
    BY <2>3, <2>4 DEF OpType
<1>20. PICK next : next = ReplayStep(accs[m], op)'
  OBVIOUS
<1>21. next = ReplayRemove(accs[m], c, row)
  <2> HIDE DEF op
  <2>1. ReplayStep(accs[m], op)' = ReplayRemove(accs[m], c, row)
    BY <1>13 DEF ReplayStep, ReplayRemove
  <2> QED
    BY <1>20, <2>1
<1>22. Agrees(next)'
  <2>1. Agrees(accs[m])
    BY <1>11 DEF Log
  <2>2. SiteRemoved(i, row, mark)
    BY <1>4, <1>5 DEF SiteRemoved
  <2> HIDE DEF row, op
  <2> QED
    BY <1>2, <1>21, <2>1, <2>2, RemoveAgrees
<1> HIDE DEF op
<1>23. \E k, os, as : Log(k, os, as)'
  BY <1>11, <1>13, <1>15, <1>17, <1>18, <1>19, <1>20, <1>22, LogGrows
<1> QED
  BY <1>9, <1>10, <1>23 DEF ReplayInv

\* A site that is flipped back: its byte is intact.
LEMMA UnflipKeepsReplay ==
  ASSUME TrialInv, TrialInv', ReplayInv, UnflipCache
  PROVE  ReplayInv'
<1> DEFINE i     == cache_active[visited + 1]
           c     == trial.cache[i]
           x     == c.alloc
           b     == cache_bytes[x]
           after == Xor(memory[x], {c.bit})
           fine  == ~ReadOnly(x) \/ (Intact(x) /\ (b.active_count = 1 => after = b.pristine))
           how   == IF ReadOnly(x) THEN "re_xor" ELSE "restored"
<1>1. /\ Visiting /\ (ReadOnly(x) \/ Intact(x))
      /\ memory' = [memory EXCEPT ![x] = after]
      /\ CheckedGoto(fine, "remove", "read_only")
      /\ FinishRemoval(i, how, after, FALSE)
      /\ UNCHANGED <<trial, pristine, flipped, image, visited, due>>
  BY Zenon DEF UnflipCache
<1> HIDE DEF fine, after
<1>2. error' \in {"none", "cuda", "sanity"}
  BY DEF TrialInv, TypeOK
<1>3. fine /\ pc' = "remove"
  BY <1>1, <1>2 DEF CheckedGoto
<1>4. i \in DOMAIN trial.cache
  <2>1. /\ cache_active \in Seq(DOMAIN trial.cache) /\ Len(cache_active) \in Nat
        /\ visited \in Nat /\ visited < Len(cache_active)
    <3>1. Visiting
      BY <1>1
    <3> HIDE DEF c, x, b, i, how
    <3> QED
      BY <3>1 DEF Visiting, TrialInv, TypeOK
  <2>2. visited + 1 \in 1 .. Len(cache_active)
    BY <2>1
  <2> QED
    BY <2>1, <2>2
<1>5. after \in Byte
  <2>1. x \in Alloc /\ c.bit \in Bits
    BY <1>4, KeyTypes
  <2>2. memory[x] \in Byte /\ {c.bit} \in Byte
    BY <2>1 DEF TrialInv, TypeOK, Byte
  <2> QED
    BY <2>2, XorFacts DEF after
<1>6. /\ Intact(x) /\ after = Xor(memory[x], {c.bit})
      /\ ReadOnly(x) /\ b.active_count = 1 => after = b.pristine
  BY <1>1, <1>3 DEF fine, after
<1> DEFINE removal == how
<1>7. IF ReadOnly(x) THEN removal = "re_xor" ELSE removal \in {"restored", "overwritten"}
  OBVIOUS
<1>8. removal # "overwritten" /\ FinishRemoval(i, removal, after, FALSE)
  BY <1>1
<1> HIDE DEF removal, i
<1>9. i = cache_active[visited + 1] /\ FALSE \in BOOLEAN
  BY DEF i
<1>10. Visiting /\ visited' = visited /\ pc' = "remove" /\ UNCHANGED <<trial, image>>
  BY <1>1, <1>3
<1>11. LET mark == FALSE
       IN /\ IF ReadOnly(c.alloc) THEN removal = "re_xor"
                                  ELSE removal \in {"restored", "overwritten"}
          /\ mark <=> removal = "overwritten"
          /\ ~mark => Intact(c.alloc) /\ after = Xor(memory[c.alloc], {c.bit})
          /\ mark => ~Intact(c.alloc) /\ after = memory[c.alloc]
          /\ ReadOnly(c.alloc) /\ b.active_count = 1 => after = b.pristine
  BY <1>6, <1>7, <1>8
<1> QED
  BY <1>5, <1>8, <1>9, <1>10, <1>11, RemovalKeepsReplay, Zenon

\* A site whose byte the engine rewrote.
LEMMA LeaveKeepsReplay ==
  ASSUME TrialInv, ReplayInv, LeaveOverwritten
  PROVE  ReplayInv'
<1> DEFINE i == cache_active[visited + 1]
           c == trial.cache[i]
           x == c.alloc
<1>1. /\ Visiting /\ pc = "remove" /\ ~ReadOnly(x) /\ ~Intact(x)
      /\ FinishRemoval(i, "overwritten", memory[x], TRUE)
      /\ UNCHANGED <<memory, trial, pristine, pc, flipped, image, visited, due, error>>
  BY DEF LeaveOverwritten, Visiting
<1>2. i \in DOMAIN trial.cache
  <2>1. /\ cache_active \in Seq(DOMAIN trial.cache) /\ Len(cache_active) \in Nat
        /\ visited \in Nat /\ visited < Len(cache_active)
    BY <1>1 DEF Visiting, TrialInv, TypeOK
  <2>2. visited + 1 \in 1 .. Len(cache_active)
    BY <2>1
  <2> QED
    BY <2>1, <2>2
<1>3. memory[x] \in Byte
  <2>1. x \in Alloc
    BY <1>2, KeyTypes
  <2> QED
    BY <2>1 DEF TrialInv, TypeOK
<1> HIDE DEF i
<1>4. i = cache_active[visited + 1] /\ TRUE \in BOOLEAN
  BY DEF i
<1> QED
  BY <1>1, <1>3, <1>4, RemovalKeepsReplay

\* The same of a state after a step.
LEMMA FreshReplayNext ==
  /\ cache_active = <<>> /\ \A i \in DOMAIN trial.cache : records[i] = NoRecord
  /\ \A a \in Alloc : cache_bytes[a].active_count = 0 /\ ~cache_bytes[a].overwritten
  /\ \A a \in Alloc : cache_bytes[a].overwritten \in BOOLEAN
  => ReplayInv
BY FreshReplay

\* The steps that apply and remove no site.
LEMMA OtherStepsKeepReplay ==
  ASSUME TrialInv, ReplayInv,
         \/ FlipSite \/ GuardCompare \/ StageInput \/ Enqueue \/ Readback \/ KeepCache
         \/ NextImage \/ PassEnd \/ RestoreSite \/ InputCheck \/ SanityHolds \/ Stop
         \/ UNCHANGED vars
  PROVE  ReplayInv'
<1>1. UNCHANGED <<trial, records, cache_active, cache_bytes>>
  BY DEF FlipSite, GuardCompare, StageInput, Enqueue, Readback, KeepCache, NextImage,
         PassEnd, RestoreSite, InputCheck, SanityHolds, Stop, vars, passVars
<1>2. visited \in Nat /\ cache_active \in Seq(DOMAIN trial.cache)
  BY DEF TrialInv, TypeOK
<1>3. ASSUME pc' = "remove"
      PROVE  /\ image' = image
             /\ \/ pc = "remove" /\ visited' \in {visited, visited + 1}
                \/ pc = "readback"
  BY <1>3 DEF FlipSite, GuardCompare, StageInput, Enqueue, Readback, KeepCache, NextImage,
         PassEnd, RestoreSite, InputCheck, SanityHolds, Stop, vars, passVars, CheckedGoto,
         Visiting
<1>4. ASSUME pc = "readback", NEW i \in DOMAIN trial.cache, records[i].removal # "not_applied"
      PROVE  records[i].removal_image # image
  <2>1. records[i].removal_image < image
    BY <1>4, RemovedIs
  <2>2. image \in Nat /\ records[i].removal_image \in Nat
    BY KeyTypes
  <2> QED
    BY <2>1, <2>2
<1>5. pc' = "remove" =>
        /\ image' = image
        /\ \/ pc = "remove" /\ visited' >= visited /\ visited \in Nat /\ visited' \in Nat
           \/ \A i \in DOMAIN trial.cache :
                ~(records[i].removal # "not_applied" /\ records[i].removal_image = image)
  BY <1>2, <1>3, <1>4
<1> QED
  BY <1>1, <1>2, <1>5, LogStays

\* Between two trials there is no row.
LEMMA NoRowsReplay ==
  trial = NoWork /\ records = <<>> /\ cache_active = <<>>
    /\ cache_bytes = [a \in Alloc |-> NoByteState] => ReplayInv
<1> SUFFICES ASSUME trial = NoWork, records = <<>>, cache_active = <<>>,
                    cache_bytes = [a \in Alloc |-> NoByteState]
             PROVE  ReplayInv
  OBVIOUS
<1>1. \A i \in DOMAIN trial.cache : records[i] = NoRecord
  BY NoWorkIsTrial
<1>2. \A a \in Alloc : /\ cache_bytes[a].active_count = 0 /\ ~cache_bytes[a].overwritten
                       /\ cache_bytes[a].overwritten \in BOOLEAN
  BY DEF NoByteState
<1> QED
  BY <1>1, <1>2, FreshReplay

\* The same facts about the state after a step.
LEMMA NoRowsReplayNext ==
  (trial = NoWork /\ records = <<>> /\ cache_active = <<>>
    /\ cache_bytes = [a \in Alloc |-> NoByteState])' => ReplayInv'
BY NoRowsReplay, PTL

\* A trial that begins with nothing applied, seen after the step.
LEMMA FreshReplayAfter ==
  (/\ cache_active = <<>> /\ \A i \in DOMAIN trial.cache : records[i] = NoRecord
   /\ \A a \in Alloc : cache_bytes[a].active_count = 0 /\ ~cache_bytes[a].overwritten
   /\ \A a \in Alloc : cache_bytes[a].overwritten \in BOOLEAN)'
  => ReplayInv'
BY FreshReplayNext, PTL

\* A trial begins with no site applied and no byte tracked.
LEMMA TrialBeginReplay ==
  ASSUME TrialInv, ReplayInv, TrialBegin
  PROVE  ReplayInv'
<1>1. /\ pc = "idle" /\ records' = [i \in DOMAIN trial'.cache |-> NoRecord]
      /\ cache_active' = cache_active /\ cache_bytes' = cache_bytes
  BY DEF TrialBegin
<1>2. cache_active = <<>>
  BY <1>1 DEF TrialInv, Progress, Outside
<1>3. ASSUME NEW a \in Alloc
      PROVE  /\ cache_bytes[a].active_count = 0 /\ ~cache_bytes[a].overwritten
             /\ cache_bytes[a].overwritten \in BOOLEAN
  <2>1. cache_bytes[a].active_count = 0
    BY <1>2, NothingOn DEF TrialInv, BytesTracked
  <2>2. cache_bytes[a] \in ByteState
    BY DEF TrialInv, TypeOK
  <2>3. PICK n, ops, accs : Log(n, ops, accs)
    BY DEF ReplayInv
  <2>4. accs[n].bytes[a].active = 0 /\ accs[n].bytes[a].overwritten = cache_bytes[a].overwritten
        /\ ~accs[n].bytes[a].overwritten
    BY <2>1, <2>3 DEF Log, Agrees
  <2> QED
    BY <2>1, <2>2, <2>4 DEF ByteState
<1> QED
  BY <1>1, <1>2, <1>3, FreshReplayAfter

\* The replay keeps up with the runner.
LEMMA NextKeepsReplay == TrialInv /\ TrialInv' /\ ReplayInv /\ [Next]_vars => ReplayInv'
<1> SUFFICES ASSUME TrialInv, TrialInv', ReplayInv, [Next]_vars PROVE ReplayInv'
  OBVIOUS
<1>1. CASE EngineFails \/ SanityDiverges \/ TrialEnd
  <2>1. LocalsGone
    BY <1>1 DEF EngineFails, SanityDiverges, TrialEnd
  <2> QED
    BY <2>1, NoRowsReplayNext DEF LocalsGone
<1>2. CASE TrialBegin
  BY <1>2, TrialBeginReplay
<1>3. CASE ApplyCache
  BY <1>3, ApplyKeepsReplay
<1>4. CASE UnflipCache
  BY <1>4, UnflipKeepsReplay
<1>5. CASE LeaveOverwritten
  BY <1>5, LeaveKeepsReplay
<1>6. CASE \/ FlipSite \/ GuardCompare \/ StageInput \/ Enqueue \/ Readback \/ KeepCache
           \/ NextImage \/ PassEnd \/ RestoreSite \/ InputCheck \/ SanityHolds \/ Stop
           \/ UNCHANGED vars
  BY <1>6, OtherStepsKeepReplay
<1> QED
  BY <1>1, <1>2, <1>3, <1>4, <1>5, <1>6 DEF Next

\* The replay has followed the runner to every reachable state.
LEMMA ReplayInvHolds == Spec => []ReplayInv
<1>1. Init => ReplayInv
  BY NoRowsReplay DEF Init
<1> QED
  BY <1>1, TrialInvHolds, NextKeepsReplay, PTL DEF Spec

-----------------------------------------------------------------------------
(* The fold over the sorted operations.                                    *)

\* A set of numbers has a least one.
LEMMA LeastNumber ==
  ASSUME NEW S \in SUBSET Nat, S # {}
  PROVE  \E n \in S : \A m \in S : n <= m
<1>1. PICK n \in S : \A m \in S : ~(<<m, n>> \in OpToRel(<, Nat))
  BY WFMin, NatLessThanWellFounded, Zenon
<1>2. \A m \in S : ~(m < n)
  BY <1>1 DEF OpToRel
<1> QED
  BY <1>2

\* And a bounded one has a greatest.
LEMMA GreatestNumber ==
  ASSUME NEW n \in Nat, NEW s \in SUBSET (1 .. n), s # {}
  PROVE  Max(s) \in s /\ \A y \in s : Max(s) >= y
<1> DEFINE gaps == {n - x : x \in s}
<1>1. \A x \in s : x \in 1 .. n /\ n - x \in Nat
  OBVIOUS
<1>2. gaps \in SUBSET Nat /\ gaps # {}
  BY <1>1
<1> HIDE DEF gaps
<1>3. PICK g \in gaps : \A h \in gaps : g <= h
  BY <1>2, LeastNumber
<1>4. PICK x \in s : g = n - x
  BY DEF gaps
<1>5. \A y \in s : x >= y
  <2> SUFFICES ASSUME NEW y \in s PROVE x >= y
    OBVIOUS
  <2>1. n - x <= n - y
    BY <1>3, <1>4 DEF gaps
  <2> QED
    BY <1>1, <2>1
<1> QED
  BY <1>5 DEF Max

\* f is the recursion of the fold over ops.
Replaying(n, ops, f) ==
  f = [s \in SUBSET (1 .. n) |->
         IF s = {} THEN ReplayStart ELSE ReplayStep(f[s \ {Max(s)}], ops[Max(s)])]

\* There is such a function.
LEMMA ReplayRecursion ==
  ASSUME NEW n \in Nat, NEW ops
  PROVE  \E f : Replaying(n, ops, f)
<1> DEFINE Upto(k) == {s \in SUBSET (1 .. n) : Cardinality(s) <= k}
           Rec(f, k) == f = [s \in Upto(k) |->
                               IF s = {} THEN ReplayStart
                               ELSE ReplayStep(f[s \ {Max(s)}], ops[Max(s)])]
           Exists(k) == \E f : Rec(f, k)
           Bad == {k \in Nat : ~Exists(k)}
<1>1. \A s \in SUBSET (1 .. n) :
        /\ IsFiniteSet(s) /\ Cardinality(s) \in Nat /\ Cardinality(s) <= n
        /\ s # {} => /\ s \ {Max(s)} \in SUBSET (1 .. n)
                     /\ Cardinality(s \ {Max(s)}) = Cardinality(s) - 1
  <2> TAKE s \in SUBSET (1 .. n)
  <2>1. IsFiniteSet(1 .. n) /\ Cardinality(1 .. n) = n
    BY FS_Interval
  <2>2. IsFiniteSet(s) /\ Cardinality(s) \in Nat /\ Cardinality(s) <= n
    BY <2>1, FS_Subset, FS_CardinalityType
  <2>3. s # {} => Max(s) \in s
    BY GreatestNumber
  <2> QED
    BY <2>2, <2>3, FS_RemoveElement
<1>2. \A k \in Nat : Exists(k)
  <2> SUFFICES ASSUME Bad # {} PROVE FALSE
    OBVIOUS
  <2> HIDE DEF Exists
  <2>1. PICK k \in Bad : \A m \in Bad : k <= m
    BY LeastNumber
  <2>2. k \in Nat
    OBVIOUS
  <2>3. PICK f : k # 0 => Rec(f, k - 1)
    <3>1. CASE k # 0
      <4>1. k - 1 \in Nat /\ ~(k <= k - 1)
        BY <3>1
      <4>2. Exists(k - 1)
        BY <2>1, <4>1
      <4> QED
        BY <4>2 DEF Exists
    <3> QED
      BY <3>1
  <2> DEFINE g == [s \in Upto(k) |->
                     IF s = {} THEN ReplayStart
                     ELSE ReplayStep(f[s \ {Max(s)}], ops[Max(s)])]
  <2>4. \A s \in Upto(k) : s # {} => k # 0 /\ s \ {Max(s)} \in Upto(k - 1)
    <3> TAKE s \in Upto(k)
    <3> HAVE s # {}
    <3>1. Cardinality(s) # 0
      BY <1>1, FS_EmptySet
    <3> QED
      BY <1>1, <3>1
  <2>5. \A s \in Upto(k - 1) : k # 0 => s \in Upto(k) /\ g[s] = f[s]
    <3> TAKE s \in Upto(k - 1)
    <3> HAVE k # 0
    <3>1. s \in Upto(k)
      <4>1. s \in SUBSET (1 .. n) /\ Cardinality(s) <= k - 1 /\ Cardinality(s) \in Nat
        BY <1>1
      <4> QED
        BY <2>2, <4>1
    <3>2. f[s] = IF s = {} THEN ReplayStart
                 ELSE ReplayStep(f[s \ {Max(s)}], ops[Max(s)])
      BY <2>3, Zenon
    <3> QED
      BY <3>1, <3>2, Zenon
  <2>6. \A s \in Upto(k) :
          (IF s = {} THEN ReplayStart ELSE ReplayStep(f[s \ {Max(s)}], ops[Max(s)]))
            = (IF s = {} THEN ReplayStart ELSE ReplayStep(g[s \ {Max(s)}], ops[Max(s)]))
    <3> HIDE DEF g, Upto
    <3> QED
      BY <2>4, <2>5, Zenon
  <2>7. Rec(g, k)
    BY <2>6, Zenon
  <2>8. Exists(k)
    BY <2>7, Zenon DEF Exists
  <2> QED
    BY <2>8
<1>3. Upto(n) = SUBSET (1 .. n)
  BY <1>1
<1>4. PICK f : Rec(f, n)
  BY <1>2
<1>5. Replaying(n, ops, f)
  BY <1>3, <1>4 DEF Replaying
<1> QED
  BY <1>5

\* The fold takes the operations one after the other.
LEMMA FoldIs ==
  ASSUME NEW n \in Nat, NEW ops, DOMAIN ops = 1 .. n, NEW accs, accs[0] = ReplayStart,
         \A k \in 1 .. n : accs[k] = ReplayStep(accs[k - 1], ops[k])
  PROVE  FoldLeft(ReplayStep, ReplayStart, ops) = accs[n]
<1> DEFINE iter == CHOOSE f : Replaying(n, ops, f)
<1>1. Replaying(n, ops, iter)
  BY ReplayRecursion, Zenon
<1>2. FoldLeft(ReplayStep, ReplayStart, ops) = iter[1 .. n]
  BY Zenon DEF FoldLeft, MapThenFoldSet, Replaying
<1> HIDE DEF iter
<1> DEFINE Bad == {k \in 0 .. n : iter[1 .. k] # accs[k]}
<1>3. SUFFICES ASSUME Bad # {} PROVE FALSE
  BY <1>2
<1>4. PICK k \in Bad : \A m \in Bad : k <= m
  <2>1. Bad \in SUBSET Nat
    OBVIOUS
  <2> HIDE DEF Bad
  <2> QED
    BY <1>3, <2>1, LeastNumber
<1>5. k \in 0 .. n /\ 1 .. k \in SUBSET (1 .. n)
  OBVIOUS
<1>6. iter[1 .. k] = IF 1 .. k = {} THEN ReplayStart
                     ELSE ReplayStep(iter[(1 .. k) \ {Max(1 .. k)}], ops[Max(1 .. k)])
  BY <1>1, <1>5, Zenon DEF Replaying
<1>7. CASE k = 0
  <2>1. 1 .. k = {}
    BY <1>7
  <2> QED
    BY <1>6, <1>7, <2>1
<1>8. CASE k # 0
  <2>1. k \in 1 .. k /\ k \in Nat /\ k \in 1 .. n
    BY <1>5, <1>8
  <2>2. Max(1 .. k) \in 1 .. k /\ Max(1 .. k) >= k
    BY <2>1, GreatestNumber
  <2>3. Max(1 .. k) = k /\ (1 .. k) \ {k} = 1 .. (k - 1)
    BY <2>1, <2>2
  <2>4. k - 1 \in 0 .. n /\ ~(k <= k - 1)
    BY <2>1
  <2>5. iter[1 .. (k - 1)] = accs[k - 1]
    BY <1>4, <2>4
  <2> QED
    BY <1>6, <2>1, <2>3, <2>5
<1> QED
  BY <1>7, <1>8

\* A completed trial has done all the operations that the orchestrator replays.
LEMMA AllDone ==
  ASSUME TrialInv, pc = "ended"
  PROVE  Ops = {op \in OpType : Done(op)}
<1>1. DOMAIN records = DOMAIN trial.cache
  BY DEF TrialInv, TypeOK
<1>2. ASSUME NEW i \in DOMAIN trial.cache
      PROVE  /\ records[i].applied <=> trial.cache[i].start <= image
             /\ records[i].removal # "not_applied" <=> trial.cache[i].start <= image
  <2>1. trial.cache[i].start \in Nat /\ image \in Nat
    BY KeyTypes
  <2>2. cache_active = <<>>
    BY DEF TrialInv, Progress, AfterPass
  <2>3. i \notin Range(cache_active)
    BY <2>2 DEF Range
  <2>4. /\ records[i].applied => trial.cache[i].start <= image
        /\ trial.cache[i].start < image => records[i].applied
        /\ trial.cache[i].start = image => records[i].applied
        /\ records[i].applied => records[i].removal # "not_applied"
    BY <2>3 DEF TrialInv, Lifetimes, AfterPass
  <2>5. records[i].removal # "not_applied" => trial.cache[i].start <= image
    BY RemovedIs
  <2> QED
    BY <2>1, <2>4, <2>5
<1>3. \A op \in OpType : op \in Ops <=> Done(op)
  <2> SUFFICES ASSUME NEW op \in OpType PROVE op \in Ops <=> Done(op)
    OBVIOUS
  <2>1. PICK kind \in {"apply", "remove"}, i \in DOMAIN trial.cache :
          op = [kind |-> kind, index |-> i]
    BY DEF OpType
  <2>2. op \in Ops <=> trial.cache[i].start <= image
    BY <1>1, <2>1 DEF Ops
  <2>3. Done(op) <=> trial.cache[i].start <= image
    BY <1>2, <2>1 DEF Done
  <2> QED
    BY <2>2, <2>3
<1>4. Ops \subseteq OpType
  BY <1>1 DEF Ops, OpType
<1> QED
  BY <1>3, <1>4

\* The order of the keys is the order of the log.
LEMMA SortedIsLog ==
  ASSUME TrialInv, pc = "ended", NEW n, NEW ops, NEW accs, Log(n, ops, accs)
  PROVE  SortedOps = ops
<1>1. /\ n \in Nat /\ ops \in [1 .. n -> OpType]
      /\ \A j \in 1 .. n, k \in 1 .. n : j < k => Before(ops[j], ops[k])
      /\ \A op \in OpType : Done(op) <=> \E k \in 1 .. n : ops[k] = op
  BY DEF Log
<1>2. \A j \in 1 .. n, k \in 1 .. n : Before(ops[j], ops[k]) <=> j < k
  <2> SUFFICES ASSUME NEW j \in 1 .. n, NEW k \in 1 .. n, Before(ops[j], ops[k]) PROVE j < k
    BY <1>1
  <2>1. ops[j] \in OpType /\ ops[k] \in OpType
    BY <1>1
  <2>2. ~Before(ops[k], ops[j])
    BY <2>1, BeforeOneWay
  <2>3. CASE j = k
    BY <2>2, <2>3
  <2>4. CASE k < j
    BY <1>1, <2>2, <2>4
  <2> QED
    BY <2>3, <2>4
<1>3. Ops = {ops[k] : k \in 1 .. n}
  <2>1. \A op \in OpType : op \in Ops <=> \E k \in 1 .. n : ops[k] = op
    BY <1>1, AllDone
  <2>2. \A op \in Ops : op \in OpType
    BY AllDone
  <2>3. \A k \in 1 .. n : ops[k] \in OpType
    BY <1>1
  <2> QED
    BY <2>1, <2>2, <2>3
<1>4. \A j \in 1 .. n, k \in 1 .. n : ops[j] = ops[k] => j = k
  <2> SUFFICES ASSUME NEW j \in 1 .. n, NEW k \in 1 .. n, ops[j] = ops[k] PROVE j = k
    OBVIOUS
  <2>1. ~(j < k) /\ ~(k < j)
    BY <1>2
  <2> QED
    BY <2>1
<1>5. ASSUME NEW k \in 0 .. n
      PROVE  Cardinality({ops[j] : j \in 1 .. k}) = k
  <2> DEFINE S == {ops[j] : j \in 1 .. k}
             f == [j \in 1 .. k |-> ops[j]]
  <2>1. k \in Nat /\ \A j \in 1 .. k : j \in 1 .. n
    BY <1>1
  <2>2. f \in Bijection(1 .. k, S)
    <3>1. \A j \in 1 .. k : f[j] \in S
      OBVIOUS
    <3>2. \A i \in 1 .. k, j \in 1 .. k : f[i] = f[j] => i = j
      BY <1>4, <2>1
    <3>3. \A x \in S : \E j \in 1 .. k : f[j] = x
      OBVIOUS
    <3> QED
      BY <3>1, <3>2, <3>3, Fun_IsBij
  <2> HIDE DEF S
  <2>3. Cardinality(S) = k
    BY <2>1, <2>2, FS_CountingElements DEF ExistsBijection
  <2> QED
    BY <2>3 DEF S
<1>6. Cardinality(Ops) = n
  BY <1>1, <1>3, <1>5
<1>7. ASSUME NEW k \in 1 .. n
      PROVE  Cardinality({p \in Ops : Before(p, ops[k])}) = k - 1
  <2>1. {p \in Ops : Before(p, ops[k])} = {ops[j] : j \in 1 .. (k - 1)}
    <3>1. \A j \in 1 .. n : Before(ops[j], ops[k]) <=> j \in 1 .. (k - 1)
      BY <1>1, <1>2
    <3>2. \A j \in 1 .. (k - 1) : j \in 1 .. n
      BY <1>1
    <3> QED
      BY <1>3, <3>1, <3>2, Zenon
  <2>2. k - 1 \in 0 .. n
    BY <1>1
  <2> QED
    BY <1>5, <2>1, <2>2
<1>8. ASSUME NEW k \in 1 .. n
      PROVE  (CHOOSE op \in Ops : Cardinality({p \in Ops : Before(p, op)}) = k - 1) = ops[k]
  <2>1. ops[k] \in Ops /\ Cardinality({p \in Ops : Before(p, ops[k])}) = k - 1
    BY <1>3, <1>7
  <2>2. ASSUME NEW op \in Ops, Cardinality({p \in Ops : Before(p, op)}) = k - 1
        PROVE  op = ops[k]
    <3>1. PICK m \in 1 .. n : op = ops[m]
      BY <1>3
    <3>2. m - 1 = k - 1
      BY <1>7, <2>2, <3>1
    <3>3. m = k
      BY <1>1, <3>2
    <3> QED
      BY <3>1, <3>3
  <2> QED
    BY <2>1, <2>2
<1> DEFINE Pick(k) == CHOOSE op \in Ops : Cardinality({p \in Ops : Before(p, op)}) = k - 1
<1>9. SortedOps = [k \in 1 .. n |-> Pick(k)]
  BY <1>6 DEF SortedOps
<1>10. \A k \in 1 .. n : Pick(k) = ops[k]
  BY <1>8
<1> HIDE DEF Pick
<1> QED
  BY <1>1, <1>9, <1>10

\* The rows of every completed trial pass verify_cache_rows: each is what its
\* site and the last evaluated image require, and the replay of all of them, in
\* the order that the orchestrator rebuilds from the rows, comes to no failure.
THEOREM RowsAreAccepted == Spec => []ReplayAccepts
<1>1. TrialInv /\ ReplayInv => ReplayAccepts
  <2> SUFFICES ASSUME TrialInv, ReplayInv, pc = "ended" PROVE verify_cache_rows
    BY DEF ReplayAccepts
  <2>1. replay_cache_bytes
    <3>1. PICK n, ops, accs : Log(n, ops, accs)
      BY DEF ReplayInv
    <3>2. /\ n \in Nat /\ DOMAIN ops = 1 .. n /\ accs[0] = ReplayStart
          /\ \A k \in 1 .. n : accs[k] = ReplayStep(accs[k - 1], ops[k])
          /\ accs[n].ok
      BY <3>1 DEF Log, Agrees
    <3>3. FoldLeft(ReplayStep, ReplayStart, ops) = accs[n]
      BY <3>2, FoldIs
    <3>4. SortedOps = ops
      BY <3>1, SortedIsLog
    <3> QED
      BY <3>2, <3>3, <3>4, Zenon DEF replay_cache_bytes
  <2>2. ASSUME NEW i \in DOMAIN records
        PROVE  RowOK(trial.cache[i], records[i], image, due)
    <3> DEFINE c == trial.cache[i]
               r == records[i]
    <3>1. i \in DOMAIN trial.cache
      BY DEF TrialInv, TypeOK
    <3>2. c.start \in Nat /\ c.last \in Nat /\ image \in Nat /\ c.last < Images
      BY <3>1, KeyTypes
    <3>3. cache_active = <<>> /\ (due \/ image + 1 = Images)
      BY DEF TrialInv, Progress, AfterPass
    <3>4. i \notin Range(cache_active)
      BY <3>3 DEF Range
    <3>5. /\ ~r.applied => r = NoRecord
          /\ r.applied => c.start <= image
          /\ c.start < image => r.applied
          /\ c.start = image => r.applied
          /\ r.applied => /\ r.removal # "not_applied"
                          /\ r.removal_image = IF c.last > image THEN image ELSE c.last
      BY <3>1, <3>4 DEF TrialInv, Lifetimes, AfterPass
    <3>6. CASE c.start > image
      <4>1. ~r.applied
        BY <3>2, <3>5, <3>6
      <4>2. due
        BY <3>1, <3>2, <3>3, <3>6, KeyTypes, TrialAssumption
      <4> QED
        <5>1. r.removal = "not_applied"
          BY <3>5, <4>1 DEF NoRecord
        <5>2. UnreachedRow(r, due)
          BY <4>1, <4>2, <5>1, Zenon DEF UnreachedRow
        <5> HIDE DEF c, r
        <5>3. RowOK(c, r, image, due)
          BY <3>6, <5>2, Zenon DEF RowOK
        <5> QED
          BY <5>3 DEF c, r
    <3>7. CASE ~(c.start > image)
      <4>1. r.applied
        BY <3>2, <3>5, <3>7
      <4>2. c.last > image => due
        BY <3>2, <3>3, TrialAssumption
      <4>3. /\ r.after = Xor(r.before, {c.bit})
            /\ IF ReadOnly(c.alloc)
               THEN r.removal = "re_xor" /\ r.remove_after = Xor(r.remove_before, {c.bit})
               ELSE \/ r.removal = "restored" /\ r.remove_after = Xor(r.remove_before, {c.bit})
                    \/ r.removal = "overwritten" /\ r.remove_after = r.remove_before
        BY <3>1, <3>5, <4>1 DEF ReplayInv, RowsRight
      <4>4. r.removal_image = WantedRemovalImage(c, image)
        BY <3>5, <4>1 DEF WantedRemovalImage
      <4> QED
        BY <3>7, <4>1, <4>2, <4>3, <4>4 DEF RowOK, ReachedRow
    <3> QED
      BY <3>6, <3>7
  <2> QED
    BY <2>1, <2>2 DEF verify_cache_rows
<1> QED
  BY <1>1, TrialInvHolds, ReplayInvHolds, PTL
=============================================================================
