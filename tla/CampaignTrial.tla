--------------------------- MODULE CampaignTrial ----------------------------
(***************************************************************************)
(* One campaign trial after another on device memory                       *)
(* (src/apps/resnet50_int8_g1_5.cpp, the trial loop of main and            *)
(* run_campaign_image): flip the DRAM sites, run the evaluation pass with  *)
(* the faults held and the cache flips applied and removed around their    *)
(* images, restore, check, sanity inference.                               *)
(*                                                                         *)
(* A byte is the set of its bits that are 1, so that XOR is the symmetric  *)
(* difference.  One byte stands for the bytes of an allocation that faults *)
(* hit; bytes that share no fault do not interact.  The engine is          *)
(* external: an enqueue rewrites every output, may rewrite scratch, never  *)
(* writes weights or the input, and may fail.                              *)
(***************************************************************************)
EXTENDS Integers, Sequences, SequencesExt

CONSTANTS
  Weights,     \* read-only TensorRT allocations (cache class read_only)
  Scratch,     \* TensorRT allocations that the engine rewrites
  Input,       \* the input binding
  Outputs,     \* the probability and class bindings
  Bits,        \* bits of a byte
  Images,      \* images of the evaluation pass
  campaign_input,  \* what is staged for each image
  sample_index,    \* options.sample_index, the sanity image
  MaxDram,     \* bound: DRAM sites of a trial
  MaxCache,    \* bound: cache sites of a trial
  MaxFaults    \* bound: sites of a trial of both kinds

ASSUME TrialAssumption ==
  /\ Images \in Nat \ {0}
  /\ campaign_input \in [0 .. (Images - 1) -> SUBSET Bits]
  /\ sample_index \in 0 .. (Images - 1)
  /\ MaxDram \in Nat /\ MaxCache \in Nat /\ MaxFaults \in Nat
  /\ Weights \cap (Scratch \cup Outputs \cup {Input}) = {}
  /\ Scratch \cap (Outputs \cup {Input}) = {}
  /\ Input \notin Outputs

Alloc == Weights \cup Scratch \cup Outputs \cup {Input}
Byte == SUBSET Bits
Image == 0 .. (Images - 1)

Xor(x, y) == (x \ y) \cup (y \ x)

\* bindings (TENSOR:...) and scratch are engine-written, weights read-only.
ReadOnly(a) == a \in Weights

Site == [alloc: Alloc, bit: Bits]

\* A cache site lives from start to last; an engine-written one for its start
\* image only (sample_trial: last = p_end if READ_ONLY else start).
CacheSite ==
  {c \in [alloc: Alloc, bit: Bits, start: Image, last: Image] :
     /\ c.start <= c.last
     /\ ~ReadOnly(c.alloc) => c.last = c.start}

\* Two cache sites on one bit have disjoint lifetimes (redrawn by sample_trial,
\* re-checked by verify_cache_work).
Placeable(c, d) ==
  c.alloc = d.alloc /\ c.bit = d.bit => c.last < d.start \/ c.start > d.last

SeqUpTo(S, n) == UNION {[1..k -> S] : k \in 0..n}

Distinct(s) == \A i, j \in DOMAIN s : i # j => s[i] # s[j]

Trials ==
  {t \in [dram: SeqUpTo(Site, MaxDram), cache: SeqUpTo(CacheSite, MaxCache)] :
     /\ Len(t.dram) + Len(t.cache) <= MaxFaults
     /\ Distinct(t.dram)
     /\ \A i, j \in DOMAIN t.cache : i # j => Placeable(t.cache[i], t.cache[j])}

NoByteState ==
  [pristine |-> {}, active_mask |-> {}, active_count |-> 0, overwritten |-> FALSE]

NoRecord ==
  [applied |-> FALSE, before |-> {}, after |-> {}, removal |-> "not_applied",
   removal_image |-> 0, remove_before |-> {}, remove_after |-> {}]

VARIABLES
  memory,          \* device memory
  trial,           \* the work of the current trial
  pristine,        \* host copy of memory taken before the flips
  pc,              \* what main does next
  flipped,         \* records.size(): DRAM sites flipped and not yet restored
  image,           \* image_index, the last evaluated image after the pass
  records,         \* CacheRecord of every cache site of the trial
  cache_active,    \* indices of the applied cache flips, in application order
  visited,         \* entries of cache_active that this remove_cache call kept
  cache_bytes,     \* CacheByteState of each byte (erased: NoByteState)
  due,             \* the last image's output was invalid
  error            \* why main threw, or "none"

vars == <<memory, trial, pristine, pc, flipped, image, records,
          cache_active, visited, cache_bytes, due, error>>

passVars == <<records, cache_active, visited, cache_bytes, due>>

\* flip_device_bit: XOR one bit of one byte.
Flip(m, s) == [m EXCEPT ![s.alloc] = Xor(@, {s.bit})]

\* The DRAM sites of a trial as one mask per allocation.
MaskOf(a, sites) == {s.bit : s \in {u \in Range(sites) : u.alloc = a}}

NoWork == [dram |-> <<>>, cache |-> <<>>]

Clean == [a \in Alloc |-> {}]

\* The loaded weights are taken as the origin of every value; the locals of the
\* loop body are at these values between two trials.
Init ==
  /\ memory = Clean
  /\ trial = NoWork
  /\ pristine = Clean
  /\ pc = "idle"
  /\ flipped = 0
  /\ image = 0
  /\ records = <<>>
  /\ cache_active = <<>>
  /\ visited = 0
  /\ cache_bytes = [a \in Alloc |-> NoByteState]
  /\ due = FALSE
  /\ error = "none"

Throw(why) == pc' = "thrown" /\ error' = why

LocalsGone ==
  /\ trial' = NoWork /\ pristine' = Clean /\ flipped' = 0 /\ image' = 0
  /\ records' = <<>> /\ cache_active' = <<>> /\ visited' = 0
  /\ cache_bytes' = [a \in Alloc |-> NoByteState]
  /\ due' = FALSE

\* Go on at pc = next, or throw if the code's check fails.
CheckedGoto(ok, next, why) ==
  /\ pc' = IF ok THEN next ELSE "thrown"
  /\ error' = IF ok THEN error ELSE why

-----------------------------------------------------------------------------
(* Before the pass.                                                        *)

\* TRIAL_BEGIN: the trial's work, and the pristine snapshot.
TrialBegin ==
  /\ pc = "idle"
  /\ trial' \in Trials
  /\ pristine' = memory
  /\ pc' = "flip"
  /\ records' = [i \in DOMAIN trial'.cache |-> NoRecord]
  /\ UNCHANGED <<memory, flipped, image, cache_active, visited, cache_bytes, due, error>>

\* The next site in work order, SITE_FLIPPED.
FlipSite ==
  /\ pc = "flip"
  /\ flipped < Len(trial.dram)
  /\ memory' = Flip(memory, trial.dram[flipped + 1])
  /\ flipped' = flipped + 1
  /\ UNCHANGED <<trial, pristine, pc, image, passVars, error>>

\* Every touched allocation must equal pristine ^ its site masks.
GuardCompare ==
  /\ pc = "flip"
  /\ flipped = Len(trial.dram)
  /\ CheckedGoto(\A a \in {s.alloc : s \in Range(trial.dram)} :
                   memory[a] = Xor(pristine[a], MaskOf(a, trial.dram)),
                 "stage", "guard")
  /\ UNCHANGED <<memory, trial, pristine, flipped, image,
                 passVars>>

-----------------------------------------------------------------------------
(* run_campaign_image.                                                     *)

\* Mutant: the held faults of the input are not put back after the copy.
StageInputOnly ==
  /\ pc = "stage"
  /\ memory' = [memory EXCEPT ![Input] = campaign_input[image]]
  /\ pc' = "apply"
  /\ UNCHANGED <<trial, pristine, flipped, image, passVars,
                 error>>

\* The input is copied and its held DRAM faults are applied again.
StageInput ==
  /\ pc = "stage"
  /\ memory' = [memory EXCEPT ![Input] =
                  Xor(campaign_input[image], MaskOf(Input, trial.dram))]
  /\ pc' = "apply"
  /\ UNCHANGED <<trial, pristine, flipped, image, passVars,
                 error>>

\* cache_starts[image], in cache_index order.
ToApply == {i \in DOMAIN trial.cache :
              trial.cache[i].start = image /\ ~records[i].applied}

\* Mutant: the mask of the byte is set, not accumulated.
ApplyCacheLastMask ==
  /\ pc = "apply"
  /\ \E i \in ToApply :
       /\ \A j \in ToApply : i <= j
       /\ LET c      == trial.cache[i]
              b      == cache_bytes[c.alloc]
              before == memory[c.alloc]
          IN /\ memory' = Flip(memory, c)
             /\ records' = [records EXCEPT
                  ![i].applied = TRUE, ![i].before = before,
                  ![i].after = Xor(before, {c.bit})]
             /\ cache_active' = Append(cache_active, i)
             /\ cache_bytes' = [cache_bytes EXCEPT ![c.alloc] =
                  [pristine     |-> IF b.active_count = 0 THEN before
                                                          ELSE b.pristine,
                   active_mask  |-> {c.bit},
                   active_count |-> b.active_count + 1,
                   overwritten  |-> b.overwritten]]
  /\ UNCHANGED <<trial, pristine, pc, flipped, image, visited,
                 due, error>>

\* apply_cache for one site.  A byte that already carries a flip must still
\* read pristine ^ active_mask, unless the engine is known to have rewritten it.
ApplyCache ==
  /\ pc = "apply"
  /\ \E i \in ToApply :
       /\ \A j \in ToApply : i <= j
       /\ LET c       == trial.cache[i]
              b       == cache_bytes[c.alloc]
              before  == memory[c.alloc]
              changed == /\ b.active_count > 0
                         /\ ~b.overwritten
                         /\ before # Xor(b.pristine, b.active_mask)
          IN /\ memory' = Flip(memory, c)
             /\ CheckedGoto(~(changed /\ ReadOnly(c.alloc)), "apply", "read_only")
             /\ records' = [records EXCEPT
                  ![i].applied = TRUE, ![i].before = before,
                  ![i].after = Xor(before, {c.bit})]
             /\ cache_active' = Append(cache_active, i)
             /\ cache_bytes' = [cache_bytes EXCEPT ![c.alloc] =
                  [pristine     |-> IF b.active_count = 0 THEN before
                                                          ELSE b.pristine,
                   active_mask  |-> Xor(b.active_mask, {c.bit}),
                   active_count |-> b.active_count + 1,
                   overwritten  |-> b.overwritten \/ changed]]
  /\ UNCHANGED <<trial, pristine, flipped, image, visited,
                 due>>

\* enqueue_inference returns: every output is rewritten, scratch may be.
Enqueue ==
  /\ pc = "apply"
  /\ ToApply = {}
  /\ \E S \in SUBSET Scratch : \E w \in [Outputs \cup S -> Byte] :
       memory' = [a \in Alloc |-> IF a \in Outputs \cup S THEN w[a] ELSE memory[a]]
  /\ pc' = "readback"
  /\ UNCHANGED <<trial, pristine, flipped, image, records,
                 cache_active, visited, cache_bytes, due, error>>

\* A CUDA call or the enqueue fails: main throws, and the process ends with all
\* that it had.
EngineFails ==
  /\ pc \in {"flip", "stage", "apply", "readback", "remove", "restore", "sanity"}
  /\ Throw("cuda")
  /\ memory' = Clean
  /\ LocalsGone

\* The output sites are applied again, then the outputs are copied back; the
\* output is valid, or invalid (a DUE).  What a valid output is classified as
\* changes no later step and is left out.
Readback ==
  /\ pc = "readback"
  /\ memory' = [a \in Alloc |-> IF a \in Outputs
                                THEN Xor(memory[a], MaskOf(a, trial.dram))
                                ELSE memory[a]]
  /\ due' \in BOOLEAN
  /\ visited' = 0
  /\ pc' = "remove"
  /\ UNCHANGED <<trial, pristine, flipped, image, records,
                 cache_active, cache_bytes, error>>

-----------------------------------------------------------------------------
(* remove_cache(image, due): one entry of cache_active at a time, in        *)
(* application order.                                                      *)

Visiting == pc = "remove" /\ visited < Len(cache_active)

\* Mutant: an abort does not remove what would have lived on.
ToRemoveAtLastOnly(c) == c.last = image

\* The entry is due: its last image was this one, or the trial aborts.
ToRemove(c) == due \/ c.last = image

KeepCache ==
  /\ Visiting
  /\ ~ToRemove(trial.cache[cache_active[visited + 1]])
  /\ visited' = visited + 1
  /\ UNCHANGED <<memory, trial, pristine, pc, flipped, image, records,
                 cache_active, cache_bytes, due, error>>

\* !overwritten && current == pristine ^ active_mask.
Intact(a) ==
  LET b == cache_bytes[a]
  IN ~b.overwritten /\ memory[a] = Xor(b.pristine, b.active_mask)

\* Record i is finished, leaving its byte as after; mark sets overwritten.
FinishRemoval(i, removal, after, mark) ==
  LET c == trial.cache[i]
      b == cache_bytes[c.alloc]
  IN /\ records' = [records EXCEPT
          ![i].removal = removal, ![i].removal_image = image,
          ![i].remove_before = memory[c.alloc], ![i].remove_after = after]
     /\ cache_active' = RemoveAt(cache_active, visited + 1)
     /\ cache_bytes' = [cache_bytes EXCEPT ![c.alloc] =
          IF b.active_count = 1 THEN NoByteState
          ELSE [b EXCEPT !.active_mask = Xor(@, {c.bit}),
                         !.active_count = @ - 1,
                         !.overwritten = @ \/ mark]]

\* Mutant: the cursor also advances past the entry that was erased.
UnflipCacheSkips ==
  /\ Visiting
  /\ LET i     == cache_active[visited + 1]
         c     == trial.cache[i]
         after == Xor(memory[c.alloc], {c.bit})
     IN /\ ToRemove(c)
        /\ ReadOnly(c.alloc) \/ Intact(c.alloc)
        /\ memory' = [memory EXCEPT ![c.alloc] = after]
        /\ FinishRemoval(i, IF ReadOnly(c.alloc) THEN "re_xor" ELSE "restored",
                         after, FALSE)
        /\ visited' = visited + 1
  /\ UNCHANGED <<trial, pristine, pc, flipped, image, due, error>>

\* Mutant: an engine-written byte is flipped back whatever it holds.
UnflipCacheAlways ==
  /\ Visiting
  /\ LET i     == cache_active[visited + 1]
         c     == trial.cache[i]
         after == Xor(memory[c.alloc], {c.bit})
     IN /\ ToRemove(c)
        /\ memory' = [memory EXCEPT ![c.alloc] = after]
        /\ FinishRemoval(i, IF ReadOnly(c.alloc) THEN "re_xor" ELSE "restored",
                         after, FALSE)
  /\ UNCHANGED <<trial, pristine, pc, flipped, image, visited, due, error>>

\* Read-only, or the engine left the byte alone as far as its value tells:
\* flip the bit back.  A read-only byte must have been intact, and must be back
\* at its pre-cache value when its last flip goes.
UnflipCache ==
  /\ Visiting
  /\ LET i     == cache_active[visited + 1]
         c     == trial.cache[i]
         b     == cache_bytes[c.alloc]
         after == Xor(memory[c.alloc], {c.bit})
     IN /\ ToRemove(c)
        /\ ReadOnly(c.alloc) \/ Intact(c.alloc)
        /\ memory' = [memory EXCEPT ![c.alloc] = after]
        /\ CheckedGoto(~ReadOnly(c.alloc)
                         \/ /\ Intact(c.alloc)
                            /\ b.active_count = 1 => after = b.pristine,
                       "remove", "read_only")
        /\ FinishRemoval(i, IF ReadOnly(c.alloc) THEN "re_xor" ELSE "restored",
                         after, FALSE)
  /\ UNCHANGED <<trial, pristine, flipped, image, visited, due>>

\* An engine-written byte with another value: the engine rewrote it, and the
\* flip went with that.
LeaveOverwritten ==
  /\ Visiting
  /\ LET i == cache_active[visited + 1]
         c == trial.cache[i]
     IN /\ ToRemove(c)
        /\ ~ReadOnly(c.alloc) /\ ~Intact(c.alloc)
        /\ FinishRemoval(i, "overwritten", memory[c.alloc], TRUE)
  /\ UNCHANGED <<memory, trial, pristine, pc, flipped, image, visited,
                 due, error>>

Removed == pc = "remove" /\ visited = Len(cache_active)

\* The pass goes on with the next image, or ends: after the last one, or at
\* the first invalid output (the other images are rows with evaluated = 0).
NextImage ==
  /\ Removed
  /\ ~due /\ image + 1 < Images
  /\ image' = image + 1
  /\ pc' = "stage"
  /\ UNCHANGED <<memory, trial, pristine, flipped, records, cache_active,
                 visited, cache_bytes, due, error>>

PassEnd ==
  /\ Removed
  /\ due \/ image + 1 = Images
  /\ pc' = "restore"
  /\ UNCHANGED <<memory, trial, pristine, flipped, image, records, cache_active,
                 visited, cache_bytes, due, error>>

-----------------------------------------------------------------------------
(* After the pass.                                                         *)

\* Mutant: the last site in work order is not restored.
RestoreSiteButLast ==
  /\ pc = "restore"
  /\ flipped > 0
  /\ memory' = IF flipped = Len(trial.dram) THEN memory
               ELSE Flip(memory, trial.dram[flipped])
  /\ flipped' = flipped - 1
  /\ UNCHANGED <<trial, pristine, pc, image, passVars, error>>

\* SITE_RESTORED, in reverse work order.  restored_byte_ok is recorded only.
RestoreSite ==
  /\ pc = "restore"
  /\ flipped > 0
  /\ memory' = Flip(memory, trial.dram[flipped])
  /\ flipped' = flipped - 1
  /\ UNCHANGED <<trial, pristine, pc, image, passVars, error>>

\* The input binding must be the last evaluated image again; the other
\* allocations are compared for the record only.
InputCheck ==
  /\ pc = "restore"
  /\ flipped = 0
  /\ CheckedGoto(memory[Input] = campaign_input[image], "sanity", "input")
  /\ UNCHANGED <<memory, trial, pristine, flipped, image, passVars>>

ScratchTouched ==
  \E a \in Scratch : \/ \E i \in DOMAIN trial.dram : trial.dram[i].alloc = a
                     \/ \E i \in DOMAIN trial.cache : trial.cache[i].alloc = a

\* The sanity image is staged and inferred.  With the loaded weights and no
\* fault left in scratch the engine repeats the clean output; otherwise it may
\* diverge, and main throws.
SanityHolds ==
  /\ pc = "sanity"
  /\ \E S \in SUBSET Scratch : \E w \in [Outputs \cup S -> Byte] :
       memory' = [a \in Alloc |->
                    CASE a = Input          -> campaign_input[sample_index]
                      [] a \in Outputs \cup S -> w[a]
                      [] OTHER              -> memory[a]]
  /\ pc' = "ended"
  /\ UNCHANGED <<trial, pristine, flipped, image, passVars, error>>

SanityDiverges ==
  /\ pc = "sanity"
  /\ ScratchTouched \/ \E a \in Weights : memory[a] # {}
  /\ Throw("sanity")
  /\ memory' = Clean
  /\ LocalsGone

\* No cache flip may be active; the rows are flushed, TRIAL_END.  Either way
\* the locals of the loop body are gone.
TrialEnd ==
  /\ pc = "ended"
  /\ CheckedGoto(cache_active = <<>>, "idle", "active")
  /\ LocalsGone
  /\ UNCHANGED memory

\* The campaign is over, or main threw: the process ends.
Stop == pc \in {"idle", "thrown"} /\ UNCHANGED vars

Next ==
  \/ TrialBegin
  \/ FlipSite
  \/ GuardCompare
  \/ StageInput
  \/ ApplyCache
  \/ Enqueue
  \/ EngineFails
  \/ Readback
  \/ KeepCache
  \/ UnflipCache
  \/ LeaveOverwritten
  \/ NextImage
  \/ PassEnd
  \/ RestoreSite
  \/ InputCheck
  \/ SanityHolds
  \/ SanityDiverges
  \/ TrialEnd
  \/ Stop

Spec == Init /\ [][Next]_vars

-----------------------------------------------------------------------------
(* Properties.                                                             *)

\* The fail-closed checks (guard compare, read-only bytes, input binding,
\* leftover cache flips) watch the device; the runner's own order of flipping,
\* staging, removing and restoring never trips one of them.
ChecksNeverSelfInflicted ==
  error \notin {"guard", "read_only", "input", "active"}

\* The bits of allocation a that the cache sites in force for the image flip.
CacheMask(a) ==
  {c.bit : c \in {d \in Range(trial.cache) :
                    d.alloc = a /\ d.start <= image /\ image <= d.last}}

\* What the engine is given: at every enqueue each weight and the input differ
\* from their clean content by exactly the trial's DRAM sites and the cache
\* sites whose lifetime holds the image, whatever was applied, removed and
\* staged again before; and in between "the byte must then read pristine ^
\* active_mask at all times [...] whatever order the flips are removed in"
\* (src/apps/resnet50_int8_g1_5.cpp:3225), over several flips of one byte.
ExactExposure ==
  \A a \in Weights \cup {Input} :
    /\ pc = "apply" /\ ToApply = {} =>
         memory[a] = Xor(Xor(IF a = Input THEN campaign_input[image] ELSE {},
                             MaskOf(a, trial.dram)),
                         CacheMask(a))
    /\ cache_bytes[a].active_count > 0 =>
         memory[a] = Xor(cache_bytes[a].pristine, cache_bytes[a].active_mask)

\* No trial leaves a trace for the next one: the weights are clean again,
\* aborted passes and DRAM and cache flips of one bit included, and every cache
\* site whose start image was reached has been applied and removed, at its last
\* image unless the pass aborted before.
TrialLeavesNoTrace ==
  /\ pc \in {"idle", "ended"} => \A a \in Weights : memory[a] = {}
  /\ pc = "ended" =>
       \A i \in DOMAIN records :
         LET c == trial.cache[i] IN
         IF c.start > image
         THEN records[i] = NoRecord /\ due
         ELSE /\ records[i].applied /\ records[i].removal # "not_applied"
              /\ records[i].removal_image = IF c.last > image THEN image ELSE c.last
=============================================================================
