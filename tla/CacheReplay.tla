---------------------------- MODULE CacheReplay -----------------------------
(***************************************************************************)
(* The orchestrator's re-verification of the cache rows of a completed     *)
(* trial (src/tools/g5_faultinj/run_g5_campaign.py, verify_cache_rows and  *)
(* replay_cache_bytes), written against the runner's records: an           *)
(* independent replay of the byte values, in an order rebuilt from the     *)
(* rows alone.  The identity fields of a row are not modelled.             *)
(***************************************************************************)
EXTENDS CampaignTrial

-----------------------------------------------------------------------------
(* verify_cache_rows, one row.                                             *)

UnreachedRow(row, aborted) == aborted /\ ~row.applied /\ row.removal = "not_applied"

WantedRemovalImage(site, last_eval) ==
  IF site.last > last_eval THEN last_eval ELSE site.last

ReachedRow(site, row, last_eval, aborted) ==
  /\ row.applied
  /\ row.after = Xor(row.before, {site.bit})
  /\ site.last > last_eval => aborted
  /\ row.removal_image = WantedRemovalImage(site, last_eval)
  /\ IF ReadOnly(site.alloc)
     THEN /\ row.removal = "re_xor"
          /\ row.remove_after = Xor(row.remove_before, {site.bit})
     ELSE \/ /\ row.removal = "restored"
             /\ row.remove_after = Xor(row.remove_before, {site.bit})
          \/ /\ row.removal = "overwritten"
             /\ row.remove_after = row.remove_before

RowOK(site, row, last_eval, aborted) ==
  IF site.start > last_eval THEN UnreachedRow(row, aborted)
                            ELSE ReachedRow(site, row, last_eval, aborted)

-----------------------------------------------------------------------------
(* replay_cache_bytes.                                                     *)

\* The sort key: applies of an image before its removals, which follow the
\* order of application.
Key(op) ==
  IF op.kind = "apply"
  THEN <<trial.cache[op.index].start, 0, op.index, 0>>
  ELSE <<records[op.index].removal_image, 1, trial.cache[op.index].start, op.index>>

LexLess(s, t) ==
  \E k \in DOMAIN s : s[k] < t[k] /\ \A m \in 1 .. (k - 1) : s[m] = t[m]

\* Mutant: applies are not put before the removals of their image.
BeforeUnordered(p, q) ==
  LexLess(<<Key(p)[1], 1 - Key(p)[2], Key(p)[3], Key(p)[4]>>,
          <<Key(q)[1], 1 - Key(q)[2], Key(q)[3], Key(q)[4]>>)

Before(p, q) == LexLess(Key(p), Key(q))

Ops == [kind: {"apply", "remove"},
        index: {i \in DOMAIN records : trial.cache[i].start <= image}]

NoReplay == [pristine |-> {}, value |-> {}, active |-> 0, overwritten |-> FALSE]

\* One step of the replay; acc.ok is "no failure so far".
ReplayApply(acc, site, row) ==
  LET b       == acc.bytes[site.alloc]
      changed == b.active > 0 /\ ~b.overwritten /\ row.before # b.value
  IN [ok    |-> acc.ok /\ ~(changed /\ ReadOnly(site.alloc)),
      bytes |-> [acc.bytes EXCEPT ![site.alloc] =
        [pristine    |-> IF b.active = 0 THEN row.before ELSE b.pristine,
         value       |-> row.after,
         active      |-> b.active + 1,
         overwritten |-> b.overwritten \/ changed]]]

ReplayRemove(acc, site, row) ==
  LET b      == acc.bytes[site.alloc]
      intact == ~b.overwritten /\ row.remove_before = b.value
  IN [ok    |-> /\ acc.ok
                /\ b.active > 0
                /\ IF ReadOnly(site.alloc) THEN intact
                   ELSE (row.removal = "restored") = intact
                /\ b.active = 1 /\ ReadOnly(site.alloc) =>
                     row.remove_after = b.pristine,
      bytes |-> [acc.bytes EXCEPT ![site.alloc] =
        IF b.active = 1 THEN NoReplay
        ELSE [b EXCEPT !.value = row.remove_after, !.active = @ - 1,
                       !.overwritten = @ \/ row.removal = "overwritten"]]]

ReplayStep(acc, op) ==
  IF op.kind = "apply"
  THEN ReplayApply(acc, trial.cache[op.index], records[op.index])
  ELSE ReplayRemove(acc, trial.cache[op.index], records[op.index])

\* Python's sorted: all operations in the order of their keys.
SortedOps ==
  [k \in 1 .. Cardinality(Ops) |->
     CHOOSE op \in Ops : Cardinality({p \in Ops : Before(p, op)}) = k - 1]

ReplayStart == [ok |-> TRUE, bytes |-> [a \in Alloc |-> NoReplay]]

replay_cache_bytes == FoldLeft(ReplayStep, ReplayStart, SortedOps).ok

verify_cache_rows ==
  /\ \A i \in DOMAIN records :
       RowOK(trial.cache[i], records[i], image, due)
  /\ replay_cache_bytes

-----------------------------------------------------------------------------
\* The runner and the orchestrator agree: the rows of every trial that the
\* runner completes pass the re-verification, whatever the engine wrote, and
\* for flips that share a byte and overlap in time.
ReplayAccepts == pc = "ended" => verify_cache_rows
=============================================================================
