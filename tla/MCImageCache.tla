---------------------------- MODULE MCImageCache -----------------------------
(***************************************************************************)
(* Two runners with either settings over two sample lists and two versions *)
(* of the images.  The keys of all settings and lists share one name: the  *)
(* file of one is a mismatch to the others, and is replaced by theirs.     *)
(***************************************************************************)
EXTENDS ImageCache, TLC

CONSTANTS r1, r2, spec1, spec2, listA, listB, name, pid1, pid2

MCRunners == {r1, r2}
MCSettings == {spec1, spec2}
MCLists == {listA, listB}
MCPids == {pid1, pid2}
MCPathOf == [k \in Keys |-> name]
MCEdits == {"csv", "images", "binary"}

MCSymmetry ==
  Permutations(MCRunners) \cup Permutations(MCPids)
    \cup Permutations(MCSettings) \cup Permutations(MCLists)
=============================================================================
