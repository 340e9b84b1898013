--------------------------- MODULE MCCampaignTrial --------------------------
(* Small instances of CampaignTrial and CacheReplay.                        *)
EXTENDS CacheReplay, TLC

\* Two images that differ in every bit, so that a fault of one image left in
\* the input of the next shows; no bit is special, so Bits is a symmetry set.
MCInput == [i \in Image |-> IF i = 0 THEN {} ELSE Bits]

BitSymmetry == Permutations(Bits)
=============================================================================
