------------------------ MODULE MCTrackingAllocator -------------------------
(***************************************************************************)
(* Small instances of TrackingAllocator: a few addresses, so that cudaMalloc *)
(* must recycle ranges that another thread is giving back.                 *)
(***************************************************************************)
EXTENDS TrackingAllocator, TLC

ThreadSymmetry == Permutations(Threads)
=============================================================================
