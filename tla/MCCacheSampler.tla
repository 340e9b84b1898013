--------------------------- MODULE MCCacheSampler ---------------------------
(* Ranges that start and end at every place of a unit of two bytes, alone  *)
(* and in pairs of a read-only and an engine-written allocation, disjoint  *)
(* or sharing a unit, and one whose class is not known.                    *)
EXTENDS CacheSampler

R(base, bytes, cls) == [base |-> base, bytes |-> bytes, cls |-> cls]

MCLayouts ==
  {<<R(base, bytes, "read_only")>> : base \in 0 .. 1, bytes \in 1 .. 3}
  \cup {<<R(base, 1, "read_only"), R(2, bytes, "engine_written")>> :
          base \in 0 .. 1, bytes \in 1 .. 2}
  \cup {<<R(0, 1, "read_only"), R(1, 2, "engine_written")>>,
        <<R(0, 3, "read_only"), R(3, 1, "engine_written")>>,
        <<R(1, 1, "read_only"), R(3, 1, "unknown")>>}
=============================================================================
