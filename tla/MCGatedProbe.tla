---------------------------- MODULE MCGatedProbe -----------------------------
(* A small instance of GatedProbe.                                          *)
EXTENDS GatedProbe

CONSTANTS f1, f2, f3, host

Driver(how, map_offset, room, budget) ==
  [how |-> how, map_offset |-> map_offset, room |-> room, faults |-> budget]

\* A regular driver at both ends of a physical allocation, one query per page,
\* one that answers in parts, and a pipe that fills up.
MCDrivers ==
  {Driver("whole", 0, 12, 2), Driver("whole", 2, 2, 1),
   Driver("halves", 2, 12, 1), Driver("partial", 0, 12, 0)}

MCPlacements == {<<f1, f2, f3>>, <<f2, f1, f3>>, <<f1, host, f2>>}
=============================================================================
