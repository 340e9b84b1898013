---------------------------- MODULE ResidencyMap ----------------------------
(***************************************************************************)
(* The L2 probe pass of the runner: run_l2_probe_pass of                   *)
(* src/apps/resnet50_int8_g1_5.cpp with L2Prober                           *)
(* (src/src/injector/l2_probe.cu) and ResidencyMapBuilder                  *)
(* (src/src/semantic/residency_map.cpp).                                   *)
(*                                                                         *)
(* Before every Every-th image a sweep probes each stride-th unit, the     *)
(* phase moving on with every sweep. The kernel writes the latencies of    *)
(* the probed units to the front of the output buffer, the host scatters   *)
(* them to an array of all units, and the map builder turns hits and       *)
(* misses into periods of residency. What is in the cache is the           *)
(* hardware's: any load may hit or miss.                                   *)
(***************************************************************************)
EXTENDS L2Units, FiniteSets, SequencesExt

CONSTANTS
  Layouts,         \* the probed ranges of the instances
  Images,          \* samples.size()
  Every,           \* --l2-probe-every
  Strides,         \* --l2-probe-stride, where it is not auto
  PresweepStride, MidStride, LargeStride,
  Alternate,       \* --l2-probe-alternate
  PassChoices      \* --l2-probe-passes

ASSUME ProbeAssumption ==
  /\ \A layout \in Layouts : layout \in Seq(ProbeRange) /\ layout # <<>>
  /\ Images \in Nat \ {0}
  /\ Every \in Nat \ {0}
  /\ Strides \subseteq Nat \ {0}
  /\ {PresweepStride, MidStride, LargeStride} \subseteq Nat \ {0}
  /\ Alternate \in BOOLEAN
  /\ PassChoices \subseteq Nat \ {0}

VARIABLES
  layout, passes, stride,
  device,                 \* the output buffer: is the latency below the threshold
  latency,                \* host_latency_, classified in the same way
  phase, last_reverse,    \* of the last sweep
  pass, image, sweeps,
  cursor,                 \* u of the loop over the probed units
  open_start, last_seen, closed,   \* ResidencyMapBuilder, kNone as None
  offsets, periods,
  seen,                   \* history: what each load of this pass really found
  pc, error

proberVars == <<layout, passes, stride, device, latency, phase, last_reverse>>
builderVars == <<open_start, last_seen, closed, offsets, periods>>
vars == <<proberVars, pass, image, sweeps, cursor, builderVars, seen, pc, error>>

None == -1

Units == UnitIds(layout)

NewBuilder(units) ==
  /\ open_start' = [u \in units |-> None]
  /\ last_seen' = [u \in units |-> None]
  /\ closed' = <<>>
  /\ offsets' = <<>>
  /\ periods' = <<>>

Init ==
  /\ layout \in Layouts /\ passes \in PassChoices
  /\ stride = 1
  /\ device = [u \in Units |-> TRUE]
  /\ latency = [u \in Units |-> TRUE]
  /\ phase = 0
  /\ last_reverse = FALSE
  /\ pass = 0 /\ image = 0 /\ sweeps = 0 /\ cursor = 0
  /\ open_start = [u \in Units |-> None]
  /\ last_seen = [u \in Units |-> None]
  /\ closed = <<>> /\ offsets = <<>> /\ periods = <<>>
  /\ seen = {}
  /\ pc = "construct"
  /\ error = "none"

-----------------------------------------------------------------------------
(* L2Prober.                                                               *)

Throw(what) == pc' = "threw" /\ error' = what

\* The units of a sweep in the order of the compact buffer.
ProbedUnit(p, s, k) == p + k * s

probed_n(p, s) ==
  IF total_units(layout) > p THEN (total_units(layout) - p + s - 1) \div s ELSE 0

\* The kernel: out[k] for the k-th probed unit, the rest of the buffer as it was.
Kernel(p, s, hits) ==
  [k \in DOMAIN device |->
     IF k < probed_n(p, s) THEN ProbedUnit(p, s, k) \in hits ELSE device[k]]

Refuse ==
  /\ pc = "construct"
  /\ SharesUnit(layout)
  /\ Throw("ranges overlap at probe-unit granularity")
  /\ UNCHANGED <<proberVars, pass, image, sweeps, cursor, builderVars, seen>>

ConstructFixed ==
  /\ pc = "construct"
  /\ ~SharesUnit(layout)
  /\ stride' \in Strides
  /\ pc' = "boundary"
  /\ UNCHANGED <<layout, passes, device, latency, phase, last_reverse, pass, image, sweeps,
                 cursor, builderVars, seen, error>>

\* Stride auto: a sweep of another prober over the same output buffer, then the
\* share of misses decides (at most 1 %, at most half).
ConstructAuto ==
  /\ pc = "construct"
  /\ ~SharesUnit(layout)
  /\ LET n == probed_n(0, PresweepStride)
         presweep == {ProbedUnit(0, PresweepStride, k) : k \in 0 .. (n - 1)}
     IN \E hits \in SUBSET presweep :
          LET misses == n - Cardinality(hits)
          IN /\ device' = Kernel(0, PresweepStride, hits)
             /\ stride' = IF 100 * misses <= n THEN 1
                          ELSE IF 2 * misses <= n THEN MidStride ELSE LargeStride
  /\ pc' = "boundary"
  /\ UNCHANGED <<layout, passes, latency, phase, last_reverse, pass, image, sweeps, cursor,
                 builderVars, seen, error>>

\* Mutant: the whole output buffer is taken for the latencies of all units.
ScatterAll(p, s, compact) == [u \in Units |-> compact[u]]

\* host_latency_[phase_ + k * stride_] = compact_[k], in probe.
Scatter(p, s, compact) ==
  [u \in Units |->
     IF \E k \in 0 .. (probed_n(p, s) - 1) : u = ProbedUnit(p, s, k)
       THEN compact[(u - p) \div s] ELSE latency[u]]

\* Mutant: the direction flips with every sweep.
DirectionPerSweep(sweep) == Alternate /\ sweep % 2 = 1

Direction(sweep) == Alternate /\ (sweep \div stride) % 2 = 1

-----------------------------------------------------------------------------
(* The loop over the images.                                               *)

\* Mutant: one phase for every sweep of a boundary's image.
PhaseOfImage(sweep) == (sweep * Every) % stride

Phase(sweep) == sweep % stride

Sweep ==
  /\ pc = "boundary"
  /\ image < Images
  /\ image % Every = 0
  /\ LET p == Phase(sweeps)
         probed == {ProbedUnit(p, stride, k) : k \in 0 .. (probed_n(p, stride) - 1)}
         back == Direction(sweeps)
     IN \E hits \in SUBSET probed :
          /\ device' = Kernel(p, stride, hits)
          /\ latency' = Scatter(p, stride, Kernel(p, stride, hits))
          /\ seen' = seen \cup {[unit |-> u, image |-> image, hit |-> u \in hits,
                                 reverse |-> back] : u \in probed}
          /\ phase' = p
          /\ last_reverse' = back
          /\ cursor' = p
  /\ sweeps' = sweeps + 1
  /\ pc' = "observe"
  /\ UNCHANGED <<layout, passes, stride, pass, image, builderVars, error>>

NoSweep ==
  /\ pc = "boundary"
  /\ image < Images
  /\ image % Every # 0
  /\ pc' = "infer"
  /\ UNCHANGED <<proberVars, pass, image, sweeps, cursor, builderVars, seen, error>>

\* Where observe opens a period.
Opens(unit) == IF last_seen[unit] = None THEN 0 ELSE image

\* Where observe closes one.
Closes == image - 1

\* observe of the unit under the cursor.
Observe ==
  /\ pc = "observe"
  /\ cursor \in Units
  /\ IF image <= last_seen[cursor]
       THEN /\ Throw("observations of a unit must strictly increase")
            /\ UNCHANGED <<cursor, builderVars>>
       ELSE /\ last_seen' = [last_seen EXCEPT ![cursor] = image]
            /\ open_start' = [open_start EXCEPT ![cursor] =
                 IF ~latency[cursor] THEN None ELSE IF @ = None THEN Opens(cursor) ELSE @]
            /\ closed' =
                 IF latency[cursor] \/ open_start[cursor] = None THEN closed
                 ELSE Append(closed, [unit |-> cursor, start |-> open_start[cursor],
                                      end |-> Closes])
            /\ cursor' = cursor + stride
            /\ UNCHANGED <<offsets, periods, pc, error>>
  /\ UNCHANGED <<proberVars, pass, image, sweeps, seen>>

Observed ==
  /\ pc = "observe"
  /\ cursor \notin Units
  /\ pc' = "infer"
  /\ UNCHANGED <<proberVars, pass, image, sweeps, cursor, builderVars, seen, error>>

Infer ==
  /\ pc = "infer"
  /\ image' = image + 1
  /\ pc' = "boundary"
  /\ UNCHANGED <<proberVars, pass, sweeps, cursor, builderVars, seen, error>>

InferThrows ==
  /\ pc = "infer"
  /\ Throw("enqueue returned false")
  /\ UNCHANGED <<proberVars, pass, image, sweeps, cursor, builderVars, seen>>

-----------------------------------------------------------------------------
(* ResidencyMapBuilder::finish, and the next pass.                         *)

StillOpen(unit) == open_start[unit] # None

OpenUnits == {u \in Units : StillOpen(u)}

\* The elements of a set in the order of their ranks, which count from 1.
InOrder(rank) ==
  [k \in 1 .. Cardinality(DOMAIN rank) |-> CHOOSE x \in DOMAIN rank : rank[x] = k]

\* The closed periods and, in the order of the units, the ones still open.
AllClosed ==
  LET order == InOrder([u \in OpenUnits |-> Cardinality({v \in OpenUnits : v <= u})])
  IN closed \o [k \in DOMAIN order |->
       [unit |-> order[k], start |-> open_start[order[k]], end |-> Images - 1]]

\* Mutant: the periods stay in the order in which they were closed.
InOrderOfClosing(tagged) == tagged

\* stable_sort by unit: a period comes behind those of lower units, and behind
\* those of its own unit that it was closed behind.
ByUnit(tagged) ==
  LET order == InOrder([i \in DOMAIN tagged |->
                 Cardinality({j \in DOMAIN tagged :
                   \/ tagged[j].unit < tagged[i].unit
                   \/ tagged[j].unit = tagged[i].unit /\ j <= i})])
  IN [k \in DOMAIN tagged |-> tagged[order[k]]]

\* offsets_, as a function on 0 .. units.
Offsets(tagged) ==
  [u \in 0 .. total_units(layout) |->
     Cardinality({i \in 1 .. Len(tagged) : tagged[i].unit < u})]

Finish ==
  /\ pc = "boundary"
  /\ image = Images
  /\ periods' = ByUnit(AllClosed)
  /\ offsets' = Offsets(AllClosed)
  /\ closed' = <<>>
  /\ open_start' = <<>>
  /\ pc' = "written"
  /\ UNCHANGED <<proberVars, pass, image, sweeps, cursor, last_seen, seen, error>>

\* Mutant: the passes share one map.
NextPassSameMap ==
  /\ pc = "written"
  /\ pass + 1 < passes
  /\ pass' = pass + 1
  /\ image' = 0 /\ sweeps' = 0 /\ seen' = {}
  /\ open_start' = [u \in Units |-> None]
  /\ pc' = "boundary"
  /\ UNCHANGED <<proberVars, cursor, last_seen, closed, offsets, periods, error>>

\* The prober goes on with its buffers, the map is a new one.
NextPass ==
  /\ pc = "written"
  /\ pass + 1 < passes
  /\ pass' = pass + 1
  /\ image' = 0 /\ sweeps' = 0 /\ seen' = {}
  /\ NewBuilder(Units)
  /\ pc' = "boundary"
  /\ UNCHANGED <<proberVars, cursor, error>>

Done ==
  /\ \/ pc = "threw"
     \/ pc = "written" /\ pass + 1 = passes
  /\ UNCHANGED vars

Probing ==
  \/ Refuse \/ ConstructFixed \/ ConstructAuto
  \/ Sweep \/ NoSweep \/ Observe \/ Observed
  \/ Infer \/ InferThrows \/ Finish \/ NextPass

Next == Probing \/ Done

Spec == Init /\ [][Next]_vars

-----------------------------------------------------------------------------
(* What readers of the map compute from it                                 *)
(* (src/tools/g8_cache/residency_map.py).                                  *)

\* ResidencyMap.periods.
PeriodsOf(unit) == SubSeq(periods, offsets[unit] + 1, offsets[unit + 1])

Resident(unit, im) ==
  \E i \in (offsets[unit] + 1) .. offsets[unit + 1] :
    periods[i].start <= im /\ im <= periods[i].end

\* The structural checks of load_map: on the index and the periods,
PeriodsInOrder ==
  /\ offsets[0] = 0
  /\ offsets[total_units(layout)] = Len(periods)
  /\ \A u \in Units :
       /\ offsets[u] <= offsets[u + 1]
       /\ LET own == PeriodsOf(u)
          IN \A i \in 1 .. Len(own) :
               /\ 0 <= own[i].start /\ own[i].start <= own[i].end
               /\ own[i].end < Images
               /\ i > 1 => own[i].start > own[i - 1].end + 1

\* and on the bytes of the probed surface.
SurfaceCovered ==
  /\ \A u \in Units : Cardinality(Window(layout, u)) \in 1 .. UnitBytes
  /\ MapThenSumSet(LAMBDA u : Cardinality(Window(layout, u)), Units)
       = MapThenSumSet(LAMBDA i : layout[i].bytes, 1 .. Len(layout))

load_map == PeriodsInOrder /\ SurfaceCovered

\* direction_lock: the direction of the sweep at which a period started.
StartParity(start) == ((start \div Every) \div stride) % 2

-----------------------------------------------------------------------------
(* Properties.                                                             *)

Written == pc = "written"

\* The observations of a unit, from the loads themselves.
LoadsOf(unit) == {load \in seen : load.unit = unit}

\* The rule of src/include/gpu_m2d/residency_map.hpp:10: the last load up to an
\* image tells, and before the first one the first one does.
ProbedResident(unit, im) ==
  LET before == {load \in LoadsOf(unit) : load.image <= im}
  IN IF before # {}
       THEN \E load \in before :
              load.hit /\ \A other \in before : other.image <= load.image
       ELSE \E load \in LoadsOf(unit) :
              load.hit /\ \A other \in LoadsOf(unit) : load.image <= other.image

\* The finished map says of every unit and every image what the loads of the
\* kernel said, by the rule of residency_map.hpp: no latency is scattered to
\* another unit, none is left over from an earlier sweep or another prober, and
\* no period begins or ends one image off.
MapMatchesProbes ==
  Written => \A u \in Units, im \in 0 .. (Images - 1) :
               Resident(u, im) <=> ProbedResident(u, im)

\* A period that starts behind image 0 starts at a hit of its unit, and the place
\* of that image in the schedule is the direction of the sweep.
DirectionTold ==
  \A u \in Units : \A i \in 1 .. Len(PeriodsOf(u)) :
    LET start == PeriodsOf(u)[i].start
    IN start > 0 => \E load \in LoadsOf(u) :
         load.image = start /\ load.hit
           /\ load.reverse = (Alternate /\ StartParity(start) = 1)

\* The reader accepts every map that was written: periods are sorted, apart from
\* each other and inside the image range, each unit has bytes of its own, and
\* together they are the bytes of the probed surface.  And the diagnosis recovers
\* the direction of the sweep that opened a period from its first image alone.
MapAccepted == Written => load_map /\ DirectionTold

\* The sweeps keep to the schedule of the images: observe() never throws, for
\* between two sweeps over a unit there is an image, and "a unit's state is known
\* to a resolution of k * s images" (src/include/gpu_m2d/residency_map.hpp:19):
\* when an image is inferred, each unit has been probed within the last
\* Every * stride images, itself included.
SweepsOnSchedule ==
  /\ error # "observations of a unit must strictly increase"
  /\ pc = "infer" /\ image + 1 >= Every * stride =>
       \A u \in Units : \E load \in LoadsOf(u) : load.image > image - Every * stride
=============================================================================
