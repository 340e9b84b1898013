---------------------------- MODULE CacheSampler ----------------------------
(***************************************************************************)
(* From the residency map of a runner to the cache sites of a trial:       *)
(* execute_segment of src/tools/g5_faultinj/run_g5_campaign.py loads and   *)
(* checks the map, CacheSampler and sample_trial of                        *)
(* src/tools/g8_cache/cache_model.py draw the sites, verify_cache_work     *)
(* checks them against the map, and read_cache_work of the runner reads    *)
(* them. The map is the one ResidencyMap writes.                           *)
(*                                                                         *)
(* Draws are choices: a unit with exposure, a start image in one of its    *)
(* periods, a byte of its window and a bit. Trials are drawn independently *)
(* of each other, so there is one.                                         *)
(***************************************************************************)
EXTENDS ResidencyMap

CONSTANTS
  Bits,            \* bit_in_byte
  MaxSites,        \* bound: n_cache
  MaxRedraws       \* MAX_OVERLAP_REDRAWS

ASSUME SamplerAssumption ==
  /\ Bits \subseteq 0 .. 7
  /\ MaxSites \in Nat
  /\ MaxRedraws \in Nat \ {0}

VARIABLES
  n_cache,
  redraws,
  sites,           \* of the trial, in the order of the work file
  spc              \* where the orchestrator is: idle, draw, sampled, refused

samplerVars == <<n_cache, redraws, sites, spc>>
allVars == <<vars, samplerVars>>

SamplerInit ==
  /\ Init
  /\ n_cache = 0
  /\ redraws = 0
  /\ sites = <<>>
  /\ spc = "idle"

Classes == {"read_only", "engine_written"}

\* allocation_class of the range of a unit.
Class(unit) == layout[range_of(layout, unit)].cls

\* exposure_weights is positive: an image takes time, a unit has bytes.
Exposed == {u \in Units : PeriodsOf(u) # <<>>}

-----------------------------------------------------------------------------
(* The orchestrator, up to the first draw.                                 *)

\* A campaign runs a single pass.
MapReady == spc = "idle" /\ pc = "written" /\ passes = 1

\* load_map, then the constructor of CacheSampler: each range has a class and
\* the map has exposure.
MapRefused ==
  \/ ~load_map
  \/ \E i \in 1 .. Len(layout) : layout[i].cls \notin Classes
  \/ Exposed = {}

LoadRefused ==
  /\ MapReady
  /\ MapRefused
  /\ spc' = "refused"
  /\ UNCHANGED <<vars, n_cache, redraws, sites>>

\* The files of the map are unreadable, torn or of another schema, or the pass
\* changed an output of the network.
FileRefused ==
  /\ MapReady
  /\ spc' = "refused"
  /\ UNCHANGED <<vars, n_cache, redraws, sites>>

\* map_self_checks on what is not modelled: the latencies, the order effect, the
\* number of images, the surface and the addresses of this process.
SelfCheckFails ==
  /\ MapReady
  /\ load_map
  /\ spc' = "refused"
  /\ UNCHANGED <<vars, n_cache, redraws, sites>>

\* n_cache = round(BER * R_eff).
LoadMap ==
  /\ MapReady
  /\ ~MapRefused
  /\ n_cache' \in 0 .. MaxSites
  /\ spc' = "draw"
  /\ UNCHANGED <<vars, redraws, sites>>

-----------------------------------------------------------------------------
(* sample_trial.                                                           *)

\* Mutant: an overlap only with the site drawn before.
OverlapsLast(site) ==
  sites # <<>> /\ LET other == sites[Len(sites)]
                  IN /\ other.address = site.address /\ other.bit = site.bit
                     /\ other.start_image <= site.last_image
                     /\ site.start_image <= other.last_image

\* A site on the same cell is live in a common image.
Overlapping(site) ==
  \E k \in 1 .. Len(sites) :
    /\ sites[k].address = site.address /\ sites[k].bit = site.bit
    /\ ~(site.last_image < sites[k].start_image \/ site.start_image > sites[k].last_image)

\* Mutant: every flip lives to the end of its period.
PeriodEnd(unit, start, period) == period.end

\* The last image of a flip's life.
LastImage(unit, start, period) ==
  IF Class(unit) = "read_only" THEN period.end ELSE start

\* Mutant: any byte of the aligned block.
BytesOfBlock(unit) == Block(layout, unit)

\* draw_byte.
DrawableBytes(unit) == Window(layout, unit)

\* draw_unit, draw_start, draw_byte and the bit.
Drawn ==
  UNION {UNION {
    {[unit |-> u, period |-> period, address |-> byte, bit |-> b, start_image |-> start,
      last_image |-> LastImage(u, start, period), cache_class |-> Class(u)] :
        start \in period.start .. period.end, byte \in DrawableBytes(u), b \in Bits}
    : period \in ToSet(PeriodsOf(u))} : u \in Exposed}

Draw ==
  /\ spc = "draw"
  /\ Len(sites) < n_cache
  /\ \E site \in Drawn :
       /\ ~Overlapping(site)
       /\ sites' = Append(sites, site)
  /\ redraws' = 0
  /\ UNCHANGED <<vars, n_cache, spc>>

\* An overlap is drawn again, but not for ever.
Redraw ==
  /\ spc = "draw"
  /\ Len(sites) < n_cache
  /\ \E site \in Drawn : Overlapping(site)
  /\ redraws' = redraws + 1
  /\ spc' = IF redraws' = MaxRedraws THEN "refused" ELSE spc
  /\ UNCHANGED <<vars, n_cache, sites>>

-----------------------------------------------------------------------------
(* verify_cache_work, and the runner's read_cache_work.                    *)

verify_cache_work ==
  /\ Len(sites) = n_cache
  /\ \A k \in 1 .. Len(sites) :
       LET site == sites[k]
           range == layout[range_of(layout, site.unit)]
       IN /\ site.period \in ToSet(PeriodsOf(site.unit))
          /\ site.period.start <= site.start_image /\ site.start_image <= site.period.end
          /\ site.last_image =
               IF range.cls = "read_only" THEN site.period.end ELSE site.start_image
          /\ site.cache_class = range.cls
          /\ range.base <= site.address /\ site.address < End(range)
          /\ \A j \in 1 .. (k - 1) :
               sites[j].address = site.address /\ sites[j].bit = site.bit =>
                 \/ site.last_image < sites[j].start_image
                 \/ site.start_image > sites[j].last_image

read_cache_work ==
  \A k \in 1 .. Len(sites) :
    /\ sites[k].cache_class \in Classes
    /\ sites[k].start_image <= sites[k].last_image
    /\ sites[k].last_image < Images

Verify ==
  /\ spc = "draw"
  /\ Len(sites) = n_cache
  /\ spc' = IF verify_cache_work THEN "sampled" ELSE "refused"
  /\ UNCHANGED <<vars, n_cache, redraws, sites>>

Stop ==
  /\ \/ pc = "threw" \/ spc \in {"sampled", "refused"}
     \/ pc = "written" /\ pass + 1 = passes /\ passes > 1
  /\ UNCHANGED allVars

SamplerNext ==
  \/ Probing /\ UNCHANGED samplerVars
  \/ FileRefused \/ LoadRefused \/ SelfCheckFails \/ LoadMap
  \/ Draw \/ Redraw \/ Verify
  \/ Stop

SamplerSpec == SamplerInit /\ [][SamplerNext]_allVars

-----------------------------------------------------------------------------
(* Properties.                                                             *)

\* A cache fault is a fault of something that is in the cache: at every image of
\* its life the probes of this very process found its unit resident, and its
\* byte is one that the unit shares with the allocation.  A byte the engine
\* rewrites keeps its flip for one image only; a flip in a read-only allocation
\* lives until its unit leaves the cache.
FlipsWhileResident ==
  \A k \in 1 .. Len(sites) :
    LET site == sites[k] IN
    /\ site.address \in Window(layout, site.unit)
    /\ \A im \in site.start_image .. site.last_image : ProbedResident(site.unit, im)
    /\ IF Class(site.unit) = "engine_written" THEN site.last_image = site.start_image
       ELSE site.last_image + 1 < Images => ~ProbedResident(site.unit, site.last_image + 1)

\* The sampler, which redraws an overlap with any earlier site, never fails the
\* independent verification, and the runner takes what was sampled.
SampleAccepted ==
  spc = "draw" /\ Len(sites) = n_cache => verify_cache_work /\ read_cache_work
=============================================================================
