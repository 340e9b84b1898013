SPECIFICATION Spec
CONSTANTS
  MaxVa = 3
  Threads = {t1, t2}
  Bindings = {data}
  Probes = {l2_probe}
  Sizes = {1, 2}
  Device = 0
  MaxAllocs = 2
SYMMETRY ThreadSymmetry
INVARIANTS
  RegistryDisjoint
  LookupsInverse
  RefusedOnlyInWindow
  HeldIsRegistered
  LedgerSound
