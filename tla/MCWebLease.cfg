CONSTANTS
  Server = {s1, s2}
  Device = {d1, d2, d3}
  None = None
SPECIFICATION Spec
INVARIANTS TypeOK HeldMeansUsed
PROPERTIES OnlyStaleTaken SilentFreed
