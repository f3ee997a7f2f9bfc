\* Two callers, failing scans, lost writes.
CONSTANTS
  c1 = c1
  c2 = c2
  None = None
  Callers <- TwoCallers
  GpuFails = TRUE
  LosesWrites = TRUE
  MaxGen = 3
SPECIFICATION Spec
INVARIANTS TypeOK InSync
PROPERTIES LiveGenMonotone CancelReachesKernel
