\* One caller, and scans that fail.
CONSTANTS
  c1 = c1
  c2 = c2
  None = None
  Callers <- OneCaller
  GpuFails = TRUE
  LosesWrites = FALSE
  MaxGen = 1
SPECIFICATION SafetySpec
INVARIANT SafeAnyTime
