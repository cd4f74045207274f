SPECIFICATION Spec
CONSTANTS
  Runs = {r1, r2}
  PatientCLI = FALSE
  KeepsResult = FALSE
  MaxStops = 2
  MaxBoots = 0
  MaxFaults = 0
INVARIANTS StopTerminates
CHECK_DEADLOCK FALSE
