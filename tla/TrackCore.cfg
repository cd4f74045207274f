SPECIFICATION FairSpec
CONSTANTS
  Runs = {r1, r2}
  PatientCLI = TRUE
  KeepsResult = TRUE
  MaxStops = 2
  MaxBoots = 1
  MaxFaults = 1
INVARIANTS IInv RegistryFollows RunningIsActive StopDecides NoProcessLeft TripsOnce
PROPERTIES EveryRunEnds EndsAreFinal
CHECK_DEADLOCK FALSE
