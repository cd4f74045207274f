SPECIFICATION Spec
CONSTANTS
  Procs = {p1, p2}
  Recipients = {r1, r2}
  MinInterval = 1
  Window = 1
  Long = 3
  PerWindow = 1
  PerLong = 2
  MaxTime = 9
  MaxSends = 3
INVARIANTS IInv LimitsKept
PROPERTIES DeclinesJustified
SYMMETRY Symmetry
CHECK_DEADLOCK FALSE
