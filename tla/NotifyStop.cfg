SPECIFICATION Spec
CONSTANTS
  Hooks = {h1}
  Monitors = {m1, m2}
  Budget = 1
  MaxAccidents = 1
PROPERTIES HeartbeatKeepsStop
