SPECIFICATION Spec
CONSTANTS
  c1 = c1
  c2 = c2
  c3 = c3
  o1 = o1
  o2 = o2
  n1 = n1
  n2 = n2
  Callers = {c1, c2, c3}
  TakeoverOnCorrupt = FALSE
  TakeoverOnDeadOwner = TRUE
  Heartbeats = FALSE
  NoFile = NoFile
  MaxFaults = 1
  OldLines = {o1, o2}
  NewLines = {n1}
  Torn = Torn
  None = None
CHECK_DEADLOCK FALSE
SYMMETRY Symmetry
INVARIANTS TrailKept NewSessionKept ServesOnMigratedState
