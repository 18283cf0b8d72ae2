SPECIFICATION Spec
CONSTANTS
  None = None
  Idle = Idle
  old = old
  new = new
  a1 = a1
  a2 = a2
  Versions = {1, 2, 3}
  XRAY_MINIMUM_VERSION = 2
  Options <- MCOptions
  LoadedBy <- MCLoadedBy
  Actors <- MCActors
  Shipped = {1, 2}
  MaxOps = 3
  MaxBeside = 2
  MaxCreds = 1
  MaxFaults = 1
SYMMETRY Sym
INVARIANTS TypeOK RestIsServed
PROPERTIES AnswerIsTrue
CHECK_DEADLOCK FALSE
