SPECIFICATION SqlSpec
CONSTANTS
  Configs = {a, b}
  MaxTx = 3
  Sessions = {s1, s2}
INVARIANTS SqlTypeOK
PROPERTIES TwoOpenNeedBlindBegin ClosedRowsKeepOutcome FreshCallsAreAtomic
SYMMETRY Symmetry
