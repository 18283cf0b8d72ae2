SPECIFICATION Spec
CONSTANTS
  a = a
  b = b
  old = old
  new = new
  bad = bad
  c = c
  d = d
  Servers = {a, b}
  Clients = {c}
  Legacy = {}
  Compatible <- MCCompatible
  Configs <- MCConfigs
  Valid = {a, b}
  Sessions <- MCSessions
  MaxTx = 1
  Requests = {r1}
  Appliers = {w1}
  Readers = {}
  RequestKinds = {"test"}
  ApplierKinds = {"clients"}
  Serial = FALSE
  TestsMayFail = FALSE
  Crashes = FALSE
INVARIANTS TestAppliesNothing
