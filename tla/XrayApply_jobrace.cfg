SPECIFICATION Spec
CONSTANTS
  a = a
  b = b
  old = old
  new = new
  bad = bad
  c = c
  d = d
  Servers = {a, bad}
  Clients = {c}
  Legacy = {}
  Compatible <- MCCompatible
  Configs <- MCConfigs
  Valid = {a}
  Sessions <- MCSessions
  MaxTx = 2
  Requests = {r1}
  Appliers = {w1, w2}
  Readers = {}
  RequestKinds = {"test"}
  ApplierKinds = {"clients", "job"}
  Serial = FALSE
  TestsMayFail = FALSE
  Crashes = FALSE
INVARIANTS InstalledWasTested
