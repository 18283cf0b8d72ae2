SPECIFICATION Spec
CONSTANTS
  a = a
  b = b
  old = old
  new = new
  bad = bad
  c = c
  d = d
  Servers = {old, new}
  Clients = {c, d}
  Legacy = {old}
  Compatible <- MCCompatible
  Configs <- MCConfigs
  Valid = {old, new}
  Sessions <- MCSessions
  MaxTx = 2
  Requests = {r1}
  Appliers = {w1}
  Readers = {k1}
  RequestKinds = {"test", "apply", "save", "fingerprint"}
  ApplierKinds = {"clients", "runtime", "restore", "job"}
  Serial = TRUE
  TestsMayFail = FALSE
  Crashes = FALSE
INVARIANTS ServedIsPublished LeakNeedsClose
