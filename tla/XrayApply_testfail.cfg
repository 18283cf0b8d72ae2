SPECIFICATION Spec
CONSTANTS
  a = a
  b = b
  old = old
  new = new
  bad = bad
  c = c
  d = d
  Servers = {a, b, bad}
  Clients = {c}
  Legacy = {}
  Compatible <- MCCompatible
  Configs <- MCConfigs
  Valid = {a, b}
  Sessions <- MCSessions
  MaxTx = 1
  Requests = {r1}
  Appliers = {w1}
  Readers = {}
  RequestKinds = {"apply"}
  ApplierKinds = {"clients", "job"}
  Serial = TRUE
  TestsMayFail = FALSE
  Crashes = FALSE
INVARIANTS ServedIsPublished
