SPECIFICATION FairSpec
CONSTANTS
  a = a
  b = b
  old = old
  new = new
  bad = bad
  c = c
  d = d
  Servers = {a}
  Clients = {c}
  Legacy = {}
  Compatible <- MCCompatible
  Configs <- MCConfigs
  Valid = {a}
  Sessions <- MCSessions
  MaxTx = 1
  Requests = {r1}
  Appliers = {w1, w2}
  Readers = {}
  RequestKinds = {"test", "apply", "sni"}
  ApplierKinds = {"runtime", "rollback"}
  Serial = FALSE
  TestsMayFail = FALSE
  Crashes = FALSE
PROPERTIES EveryTransactionCloses
