SPECIFICATION Spec
CONSTANTS
  p = p
  q = q
  r = r
  Clients = {p, q, r}
  Family <- MCFamily
  MaxSessions = 2
  Descriptors = 3
  TTL = 1
  RELOAD = 2
  Datagrams <- AwgOrOther
  Configs <- OneConfig
  MayFail = FALSE
  MayStop = FALSE
  MaxTime = 2
  MaxSent = 4
INVARIANTS TypeOK TableBounded
PROPERTIES EvictsOldest
