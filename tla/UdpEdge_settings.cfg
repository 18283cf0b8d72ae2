SPECIFICATION FairSpec
CONSTANTS
  p = p
  q = q
  r = r
  Clients = {p, r}
  Family <- MCFamily
  MaxSessions = 2
  Descriptors = 1
  TTL = 1
  RELOAD = 1
  Datagrams <- AllDatagrams
  Configs <- MCConfigs
  MayFail = TRUE
  MayStop = TRUE
  MaxTime = 2
  MaxSent = 2
PROPERTIES Pinned SettingsTakeEffect QueuesDrain
