SPECIFICATION Spec
CONSTANTS
  runet = runet
  loyal = loyal
  rosc = rosc
  ru = ru
  blocked = blocked
  ads = ads
  None = None
  Pairs = {runet, loyal}
  Installed = runet
  IpCats = {ru}
  SiteCats = {blocked, ads}
  CatsOf <- MCCatsOf
  Family <- MCFamily
  Baseline <- MCBaseline
  Forms <- MCForms
  Helpers = {h1, h2}
  Fresh = {FALSE}
  Alone = {TRUE, FALSE}
  Kills = {"stop", "revive"}
  Swaps = FALSE
  MaxOps <- MCMaxOps
  MaxFaults = 1
  MaxUsers = 2
INVARIANTS TypeOK RulesInForce ServedIsInstalled PairTogether BackupsAreWhole
PROPERTIES FailedOperationChangesNothing RulesStayLoadable ClientsKept
SYMMETRY Interchangeable
CHECK_DEADLOCK FALSE
