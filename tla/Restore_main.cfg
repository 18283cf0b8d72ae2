SPECIFICATION FairSpec
CONSTANTS
  Own = Own
  None = None
  other = other
  d1 = d1
  d2 = d2
  Names <- MCNames
  Archives <- MCArchives
  Domains <- MCDomains
  OwnTls <- MCOwnTls
  Requests = {r1}
  Jobs = {j1}
  Brings = FALSE
  Overlap = FALSE
  Mixed = FALSE
  MaxUploads = 1
  MaxCopies = 3
  MaxEdits = 1
  MaxFaults = 2
INVARIANTS TypeOK ServesRestored ServesOld CopyAnswerTrue
PROPERTIES ImplementsStagedChange JobsEnd
CHECK_DEADLOCK FALSE
