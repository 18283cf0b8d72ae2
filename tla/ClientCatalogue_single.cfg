SPECIFICATION Spec
CONSTANTS
  ann = ann
  bob = bob
  phone = phone
  laptop = laptop
  desk = desk
  None = None
  Clients = {ann}
  Devices = {phone, laptop}
  Owner <- MCOwner
  Primary <- MCPrimary
  Menus <- AllOrXray
  Requests = {r1}
  Workers = {w1}
  MaxOps = 3
  MaxFaults = 2
INVARIANTS TypeOK AnswerIsTrue FailedChangeIsUndone NothingInFlight
CHECK_DEADLOCK FALSE
