SPECIFICATION Spec
CONSTANTS
  ann = ann
  bob = bob
  phone = phone
  laptop = laptop
  desk = desk
  None = None
  Clients = {ann, bob}
  Devices = {phone, desk}
  Owner <- MCOwner
  Primary <- MCPrimary
  Menus <- OnlyXray
  Requests = {r1, r2}
  Workers = {w1, w2}
  MaxOps = 2
  MaxFaults = 1
INVARIANTS FailedChangeIsUndone OverlapsAgree
SYMMETRY Interchangeable
CHECK_DEADLOCK FALSE
