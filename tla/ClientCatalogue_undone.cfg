SPECIFICATION Spec
CONSTANTS
  ann = ann
  bob = bob
  phone = phone
  laptop = laptop
  desk = desk
  None = None
  Clients = {ann}
  Devices = {phone}
  Owner <- MCOwner
  Primary <- MCPrimary
  Menus <- AllOrXray
  Requests = {r1}
  Workers = {w1}
  MaxOps = 1
  MaxFaults = 1
INVARIANTS UndoneIsRestored
CHECK_DEADLOCK FALSE
