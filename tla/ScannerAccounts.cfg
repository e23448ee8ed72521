\* Sessions that end, reloads, logouts and a second user of the device.
SPECIFICATION Spec
CONSTANTS
  Clients = {1}
  Times = {1}
  NoTime = 0
  Regs = {r1}
  Payloads = {anna, boris}
  Queued = {1}
  NoOne = NoOne
  Refusable = {}
  MaxBatch = 1
  Setups <- Accounts
  MaxLogins = 2
  MaxOpenCases = 1
PROPERTIES
  EventuallySettled
  LogoutRevokesFirst
CHECK_DEADLOCK FALSE
