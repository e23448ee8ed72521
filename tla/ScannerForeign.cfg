\* A queued mark of one user, and another user who signs in on the device.
SPECIFICATION Spec
CONSTANTS
  Clients = {1, 2}
  Times = {1, 2}
  NoTime = 0
  Regs = {r1}
  Payloads = {anna, boris}
  Queued = {1}
  NoOne = NoOne
  Refusable = {}
  MaxBatch = 1
  Setups <- TakenOver
  MaxLogins = 2
  MaxOpenCases = 1
INVARIANT
  NoForeignSubmit
CHECK_DEADLOCK FALSE
