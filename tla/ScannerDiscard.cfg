\* A mark recorded while the operator logs out.
SPECIFICATION Spec
CONSTANTS
  Clients = {1}
  Times = {1}
  NoTime = 0
  Regs = {r1}
  Payloads = {anna, boris}
  Queued = {}
  NoOne = NoOne
  Refusable = {}
  MaxBatch = 1
  Setups <- Everyday
  MaxLogins = 2
  MaxOpenCases = 1
PROPERTY
  NoSilentDiscard
CHECK_DEADLOCK FALSE
