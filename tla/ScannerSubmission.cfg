\* Marks recorded, flushed, rejected and handed over, and bundles, replies and
\* another device's marks in every order, with lost requests.
SPECIFICATION Spec
CONSTANTS
  Clients = {1, 2}
  Times = {1, 2}
  NoTime = 0
  Regs = {r1}
  Payloads = {anna}
  Queued = {}
  NoOne = NoOne
  Refusable = {1}
  MaxBatch = 1
  Setups <- Submission
  MaxLogins = 1
  MaxOpenCases = 1
INVARIANTS
  TypeOK
  NoMarkLost
  CacheAgreesWithServer
  BundleNotAhead
