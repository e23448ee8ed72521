\* Sync requests against annulment and date edits.
SPECIFICATION Spec
CONSTANTS
  c1 = c1
  c2 = c2
  r1 = r1
  ghost = ghost
  p1 = p1
  p2 = p2
  w1 = w1
  w2 = w2
  Clients <- MCClients
  Regs <- MCRegs
  UnknownRegs <- MCUnknownRegs
  Payloads <- MCPayloads
  Times <- MCTimes
  NoTime = 0
  Windows <- MCWindows
  Batches <- MCBatches
  Workers = {w1, w2}
  Admins = {a1}
  NoOne = NoOne
  NoItem = NoItem
  MaxDateChanges = 1
INVARIANTS
  TypeOK
  OnePrimary
  ClientRecordedOnce
  AnswersMatchLedger
PROPERTIES
  LedgerRefined
  RequestEnds
