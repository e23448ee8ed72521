\* A registration and a reset link; two workers, of whom one crashes twice.
SPECIFICATION Spec
CONSTANTS
  Tickets = {t1}
  Resets = {p1}
  Invitations = {}
  Addresses = {a1}
  Workers = {w1, w2}
  Resends = {}
  Form = Form
  MaxMails = 2
  MaxAttempts = 2
  MaxCrashes = 2
  NoAddress = NoAddress
  Nobody = Nobody
PROPERTIES
  EveryMailSettles
CHECK_DEADLOCK FALSE
