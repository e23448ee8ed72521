\* Two requests to send the ticket of one registration again.
SPECIFICATION Spec
CONSTANTS
  Tickets = {t1}
  Resets = {p1, p2}
  Invitations = {i1}
  Addresses = {a1, a2}
  Workers = {w1, w2}
  Resends = {r1, r2}
  Form = Form
  MaxMails = 3
  MaxAttempts = 2
  MaxCrashes = 1
  NoAddress = NoAddress
  Nobody = Nobody
PROPERTY
  ResendWaits
CHECK_DEADLOCK FALSE
