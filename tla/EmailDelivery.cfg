\* One registration with two addresses, two reset links and an invitation;
\* two workers, of whom one crashes.
SPECIFICATION Spec
CONSTANTS
  Tickets = {t1}
  Resets = {p1, p2}
  Invitations = {i1}
  Addresses = {a1, a2}
  Workers = {w1, w2}
  Resends = {r1}
  Form = Form
  MaxMails = 2
  MaxAttempts = 2
  MaxCrashes = 1
  NoAddress = NoAddress
  Nobody = Nobody
SYMMETRY Interchangeable
INVARIANTS
  TypeOK
  OneHolder
  LiveLinkIsMailed
PROPERTIES
  OutcomeIsFinal
CHECK_DEADLOCK FALSE
