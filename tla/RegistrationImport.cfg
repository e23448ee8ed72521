\* Two requests at a time; one may be the commit of an import.
SPECIFICATION Spec
CONSTANTS
  Events = {"e1", "e2"}
  Places = {"s1", "main"}
  Streams = {"s1"}
  EventOf <- EventOfPlace
  a = a
  x = x
  Emails = {a}
  Phones = {x}
  Roster = {k}
  People = {k, p1, p2}
  Regs = {r1, r2, r3}
  Requests = {"q1", "j1"}
  Forms <- MixedForms
  Txns = {t1, t2}
  MaxCapacity = 2
  MaxActs = 2
  Limit = 2
  Absent = Absent
  None = None
PROPERTY
  ImportsKeepCapacity
