SPECIFICATION Spec
CONSTANTS
  Users = {u1, u2}
  Emails = {a1, a2}
  Passwords = {p1, p2}
  Sessions = {s1, s2}
  Tokens = {t1, t2}
  Requests = {r1, r2}
  Subjects = {g1}
  None = None
  Gone = Gone
SYMMETRY Symmetry
CHECK_DEADLOCK FALSE
INVARIANTS
  SessionsVouched
  UsedOnce
  AddressesProven
  PendingHasLink
