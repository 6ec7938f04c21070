SPECIFICATION Spec
CONSTANTS
  Reqs = {r1, r2}
  Txns = {t1}
  Students = {s1, s2}
  Identities = {i1}
  Emails = {e1, e2}
  Phones = {p1, p2}
  Attempts = {a1}
  EmailOf <- MCEmailOf
  Privileged = {}
  None = None
  Endpoints = {"complete", "link", "otp", "register"}
  MaxCodes = 1
  MaxSessions = 2
  MaxCrashes = 0
  Churn = FALSE
  LockOutlivesHolder = FALSE
CHECK_DEADLOCK FALSE
SYMMETRY Symmetry
INVARIANTS RegistrationKept NoAbandonedLock
