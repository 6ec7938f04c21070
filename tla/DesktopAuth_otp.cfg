SPECIFICATION Spec
CONSTANTS
  Reqs = {r1}
  Txns = {t1, t2}
  Students = {s1}
  Identities = {i1, i2}
  Emails = {e1}
  Phones = {p1}
  Attempts = {a1}
  EmailOf <- MCEmailOf
  Privileged = {}
  None = None
  Endpoints = {"complete", "otp", "register"}
  MaxCodes = 2
  MaxSessions = 2
  MaxCrashes = 0
  Churn = FALSE
  LockOutlivesHolder = TRUE
CHECK_DEADLOCK FALSE
INVARIANT OtpBoundToTransaction
