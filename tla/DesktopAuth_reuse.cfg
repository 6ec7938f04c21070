SPECIFICATION Spec
CONSTANTS
  Reqs = {r1, r2}
  Txns = {t1}
  Students = {s1}
  Identities = {i1}
  Emails = {e1}
  Phones = {p1}
  Attempts = {a1}
  EmailOf <- MCEmailOf
  Privileged = {}
  None = None
  Endpoints = {"complete", "otp", "register", "exchange"}
  MaxCodes = 1
  MaxSessions = 2
  MaxCrashes = 0
  Churn = FALSE
  LockOutlivesHolder = FALSE
CHECK_DEADLOCK FALSE
INVARIANT ExchangeSingleUse
