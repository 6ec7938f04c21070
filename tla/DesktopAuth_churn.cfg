SPECIFICATION FairSpec
CONSTANTS
  Reqs = {r1}
  Txns = {t1}
  Students = {s1, s2}
  Identities = {i1}
  Emails = {e1, e2}
  Phones = {p1}
  Attempts = {a1}
  EmailOf <- MCEmailOf
  Privileged = {}
  None = None
  Endpoints = {"complete", "cancel", "link", "otp", "register", "exchange"}
  MaxCodes = 1
  MaxSessions = 2
  MaxCrashes = 1
  Churn = TRUE
  LockOutlivesHolder = TRUE
CHECK_DEADLOCK FALSE
INVARIANT ReadyMeansLinked
PROPERTIES RequestsEnd
