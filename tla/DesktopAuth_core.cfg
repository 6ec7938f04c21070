SPECIFICATION Spec
CONSTANTS
  Reqs = {r1, r2}
  Txns = {t1}
  Students = {s1, s2}
  Identities = {i1}
  Emails = {e1, e2}
  Phones = {p1, p2}
  Attempts = {a1}
  EmailOf <- MCEmailOf
  Privileged = {}
  None = None
  Endpoints = {"complete", "cancel", "link", "otp", "register", "exchange"}
  MaxCodes = 1
  MaxSessions = 2
  MaxCrashes = 1
  Churn = FALSE
  LockOutlivesHolder = TRUE
CHECK_DEADLOCK FALSE
SYMMETRY Symmetry
INVARIANTS ExchangeSingleUse GuessesBounded
PROPERTIES ReadyIsFinal LoginSpec
