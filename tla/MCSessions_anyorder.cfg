\* Three calls, all overlaps, restarts and a suspension.
SPECIFICATION Spec
CONSTANTS
  c1 = c1 c2 = c2 c3 = c3 t1 = t1 e1 = e1 e2 = e2 a1 = a1 a2 = a2
  Emails = {e1, e2}
  Known = {e1}
  Addresses = {a1, a2}
  Fields = {"balance", "payment_methods"}
  Values = {"none", "some", "all", "few", "[]"}
  InitialProfile <- Defaults
  Omitted = Omitted
  NoProfile = NoProfile
  Calls = {c1, c2, c3}
  Earlier = {t1}
  NoToken = NoToken
  Requests <- SomeRequests
  Limit <- Limits
  Window = 2
  MaxFailures = 2
  FailureSpan = 2
  Cooldown = 1
  TokenLife = 1
  MaxTime = 2
CONSTRAINT OneStory
SYMMETRY CallSymmetry
INVARIANTS RevokedStayOut QuotaHolds RefusalsHaveCauses RegisteredOnce
PROPERTY UnnamedFieldsKept
CHECK_DEADLOCK FALSE
