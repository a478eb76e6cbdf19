\* Calls with one key do not overlap and nothing dies.
SPECIFICATION Spec
CONSTANTS
  Users = {u1, u2}
  Keys = {k1, k2}
  Payloads = {p1, p2}
  Fragile = {p2}
  NoKey = NoKey
  Calls = {c1, c2, c3}
  NoAnswer = NoAnswer
  SameKeyOverlaps = FALSE
  MayCrash = FALSE
SYMMETRY CallSymmetry
INVARIANTS OneEvaluationPerKey FailuresStoreNothing
