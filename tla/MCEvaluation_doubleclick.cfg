\* Two calls with one key overlap.
SPECIFICATION Spec
CONSTANTS
  Users = {u1}
  Keys = {k1}
  Payloads = {p1, p2}
  Fragile = {p2}
  NoKey = NoKey
  Calls = {c1, c2}
  NoAnswer = NoAnswer
  SameKeyOverlaps = TRUE
  MayCrash = FALSE
INVARIANT OneEvaluationPerKey
