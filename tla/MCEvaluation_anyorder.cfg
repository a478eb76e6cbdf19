\* Calls overlap and the process may die: three calls of two users.
SPECIFICATION Spec
CONSTANTS
  Users = {u1, u2}
  Keys = {k1}
  Payloads = {p1, p2}
  Fragile = {p2}
  NoKey = NoKey
  Calls = {c1, c2, c3}
  NoAnswer = NoAnswer
  SameKeyOverlaps = TRUE
  MayCrash = TRUE
SYMMETRY CallSymmetry
INVARIANTS TypeOK AnswersAgree AnswersAreFounded ConflictsAreReal
PROPERTY ImplementsAnswerOnce
