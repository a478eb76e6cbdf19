SPECIFICATION Spec
CONSTANTS
  u1 = u1 u2 = u2 f1 = f1 f2 = f2 a1 = a1 a2 = a2 k1 = k1 k2 = k2
  r1 = r1 r2 = r2 r3 = r3 r4 = r4 r5 = r5 NoHash = NoHash
  Users = {u1}
  Files = {f1, f2}
  Accounts = {a1}
  Keys = {k1, k2}
  Names <- MCNames
  Mentions <- MCMentions
  Separators <- MCSeparators
  Sampled = 1
  Transfers = {"TRANSFER TO SAVINGS"}
  Styles = {}
  Statements = {}
  Content <- AmbiguousStatements
  Requests = {r1, r2, r3, r4}
  OverlappingVerifies = FALSE
INVARIANT OverriddenRowsPosted
SYMMETRY RequestSymmetry
CHECK_DEADLOCK FALSE
