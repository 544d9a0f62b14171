SPECIFICATION Spec
CONSTANTS
  r1 = r1  r2 = r2  s1 = s1  s2 = s2
  None = None
  Runs = {r1, r2}
  Scripts = {s1, s2}
  Security = {s1}
  Order <- MCOrder
  Worktrees <- MCWorktrees
  AtFirst <- MCAtFirst
  MaxEdits = 2
SYMMETRY Symmetry
INVARIANTS
  PassMeansTested PassMeansReleasable VerifierAgrees
CHECK_DEADLOCK FALSE
