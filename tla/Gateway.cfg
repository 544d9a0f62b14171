SPECIFICATION Spec
CONSTANTS
  lab = lab  fix = fix  v1 = v1  v2 = v2
  None = None
  Targets = {lab, fix}
  Real = {lab}
  Values = {v1, v2}
  Declared <- MCDeclared
  max_session_calls = 3
  max_calls <- MCCalls
  max_rows <- MCRows
  row_limit = 2
  Ttl = 1
  MaxEntries = 3
  MaxNow = 2
  MaxToolCalls = 4
INVARIANTS
  EvidenceWhileFresh RowsWithinBudget ReleaseUpdateObservedWins
CHECK_DEADLOCK FALSE
