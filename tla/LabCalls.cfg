SPECIFICATION LoopSpec
CONSTANTS
  lab = lab  other = other  open = open
  None = None
  Databases = {lab, other, open}
  Authorized = {lab, open}
  Privileged = {open}
  MaxCalls = 3
INVARIANTS OneConnection VerifiedEvidence OwnResult
PROPERTIES LoopResponds LockReleased
CHECK_DEADLOCK FALSE
