SPECIFICATION LifecycleSpec
CONSTANTS
  k1 = k1  k2 = k2  r1 = r1  r2 = r2  r3 = r3
  a1 = a1  a2 = a2  a3 = a3  a4 = a4  a5 = a5
  u1 = u1  u2 = u2  t1 = t1  t2 = t2
  None = None
  KbIds = {k1, k2}
  Recs = {r1, r2, r3}
  Reviewers = {u1, u2}
  AuthIds = {a1, a2, a3, a4, a5}
  Stamps = {t1}
  Candidates <- MCCandidates
  TextRank <- MCOrdered
  Instant <- MCOrdered
  MaxEntries = 1
  VersionBound = 2
  HistoryBound = 8
SYMMETRY AuthSymmetry
INVARIANTS
  SingleGuidance DistinctLive
  GuidanceAuthorized OneDecisionPerAuthorization
PROPERTIES AppendOnly KeepsGuidancePromise
CHECK_DEADLOCK FALSE
