SPECIFICATION Spec
CONSTANTS
  k1 = k1  k2 = k2  r1 = r1  r2 = r2
  a1 = a1  a2 = a2  a3 = a3  a4 = a4
  u1 = u1  t1 = t1  w1 = w1  s1 = s1
  None = None
  KbIds = {k1, k2}
  Recs = {r1, r2}
  Reviewers = {u1}
  AuthIds = {a1, a2, a3, a4}
  Stamps = {t1}
  Candidates <- MCCandidates
  TextRank <- MCRank
  Instant <- MCRank
  MaxEntries = 1
  VersionBound = 2
  HistoryBound = 4
  Writers = {w1}
  Readers = {s1}
SYMMETRY Symmetry
INVARIANTS ListedHaveFiles NoIntegrityError
PROPERTIES WrittenOnce ImplementsLifecycle
