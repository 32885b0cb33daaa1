SPECIFICATION Spec
CONSTANTS
  Workers = {w1, w2}
  Slots = {s1, s2, s3}
  Outputs = {h1}
  Answers = {h1}
  Workspaces = {v1, v2}
  Domains = {d1}
  MaxEntries = 1
  MaxPermits = 2
  Edits <- MCEdits
  Scenarios <- MCScenarios
  NoLimit = NoLimit
  NoRow = NoRow
  NoHash = NoHash
SYMMETRY CacheSymmetry
INVARIANTS
  EntriesBounded
  RowsBacked
  TornIsBeingWritten
  MadeByOne
PROPERTIES
  ReductionKept
