SPECIFICATION Spec
CONSTANTS
  Workers = {w1, w2}
  Slots = {s1}
  Outputs = {}
  Answers = {h1}
  Workspaces = {v1}
  Domains = {d1}
  MaxEntries = NoLimit
  MaxPermits = 2
  Edits <- MCEdits
  Scenarios <- CleanupScenarios
  NoLimit = NoLimit
  NoRow = NoRow
  NoHash = NoHash
SYMMETRY CacheSymmetry
INVARIANT OrphansUnreferenced
