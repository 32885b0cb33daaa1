SPECIFICATION FairSpec
CONSTANTS
  Openers = {o1, o2, o3}
  Faults = {"crash", "busy"}
  MaxFaults = 2
INVARIANTS
  OpenIsComplete
  GapOwned
PROPERTIES
  Migrated
