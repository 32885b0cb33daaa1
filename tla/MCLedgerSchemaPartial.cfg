SPECIFICATION FairSpec
CONSTANTS
  Openers = {o1, o2}
  Faults = {"crash"}
  MaxFaults = 1
PROPERTY PartialRecovered
