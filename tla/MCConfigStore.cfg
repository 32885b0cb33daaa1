SPECIFICATION FairSpec
CONSTANTS
  Setups = {s1, s2}
  Loaders = {l1, l2, l3}
  Nodes = {n1, n2, n3, n4}
  None = None
  Torn = Torn
  Names <- MCNames
  Urls <- MCUrls
  Migrated <- MCMigrated
  Installed <- MCInstalled
  Scenes <- MCScenes
INVARIANTS
  RollbackIsFound
  TornHasRollback
  LegacyKept
PROPERTIES
  FailedSetupRestores
  AppliedIsInstalled
  MigrationSettles
CHECK_DEADLOCK FALSE
