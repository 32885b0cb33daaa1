SPECIFICATION RequestSpec
CONSTANTS
  None = None
  FilterCases <- MCFilterCases
  Defs <- MCDefs
  PathScenes <- MCPathScenes
  Bodies <- MCBodies
  ProfileFiles <- MCProfileFiles
  Environment <- MCEnvironment
  Starts = {s1, s2, s3}
  Nothing = Nothing
  Empty = Empty
  IdentityScenes <- MCIdentityScenes
  UsageScenes <- MCUsageScenes
  MaxDays = 3
  Savers = {v1, v2, v3}
  Projects = {p1, p2}
  CheckpointScenes <- MCCheckpointScenes
  MaxWork = 2
INVARIANTS
  LossIsTold
  MarkersRestore
  SharedAnswerFits
  CachedPrefixStable
  LimitsAreExact
  
  MigrationResolves
  IdentitySurvives
  StatsAddUp
  LatestIsCurrent
CHECK_DEADLOCK FALSE
