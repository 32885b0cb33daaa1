SPECIFICATION ClientsSpec
CONSTANTS
  Launchers = {l1, l2}
  User = User
  MaxPolls = 2
  LaunchScenes <- MCLaunchScenes
  Addresses = {u1, u2}
  Rest = {r1}
  MaxCommands = 4
  MaxChanges = 2
  None = None
INVARIANTS
  NoOrphan
  CodexGivesBack
PROPERTIES
  OwnRuntimeStays
  LaunchSettles
  CodexOwnsOneKey
CHECK_DEADLOCK FALSE
