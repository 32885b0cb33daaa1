---------------------------- MODULE MCSafeCache -----------------------------
EXTENDS SafeCache, TLC

CacheSymmetry == Permutations(Workers) \cup Permutations(Slots)

MCScenarios ==
  { {"crash", "write_error", "expire"},
    {"crash", "write_error", "online_cleanup"},
    {"db_error", "online_cleanup"},
    {"db_error", "crash"},
    {"edit"} }

\* The project is edited once; Init has rows of the edited project already.
MCEdits ==
  LET first == CHOOSE v \in Workspaces : TRUE
  IN {first} \X (Workspaces \ {first})

\* Nothing goes wrong, nothing but edits, and nothing but cleanups.
QuietScenarios == {{}}
EditScenarios == {{"edit"}}
TimeScenarios == {{"expire"}}
CleanupScenarios == {{"online_cleanup", "expire"}}
=============================================================================
