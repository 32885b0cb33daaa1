-------------------------- MODULE MCClientConnect --------------------------
(***************************************************************************)
(* Commands, inodes and values are interchangeable.                        *)
(***************************************************************************)
EXTENDS ClientConnect, TLC

MCScenarios ==
  { {"crash", "io"},                \* everything fails
    {"other", "crash"},             \* so it does while the user edits
    {"other", "io"},
    {"other", "urls"},              \* the user changes everything
    {"urls", "backup"},             \* and removes the backup
    {"midway", "revert"} }          \* and does not wait for the commands

\* Nothing else happens; and nothing but kills.
QuietScenarios == {{}}
KillScenarios == {{"crash"}}

Symmetry ==
  Permutations(Commands) \cup Permutations(Nodes) \cup Permutations(Urls) \cup Permutations(Others)
============================================================================
