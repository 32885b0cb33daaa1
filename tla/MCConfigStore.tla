--------------------------- MODULE MCConfigStore ---------------------------
(***************************************************************************)
(* Values that a configuration file cannot write down.                     *)
(***************************************************************************)
EXTENDS ConfigStore

MCNames == {"default"}
MCUrls == {"old", "new"}

\* profiles.toml holds two profiles; config.toml one or two integrations.
MCMigrated == [name |-> "default", count |-> 2, url |-> "old"]
MCInstalled == [name : MCNames, count : 1 .. 2, url : {"old"}]

\* Two setups and a command, where anything may go wrong; and commands that
\* start at once on a directory of 1.0.x, where nothing does.
Working == Setups \cup {CHOOSE l \in Loaders : TRUE}

MCScenes ==
  [start : {"fresh", "v2"}, procs : {Working}, faults : {{"crash", "io"}}]
    \cup [start : {"legacy"}, procs : {Working}, faults : {{"crash", "io", "restore"}}]
    \cup [start : {"legacy", "downgraded"}, procs : {Loaders}, faults : {{}}]

\* Directories of 1.0.x, as they are and with processes that may be killed.
LegacyScenes == [start : {"legacy"}, procs : {Procs}, faults : {{}}]
KillScenes ==
  [start : {"legacy"}, procs : {Procs}, faults : {{"crash"}}]
============================================================================
