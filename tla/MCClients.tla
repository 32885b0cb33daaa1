------------------------------ MODULE MCClients -----------------------------
(***************************************************************************)
(* Instances of CodexConnect: each behaviour follows one scene.             *)
(***************************************************************************)
EXTENDS CodexConnect

\* Two launches at once, beside programs that take the port, or with kills.
TwoLaunches ==
  [launchers : {Launchers}, user : {"none"}, strangers : {{}, {"http", "raw", "mute"}},
   faults : {{"exec"}, {"crash"}}, codex : {None}]

\* One launch beside a runtime of the user, whose configuration changes.
LaunchBesideUser ==
  [launchers : {{CHOOSE l \in Launchers : TRUE}}, user : {"moves"}, strangers : {{"impostor"}},
   faults : {{"edit", "crash"}}, codex : {None}]

\* Codex is connected and disconnected beside a runtime that is always there,
\* or comes and goes.
CodexCommands ==
  [launchers : {{}}, user : {"stays"}, strangers : {{}}, faults : {{}},
   codex : { {"crash", "io"}, {"other", "break", "crash"}, {"other", "urls"},
             {"urls", "backup"}, {"other", "tear"} }]
  \cup [launchers : {{}}, user : {"moves"}, strangers : {{"mute", "impostor"}}, faults : {{}},
        codex : {{}}]

MCLaunchScenes == TwoLaunches \cup LaunchBesideUser \cup CodexCommands

\* Kills in the middle of the copy of the backup.
TornScenes ==
  [launchers : {{}}, user : {"stays"}, strangers : {{}}, faults : {{}}, codex : {{"tear"}}]

\* A runtime of the user and a configuration that is edited.
EditScenes ==
  [launchers : {{}}, user : {"moves"}, strangers : {{}}, faults : {{"edit"}}, codex : {{}}]

\* Nothing but launches.
LaunchesOnly ==
  [launchers : {Launchers}, user : {"none"}, strangers : {{}}, faults : {{}}, codex : {None}]
=============================================================================
