--------------------------- MODULE ManagedLaunch ----------------------------
(***************************************************************************)
(* `toche run claude` and `toche run codex` (integrations/*/launch.rs) with *)
(* the runtimes they start, use and stop (gateway/server.rs, main.rs).      *)
(*                                                                         *)
(* A launcher asks http://127.0.0.1:8743/health; when nobody answers it     *)
(* starts a runtime of its own, a child process that is killed when the     *)
(* launcher lets go of it, waits for the runtime to answer, runs the client *)
(* and kills its child at the end.  A runtime listens on the port that      *)
(* config.toml names; launchers always ask on 8743.  Users start and stop   *)
(* runtimes too, and other programs take the port.                          *)
(***************************************************************************)
EXTENDS Naturals

CONSTANTS
  Launchers,    \* `toche run` processes; launcher l's runtime is called l
  User,         \* the runtime that a user starts by hand
  MaxPolls,     \* how often a launcher looks whether its runtime answers (30)
  LaunchScenes, \* who takes part in a behaviour and what may go wrong
  None          \* nobody, nothing

Ports == {"8743", "other"}

Runtimes == Launchers \cup {User}

\* Other programs on the port: one that accepts and never answers, one that
\* does not speak HTTP, one that has no /health, and one that answers it.
Strangers == {"mute", "raw", "http", "impostor"}

LaunchFaultKinds ==
  { "crash",    \* a launcher or a runtime is killed
    "exec",     \* an executable is missing or cannot be started
    "edit" }    \* the user edits config.toml

\* What happens to Codex's configuration (CodexConnect).
CodexKinds ==
  { "other",    \* the user changes something else, or mentions the gateway in it
    "break",    \* the user makes it invalid TOML, and valid again
    "urls",     \* the user changes the URLs while they are not Toche's
    "backup",   \* the user removes the backup
    "crash",    \* a command is killed
    "io",       \* a file operation fails
    "tear" }    \* ... or is killed, in the middle of the copy of the backup

\* The runtime that a user starts by hand: there is none, it serves all the
\* time, or it is started and stopped.
UserRuntime == {"none", "stays", "moves"}

LaunchScene ==
  [launchers : SUBSET Launchers, user : UserRuntime, strangers : SUBSET Strangers,
   faults : SUBSET LaunchFaultKinds, codex : {None} \cup SUBSET CodexKinds]

ASSUME LaunchAssumption ==
  /\ User \notin Launchers
  /\ None \notin Launchers \cup {User}
  /\ MaxPolls \in Nat \ {0}
  /\ LaunchScenes \subseteq LaunchScene

VARIABLES
  port,         \* port[n]: who has a listening socket on 127.0.0.1:n
  server,       \* server[r]: the runtime process r
  launch,       \* launch[l]: the launcher l
  client,       \* client[l]: the Claude Code or Codex that l has started
  disk,         \* config.toml: its port, whether it is valid, and whether the
                \*   default integration resolves
  cast,         \* the scene (it never changes)
  codex         \* Codex's configuration, which no launch touches (CodexConnect)

\* What launchers and runtimes leave alone.
others == <<cast, codex>>

launchVars == <<port, server, launch, client, disk>>

clientsVars == <<launchVars, others>>

Runtime(r) == [kind |-> "runtime", by |-> r]
Probe(l) == [kind |-> "probe", by |-> l]
Stranger(s) == [kind |-> s, by |-> None]

Occupants ==
  [kind : {"runtime"}, by : Runtimes] \cup [kind : {"probe"}, by : Launchers]
    \cup [kind : Strangers, by : {None}]

\* Nobody is none of them.
ASSUME OccupantAssumption == None \notin Occupants

Ended == {"done", "failed", "dead"}

\* Where a launcher is: not started; asking for /health; port_is_occupied with
\* its second and third request and its attempt to bind; starting a runtime and
\* polling it; starting the client and waiting for it; stopping its runtime.
Stages ==
  {"idle", "health", "ask", "again", "bind", "probe", "spawn", "poll", "check",
   "client", "wait", "stop"} \cup Ended

Alive == {"load", "locate", "bind", "serving"}

Disk == [port : Ports, valid : BOOLEAN, default : BOOLEAN]

LaunchInit ==
  /\ cast \in LaunchScenes
  /\ \E s \in IF cast.user = "stays" THEN {Runtime(User)}
             ELSE {None} \cup {Stranger(k) : k \in cast.strangers} :
       port = [n \in Ports |-> IF n = "8743" THEN s ELSE None]
  /\ server = [r \in Runtimes |->
       IF r = User /\ cast.user = "stays"
       THEN [st |-> "serving", at |-> "8743", default |-> TRUE]
       ELSE [st |-> "absent", at |-> None, default |-> FALSE]]
  /\ launch = [l \in Launchers |-> [pc |-> "idle", polls |-> 0, child |-> FALSE]]
  /\ client = [l \in Launchers |-> "none"]
  /\ disk = [port |-> "8743", valid |-> TRUE, default |-> TRUE]

-----------------------------------------------------------------------------
(***************************************************************************)
(* Runtimes.                                                               *)
(***************************************************************************)
Fresh == [st |-> "load", at |-> None, default |-> FALSE]
Dead == [st |-> "dead", at |-> None, default |-> FALSE]

\* The sockets of a process that ends are closed with it.
Without(who) == [n \in Ports |-> IF port[n] = who THEN None ELSE port[n]]

Quits(r) == server' = [server EXCEPT ![r] = Dead] /\ port' = Without(Runtime(r))

\* build_router: the configuration must load and be valid; the default
\* integration may be missing.
LoadConfig(r) ==
  /\ server[r].st = "load"
  /\ server' = [server EXCEPT ![r] =
       IF disk.valid THEN [st |-> "locate", at |-> None, default |-> disk.default]
       ELSE Dead]
  /\ UNCHANGED <<port, launch, client, disk, others>>

\* serve: the configuration is loaded once more, for the port ...
Locate(r) ==
  /\ server[r].st = "locate"
  /\ server' = [server EXCEPT ![r] =
       IF disk.valid THEN [@ EXCEPT !.st = "bind", !.at = disk.port] ELSE Dead]
  /\ UNCHANGED <<port, launch, client, disk, others>>

\* ... which must be free.
Serve(r) ==
  LET n == server[r].at IN
  /\ server[r].st = "bind"
  /\ IF port[n] = None
     THEN /\ port' = [port EXCEPT ![n] = Runtime(r)]
          /\ server' = [server EXCEPT ![r].st = "serving"]
     ELSE server' = [server EXCEPT ![r] = Dead] /\ UNCHANGED port
  /\ UNCHANGED <<launch, client, disk, others>>

\* A GET of /health on 8743 succeeds: a runtime's does, and a stranger's that
\* answers everything.
Healthy ==
  /\ port["8743"] # None
  /\ \/ port["8743"].kind = "runtime"
     \/ port["8743"].kind = "impostor"

\* It has an answer of any status, or will not have one.
Answered == Healthy \/ (port["8743"] # None /\ port["8743"].kind = "http")
Mute == port["8743"] # None /\ port["8743"].kind = "mute"

-----------------------------------------------------------------------------
(***************************************************************************)
(* Launchers.                                                              *)
(***************************************************************************)
At(l, pc) == launch[l].pc = pc
Go(l, pc) == launch' = [launch EXCEPT ![l].pc = pc]

\* The error return of run_managed: the child handle is dropped, and with
\* kill_on_drop the child with it.
Bail(l) ==
  /\ launch' = [launch EXCEPT ![l] = [pc |-> "failed", polls |-> 0, child |-> FALSE]]
  /\ IF launch[l].child THEN Quits(l) ELSE UNCHANGED <<server, port>>

Start(l) ==
  /\ At(l, "idle") /\ l \in cast.launchers
  /\ \/ Go(l, "health")
     \/ "exec" \in cast.faults /\ Go(l, "failed")
  /\ UNCHANGED <<port, server, client, disk, others>>

\* runtime_is_healthy, before anything is started.
AskHealth(l) ==
  /\ At(l, "health") /\ ~Mute
  /\ Go(l, IF Healthy THEN "client" ELSE "ask")
  /\ UNCHANGED <<port, server, client, disk, others>>

\* port_is_occupied: whatever has answered is asked once more ...
AskOccupied(l) ==
  /\ At(l, "ask") /\ ~Mute
  /\ Go(l, IF Answered THEN "again" ELSE "bind")
  /\ UNCHANGED <<port, server, client, disk, others>>

AskAgain(l) ==
  /\ At(l, "again") /\ ~Mute
  /\ Go(l, IF Healthy THEN "spawn" ELSE "failed")
  /\ UNCHANGED <<port, server, client, disk, others>>

\* ... and when nothing has, the launcher tries to take the port itself.
TryBind(l) ==
  /\ At(l, "bind")
  /\ IF port["8743"] = None
     THEN port' = [port EXCEPT !["8743"] = Probe(l)] /\ Go(l, "probe")
     ELSE Go(l, "failed") /\ UNCHANGED port
  /\ UNCHANGED <<server, client, disk, others>>

\* The listener that could be bound is dropped.
DropProbe(l) ==
  /\ At(l, "probe")
  /\ port' = Without(Probe(l))
  /\ Go(l, "spawn")
  /\ UNCHANGED <<server, client, disk, others>>

Spawn(l) ==
  /\ At(l, "spawn")
  /\ \/ /\ launch' = [launch EXCEPT ![l] = [pc |-> "poll", polls |-> 0, child |-> TRUE]]
        /\ server' = [server EXCEPT ![l] = Fresh]
     \/ "exec" \in cast.faults /\ Go(l, "failed") /\ UNCHANGED server
  /\ UNCHANGED <<port, client, disk, others>>

\* Mutant of Poll: the wait for the runtime has no end.
PollForever(l) ==
  /\ At(l, "poll") /\ ~Mute
  /\ Go(l, IF Healthy THEN "check" ELSE "poll")
  /\ UNCHANGED <<port, server, client, disk, others>>

\* One round of the wait for the runtime.
Poll(l) ==
  /\ At(l, "poll") /\ ~Mute
  /\ launch' = [launch EXCEPT
       ![l].pc = IF Healthy \/ launch[l].polls + 1 = MaxPolls THEN "check" ELSE "poll",
       ![l].polls = IF Healthy THEN 0 ELSE (launch[l].polls + 1) % MaxPolls]
  /\ UNCHANGED <<port, server, client, disk, others>>

\* Mutant of Check: the child is started without kill_on_drop.
CheckLeavesChild(l) ==
  /\ At(l, "check") /\ ~Mute
  /\ Go(l, IF Healthy THEN "client" ELSE "failed")
  /\ UNCHANGED <<port, server, client, disk, others>>

\* After the wait, the one request that counts.
Check(l) ==
  /\ At(l, "check") /\ ~Mute
  /\ IF Healthy THEN Go(l, "client") /\ UNCHANGED <<port, server>> ELSE Bail(l)
  /\ UNCHANGED <<client, disk, others>>

\* The client runs with its base URL set to 8743, whoever is there.
StartClient(l) ==
  /\ At(l, "client")
  /\ \/ /\ Go(l, "wait")
        /\ client' = [client EXCEPT ![l] = "running"]
        /\ UNCHANGED <<port, server>>
     \/ "exec" \in cast.faults /\ Bail(l) /\ UNCHANGED client
  /\ UNCHANGED <<disk, others>>

ClientEnds(l) ==
  /\ client[l] = "running"
  /\ client' = [client EXCEPT ![l] = "ended"]
  /\ UNCHANGED <<port, server, launch, disk, others>>

\* cmd.status() returns.
ClientEnded(l) ==
  /\ At(l, "wait") /\ client[l] = "ended"
  /\ Go(l, IF launch[l].child THEN "stop" ELSE "done")
  /\ UNCHANGED <<port, server, client, disk, others>>

\* Mutant of StopRuntime: the runtime on the port is stopped, not the child.
StopAny(l) ==
  /\ At(l, "stop")
  /\ LET r == IF port["8743"] # None /\ port["8743"].kind = "runtime"
              THEN port["8743"].by ELSE l IN Quits(r)
  /\ launch' = [launch EXCEPT ![l].pc = "done", ![l].child = FALSE]
  /\ UNCHANGED <<client, disk, others>>

\* kill and wait for the runtime "if we started it", dead or alive.
StopRuntime(l) ==
  /\ At(l, "stop")
  /\ Quits(l)
  /\ launch' = [launch EXCEPT ![l].pc = "done", ![l].child = FALSE]
  /\ UNCHANGED <<client, disk, others>>

-----------------------------------------------------------------------------
(***************************************************************************)
(* Users, other programs, kills.                                           *)
(***************************************************************************)
\* `toche` without a command.
UserStarts ==
  /\ cast.user = "moves" /\ server[User].st \in {"absent", "dead"}
  /\ server' = [server EXCEPT ![User] = Fresh]
  /\ UNCHANGED <<port, launch, client, disk, others>>

UserStops ==
  /\ cast.user = "moves" /\ server[User].st \in Alive
  /\ Quits(User)
  /\ UNCHANGED <<launch, client, disk, others>>

\* The default integration goes and comes; the port changes; the file is
\* broken for a while.
EditConfig ==
  /\ "edit" \in cast.faults
  /\ \E d \in Disk : d # disk /\ disk' = d
  /\ UNCHANGED <<port, server, launch, client, others>>

StrangerComes ==
  /\ port["8743"] = None
  /\ \E s \in cast.strangers : port' = [port EXCEPT !["8743"] = Stranger(s)]
  /\ UNCHANGED <<server, launch, client, disk, others>>

StrangerGoes ==
  /\ \E s \in cast.strangers : port["8743"] = Stranger(s)
  /\ port' = [port EXCEPT !["8743"] = None]
  /\ UNCHANGED <<server, launch, client, disk, others>>

\* A killed launcher drops nothing: its runtime and its client go on.
LauncherDies(l) ==
  /\ "crash" \in cast.faults
  /\ launch[l].pc \notin {"idle"} \cup Ended
  /\ launch' = [launch EXCEPT ![l].pc = "dead"]
  /\ port' = Without(Probe(l))
  /\ UNCHANGED <<server, client, disk, others>>

RuntimeDies(r) ==
  /\ "crash" \in cast.faults
  /\ server[r].st \in Alive
  /\ Quits(r)
  /\ UNCHANGED <<launch, client, disk, others>>

-----------------------------------------------------------------------------
\* run_managed, from the search for the executable to the end of the runtime.
RunManaged(l) ==
  \/ Start(l) \/ AskHealth(l) \/ AskOccupied(l) \/ AskAgain(l) \/ TryBind(l)
  \/ DropProbe(l) \/ Spawn(l) \/ Poll(l) \/ Check(l) \/ StartClient(l)
  \/ ClientEnded(l) \/ StopRuntime(l)

RunServer(r) == LoadConfig(r) \/ Locate(r) \/ Serve(r)

LaunchNext ==
  \/ \E l \in Launchers : RunManaged(l) \/ ClientEnds(l) \/ LauncherDies(l)
  \/ \E r \in Runtimes : RunServer(r) \/ RuntimeDies(r)
  \/ UserStarts \/ UserStops \/ EditConfig \/ StrangerComes \/ StrangerGoes

\* A launcher goes on once started, and so does a runtime.
LaunchFairness ==
  /\ \A l \in Launchers : WF_clientsVars(RunManaged(l) /\ ~At(l, "idle"))
  /\ \A r \in Runtimes : WF_clientsVars(RunServer(r))

-----------------------------------------------------------------------------
(***************************************************************************)
(* Properties.                                                             *)
(***************************************************************************)
LaunchTypeOK ==
  /\ port \in [Ports -> Occupants \cup {None}]
  /\ server \in [Runtimes -> [st : {"absent", "dead"} \cup Alive,
                              at : Ports \cup {None}, default : BOOLEAN]]
  /\ launch \in [Launchers -> [pc : Stages, polls : 0 .. MaxPolls - 1, child : BOOLEAN]]
  /\ client \in [Launchers -> {"none", "running", "ended"}]
  /\ disk \in Disk
  /\ cast \in LaunchScenes

\* Whatever way a launcher ends short of being killed - an error before or
\* after the wait, a client that cannot be started, the end of the client -
\* the runtime it started is gone with it, and its probe too; a launcher
\* that joined another runtime never has one of its own to stop.
NoOrphan ==
  \A l \in Launchers :
    /\ launch[l].pc \in {"done", "failed"} =>
         server[l].st \notin Alive /\ \A n \in Ports : port[n] # Probe(l)
    /\ server[l].st # "absent" /\ launch[l].pc \notin Ended => launch[l].child

\* A client whose own launcher has the runtime on the port keeps it: neither
\* a launcher that probes the port or loses the race for it, nor the end of
\* another client takes it away while this client runs.
OwnRuntimeStays ==
  [][\A l \in Launchers :
       /\ At(l, "wait") /\ client[l] = "running" /\ port["8743"] = Runtime(l)
       /\ port'["8743"] # Runtime(l)
       => "crash" \in cast.faults /\ server[l].st \in Alive /\ server'[l].st = "dead"
          /\ launch' = launch]_clientsVars

\* A launch that has started ends, or runs its client, in finitely many
\* requests, also when several start at once, runtimes cannot bind and the
\* configuration names another port; only a program that takes the
\* connection and never answers holds it up.
LaunchSettles ==
  \A l \in Launchers :
    launch[l].pc # "idle" ~> (launch[l].pc \in {"wait"} \cup Ended \/ Mute)

-----------------------------------------------------------------------------
\* "Multiple instances of either supported client can use the same Toche
\* runtime" (README.md:161).
ClientIsServed == \A l \in Launchers : client[l] = "running" => Healthy
=============================================================================
