--------------------------- MODULE ClientsProofs ----------------------------
(***************************************************************************)
(* Proofs about managed launches and the connection of Codex, for any       *)
(* number of launchers, polls, commands and edits, and any scenes.          *)
(***************************************************************************)
EXTENDS CodexConnect, TLAPS

(***************************************************************************)
(* Launchers and runtimes.                                                  *)
(***************************************************************************)
\* Where a launcher has started nothing yet.
Before == {"idle", "health", "ask", "again", "bind", "probe", "spawn"}

\* What a launcher has, by where it is: no runtime before it spawns one, the
\* handle while there is one, none at the end; and the port only to probe it.
LauncherInv(l) ==
  /\ launch[l].pc \in Before => server[l].st = "absent"
  /\ server[l].st # "absent" /\ launch[l].pc \notin Ended => launch[l].child
  /\ launch[l].pc \in {"done", "failed"} => server[l].st \notin Alive
  /\ \A n \in Ports : port[n] = Probe(l) => launch[l].pc = "probe"

LaunchersInv == \A l \in Launchers : LauncherInv(l)

LaunchInv == LaunchTypeOK /\ LaunchersInv

\* Sockets are only closed.
LEMMA WithoutIs ==
  ASSUME LaunchTypeOK, NEW who
  PROVE  /\ Without(who) \in [Ports -> Occupants \cup {None}]
         /\ \A n \in Ports : Without(who)[n] = IF port[n] = who THEN None ELSE port[n]
BY DEF LaunchTypeOK, Without

\* Occupants of different kinds differ, and each is one.
LEMMA OccupantsDiffer ==
  /\ \A r \in Runtimes, l \in Launchers : Runtime(r) # Probe(l)
  /\ \A r, q \in Runtimes : Runtime(r) = Runtime(q) => r = q
  /\ \A k, l \in Launchers : Probe(k) = Probe(l) => k = l
  /\ \A s \in Strangers : /\ \A r \in Runtimes : Stranger(s) # Runtime(r)
                          /\ \A l \in Launchers : Stranger(s) # Probe(l)
  /\ \A r \in Runtimes : Runtime(r) \in Occupants /\ Runtime(r) # None
  /\ \A l \in Launchers : Probe(l) \in Occupants /\ Probe(l) # None
  /\ \A s \in Strangers : Stranger(s) \in Occupants /\ Stranger(s) # None
<1>1. /\ \A r \in Runtimes : Runtime(r) \in Occupants
      /\ \A l \in Launchers : Probe(l) \in Occupants
      /\ \A s \in Strangers : Stranger(s) \in Occupants
  BY DEF Runtime, Probe, Stranger, Occupants
<1>2. \A o \in Occupants : o # None
  BY OccupantAssumption
<1>3. /\ \A r \in Runtimes, l \in Launchers : Runtime(r).kind # Probe(l).kind
      /\ \A r \in Runtimes : Runtime(r).by = r
      /\ \A l \in Launchers : Probe(l).by = l
      /\ \A s \in Strangers : Stranger(s).kind \notin {"runtime", "probe"}
      /\ \A r \in Runtimes : Runtime(r).kind = "runtime"
      /\ \A l \in Launchers : Probe(l).kind = "probe"
  BY DEF Runtime, Probe, Stranger, Strangers
<1> HIDE DEF Runtime, Probe, Stranger
<1> QED BY <1>1, <1>2, <1>3

LEMMA InitLaunch == LaunchInit => LaunchInv
<1> SUFFICES ASSUME LaunchInit PROVE LaunchInv
  OBVIOUS
<1>1. cast \in LaunchScenes /\ cast.strangers \subseteq Strangers
  BY LaunchAssumption DEF LaunchInit, LaunchScene
<1>2. PICK s \in {Runtime(User), None} \cup {Stranger(k) : k \in cast.strangers} :
        port = [n \in Ports |-> IF n = "8743" THEN s ELSE None]
  BY DEF LaunchInit
<1>3. s \in Occupants \cup {None} /\ \A l \in Launchers : s # Probe(l)
  BY <1>1, OccupantsDiffer DEF Runtimes
<1>4. port \in [Ports -> Occupants \cup {None}]
  BY <1>2, <1>3
<1>5. server \in [Runtimes -> [st : {"absent", "dead"} \cup Alive,
                               at : Ports \cup {None}, default : BOOLEAN]]
  BY DEF LaunchInit, Alive, Ports
<1>6. /\ launch \in [Launchers -> [pc : Stages, polls : 0 .. MaxPolls - 1, child : BOOLEAN]]
      /\ client \in [Launchers -> {"none", "running", "ended"}]
      /\ disk \in Disk
  BY LaunchAssumption DEF LaunchInit, Stages, Disk, Ports
<1>7. LaunchTypeOK
  BY <1>1, <1>4, <1>5, <1>6 DEF LaunchTypeOK
<1>8. LaunchersInv
  <2> SUFFICES ASSUME NEW l \in Launchers
               PROVE  /\ launch[l].pc = "idle"
                      /\ server[l].st = "absent"
                      /\ \A n \in Ports : port[n] # Probe(l)
    BY DEF LaunchersInv, LauncherInv, Ended, Alive
  <2>1. launch[l].pc = "idle"
    BY DEF LaunchInit
  <2>2. l \in Runtimes /\ l # User
    BY LaunchAssumption DEF Runtimes
  <2>3. server[l].st = "absent"
    BY <2>2 DEF LaunchInit
  <2>4. \A n \in Ports : port[n] # Probe(l)
    BY <1>2, <1>3, OccupantsDiffer
  <2> QED BY <2>1, <2>3, <2>4
<1> QED BY <1>7, <1>8 DEF LaunchInv

\* A runtime that loads, finds its port, or takes it.
LEMMA ServerStep ==
  ASSUME LaunchInv, NEW r \in Runtimes, RunServer(r)
  PROVE  LaunchInv'
<1> USE DEF LaunchInv, others
<1>1. CASE LoadConfig(r)
  <2>1. server'[r].st = "absent" <=> server[r].st = "absent"
    BY <1>1 DEF LoadConfig, LaunchTypeOK, Dead
  <2>2. server'[r].st \in Alive => server[r].st \in Alive
    BY <1>1 DEF LoadConfig, Alive
  <2>3. \A q \in Runtimes : q # r => server'[q] = server[q]
    BY <1>1 DEF LoadConfig, LaunchTypeOK
  <2>4. LaunchTypeOK'
    BY <1>1 DEF LoadConfig, LaunchTypeOK, Dead, Alive, Disk, Ports
  <2>5. LaunchersInv'
    BY <1>1, <2>1, <2>2, <2>3 DEF LoadConfig, LaunchersInv, LauncherInv, Runtimes
  <2> QED BY <2>4, <2>5
<1>2. CASE Locate(r)
  <2>1. server'[r].st = "absent" <=> server[r].st = "absent"
    BY <1>2 DEF Locate, LaunchTypeOK, Dead
  <2>2. server'[r].st \in Alive => server[r].st \in Alive
    BY <1>2 DEF Locate, Alive
  <2>3. \A q \in Runtimes : q # r => server'[q] = server[q]
    BY <1>2 DEF Locate, LaunchTypeOK
  <2>4. LaunchTypeOK'
    BY <1>2 DEF Locate, LaunchTypeOK, Dead, Alive, Disk, Ports
  <2>5. LaunchersInv'
    BY <1>2, <2>1, <2>2, <2>3 DEF Locate, LaunchersInv, LauncherInv, Runtimes
  <2> QED BY <2>4, <2>5
<1>3. CASE Serve(r)
  <2>1. server'[r].st = "absent" <=> server[r].st = "absent"
    BY <1>3 DEF Serve, LaunchTypeOK, Dead
  <2>2. server'[r].st \in Alive => server[r].st \in Alive
    BY <1>3 DEF Serve, Alive
  <2>3. \A q \in Runtimes : q # r => server'[q] = server[q]
    BY <1>3 DEF Serve, LaunchTypeOK
  <2>4. /\ port' \in [Ports -> Occupants \cup {None}]
        /\ \A n \in Ports : port'[n] \in {port[n], Runtime(r)}
    BY <1>3, OccupantsDiffer DEF Serve, LaunchTypeOK
  <2>5. LaunchTypeOK'
    <3>1. server' \in [Runtimes -> [st : {"absent", "dead"} \cup Alive,
                                     at : Ports \cup {None}, default : BOOLEAN]]
      <4>1. CASE port[server[r].at] = None
        BY <1>3, <4>1 DEF Serve, LaunchTypeOK, Alive
      <4>2. CASE port[server[r].at] # None
        <5>1. server' = [server EXCEPT ![r] = Dead]
          BY <1>3, <4>2 DEF Serve
        <5>2. Dead \in [st : {"absent", "dead"} \cup Alive,
                        at : Ports \cup {None}, default : BOOLEAN]
          BY DEF Dead
        <5> QED BY <5>1, <5>2 DEF LaunchTypeOK
      <4> QED BY <4>1, <4>2
    <3>2. UNCHANGED <<launch, client, disk, cast>>
      BY <1>3 DEF Serve
    <3> QED BY <2>4, <3>1, <3>2 DEF LaunchTypeOK
  <2>6. \A l \in Launchers, n \in Ports : port'[n] = Probe(l) => port[n] = Probe(l)
    BY <2>4, OccupantsDiffer
  <2>7. launch' = launch
    BY <1>3 DEF Serve
  <2>8. LaunchersInv'
    BY <2>1, <2>2, <2>3, <2>6, <2>7 DEF LaunchersInv, LauncherInv, Runtimes
  <2> QED BY <2>5, <2>8
<1> QED BY <1>1, <1>2, <1>3 DEF RunServer

\* A runtime ends, and its sockets with it.
LEMMA QuitsIs ==
  ASSUME LaunchInv, NEW r \in Runtimes, Quits(r)
  PROVE  /\ server' \in [Runtimes -> [st : {"absent", "dead"} \cup Alive,
                                      at : Ports \cup {None}, default : BOOLEAN]]
         /\ port' \in [Ports -> Occupants \cup {None}]
         /\ server'[r].st = "dead"
         /\ \A q \in Runtimes : q # r => server'[q] = server[q]
         /\ \A n \in Ports : port'[n] = IF port[n] = Runtime(r) THEN None ELSE port[n]
         /\ \A l \in Launchers, n \in Ports : port'[n] = Probe(l) => port[n] = Probe(l)
<1>1. port' = Without(Runtime(r))
  BY DEF Quits
<1>2. /\ port' \in [Ports -> Occupants \cup {None}]
      /\ \A n \in Ports : port'[n] = IF port[n] = Runtime(r) THEN None ELSE port[n]
  BY <1>1, WithoutIs DEF LaunchInv
<1>3. \A l \in Launchers, n \in Ports : port'[n] = Probe(l) => port[n] = Probe(l)
  BY <1>2, OccupantsDiffer
<1>4. server' \in [Runtimes -> [st : {"absent", "dead"} \cup Alive,
                                at : Ports \cup {None}, default : BOOLEAN]]
  BY DEF Quits, LaunchInv, LaunchTypeOK, Dead
<1>5. server'[r].st = "dead" /\ \A q \in Runtimes : q # r => server'[q] = server[q]
  BY DEF Quits, LaunchInv, LaunchTypeOK, Dead
<1> QED BY <1>2, <1>3, <1>4, <1>5

\* A runtime is killed or stopped; that of a launcher may be, once started.
LEMMA QuitsStep ==
  ASSUME LaunchInv, NEW r \in Runtimes, Quits(r),
         r \in Launchers => server[r].st # "absent",
         UNCHANGED <<launch, client, disk, cast>>
  PROVE  LaunchInv'
<1>1. LaunchTypeOK'
  BY QuitsIs DEF LaunchInv, LaunchTypeOK
<1>2. ASSUME NEW l \in Launchers PROVE LauncherInv(l)'
  <2>1. l \in Runtimes /\ LauncherInv(l)
    BY DEF Runtimes, LaunchInv, LaunchersInv
  <2>2. \A n \in Ports : port'[n] = Probe(l) => launch'[l].pc = "probe"
    BY <2>1, QuitsIs DEF LauncherInv
  <2>3. CASE l = r
    BY <2>1, <2>2, <2>3, QuitsIs DEF LauncherInv, Alive
  <2>4. CASE l # r
    BY <2>1, <2>2, <2>4, QuitsIs DEF LauncherInv
  <2> QED BY <2>3, <2>4
<1> QED BY <1>1, <1>2 DEF LaunchInv, LaunchersInv

\* A step of one launcher leaves what holds of the others.
LEMMA OthersKeep ==
  ASSUME LaunchInv, NEW l \in Launchers, LaunchTypeOK', LauncherInv(l)',
         \A k \in Launchers : k # l => launch'[k] = launch[k] /\ server'[k] = server[k],
         \A k \in Launchers, n \in Ports : k # l /\ port'[n] = Probe(k) => port[n] = Probe(k)
  PROVE  LaunchInv'
<1> SUFFICES ASSUME NEW k \in Launchers, k # l PROVE LauncherInv(k)'
  BY DEF LaunchInv, LaunchersInv
<1> QED BY DEF LaunchInv, LaunchersInv, LauncherInv

\* A launcher goes on, and only its place changes.
LEMMA GoStep ==
  ASSUME LaunchInv, NEW l \in Launchers, NEW pc \in Stages, Go(l, pc),
         UNCHANGED <<port, server, disk, cast>>,
         client' \in [Launchers -> {"none", "running", "ended"}],
         ~At(l, "probe"), launch[l].pc \notin Ended,
         pc \in Before => launch[l].pc \in Before,
         pc \in {"done", "failed"} => launch[l].pc \in Before \/ ~launch[l].child
  PROVE  LaunchInv'
<1>1. /\ launch' \in [Launchers -> [pc : Stages, polls : 0 .. MaxPolls - 1, child : BOOLEAN]]
      /\ launch'[l].pc = pc /\ launch'[l].child = launch[l].child
      /\ \A k \in Launchers : k # l => launch'[k] = launch[k]
  BY DEF Go, LaunchInv, LaunchTypeOK
<1>2. LaunchTypeOK'
  BY <1>1 DEF LaunchInv, LaunchTypeOK
<1>3. LauncherInv(l)'
  BY <1>1 DEF LaunchInv, LaunchersInv, LauncherInv, At, Alive
<1> QED BY <1>1, <1>2, <1>3, OthersKeep

\* A launcher gives up, or its child with it.
LEMMA BailStep ==
  ASSUME LaunchInv, NEW l \in Launchers, Bail(l),
         UNCHANGED <<client, disk, cast>>,
         ~At(l, "probe"), launch[l].pc \notin Ended
  PROVE  LaunchInv'
<1>1. /\ launch' \in [Launchers -> [pc : Stages, polls : 0 .. MaxPolls - 1, child : BOOLEAN]]
      /\ launch'[l].pc = "failed"
      /\ \A k \in Launchers : k # l => launch'[k] = launch[k]
  <2>1. [pc |-> "failed", polls |-> 0, child |-> FALSE]
          \in [pc : Stages, polls : 0 .. MaxPolls - 1, child : BOOLEAN]
    BY LaunchAssumption DEF Stages, Ended
  <2>2. launch' = [launch EXCEPT ![l] = [pc |-> "failed", polls |-> 0, child |-> FALSE]]
    BY DEF Bail
  <2> QED BY <2>1, <2>2 DEF LaunchInv, LaunchTypeOK
<1>2. l \in Runtimes /\ Launchers \subseteq Runtimes
  BY DEF Runtimes
<1>3. LauncherInv(l)
  BY DEF LaunchInv, LaunchersInv
<1>4. CASE launch[l].child
  <2>1. Quits(l)
    BY <1>4 DEF Bail
  <2>2. LaunchTypeOK'
    BY <1>1, <1>2, <2>1, QuitsIs DEF LaunchInv, LaunchTypeOK
  <2>3. \A n \in Ports : port'[n] # Probe(l)
    BY <1>2, <1>3, <2>1, QuitsIs DEF LauncherInv, At
  <2>4. LauncherInv(l)'
    BY <1>1, <1>2, <2>1, <2>3, QuitsIs DEF LauncherInv, Alive, Before, Ended
  <2> QED BY <1>1, <1>2, <2>1, <2>2, <2>4, QuitsIs, OthersKeep
<1>5. CASE ~launch[l].child
  <2>1. UNCHANGED <<server, port>>
    BY <1>5 DEF Bail
  <2>2. LaunchTypeOK'
    BY <1>1, <2>1 DEF LaunchInv, LaunchTypeOK
  <2>3. LauncherInv(l)'
    BY <1>1, <1>3, <1>5, <2>1 DEF LauncherInv, Alive, Before, Ended, At
  <2> QED BY <1>1, <2>1, <2>2, <2>3, OthersKeep
<1> QED BY <1>4, <1>5

\* run_managed, step by step.
LEMMA RunManagedStep ==
  ASSUME LaunchInv, NEW l \in Launchers, RunManaged(l)
  PROVE  LaunchInv'
<1> USE DEF others
<1>0. /\ client \in [Launchers -> {"none", "running", "ended"}]
      /\ LauncherInv(l)
      /\ l \in Runtimes /\ Launchers \subseteq Runtimes
  BY DEF LaunchInv, LaunchTypeOK, LaunchersInv, Runtimes
<1>1. CASE Start(l)
  BY <1>0, <1>1, GoStep DEF Start, At, Stages, Before, Ended
<1>2. CASE AskHealth(l)
  BY <1>0, <1>2, GoStep DEF AskHealth, At, Stages, Before, Ended
<1>3. CASE AskOccupied(l)
  BY <1>0, <1>3, GoStep DEF AskOccupied, At, Stages, Before, Ended
<1>4. CASE AskAgain(l)
  BY <1>0, <1>4, GoStep DEF AskAgain, At, Stages, Before, Ended
<1>5. CASE TryBind(l)
  <2>1. CASE port["8743"] = None
    <3>1. /\ port' = [port EXCEPT !["8743"] = Probe(l)] /\ Go(l, "probe")
          /\ UNCHANGED <<server, client, disk, cast>>
      BY <1>5, <2>1 DEF TryBind
    <3>2. /\ port' \in [Ports -> Occupants \cup {None}]
          /\ \A n \in Ports : port'[n] \in {port[n], Probe(l)}
      BY <3>1, OccupantsDiffer DEF LaunchInv, LaunchTypeOK
    <3>3. /\ launch' \in [Launchers -> [pc : Stages, polls : 0 .. MaxPolls - 1, child : BOOLEAN]]
          /\ launch'[l].pc = "probe"
          /\ \A k \in Launchers : k # l => launch'[k] = launch[k]
      BY <3>1 DEF Go, Stages, LaunchInv, LaunchTypeOK
    <3>4. LaunchTypeOK'
      BY <3>1, <3>2, <3>3 DEF LaunchInv, LaunchTypeOK
    <3>5. server[l].st = "absent"
      BY <1>0, <1>5 DEF TryBind, At, LauncherInv, Before
    <3>6. LauncherInv(l)'
      BY <3>1, <3>3, <3>5 DEF LauncherInv, Alive
    <3>7. \A k \in Launchers, n \in Ports : k # l /\ port'[n] = Probe(k) => port[n] = Probe(k)
      BY <3>2, OccupantsDiffer
    <3> QED BY <3>1, <3>3, <3>4, <3>6, <3>7, OthersKeep
  <2>2. CASE port["8743"] # None
    BY <1>0, <1>5, <2>2, GoStep DEF TryBind, At, Stages, Before, Ended
  <2> QED BY <2>1, <2>2
<1>6. CASE DropProbe(l)
  <2>1. /\ launch' \in [Launchers -> [pc : Stages, polls : 0 .. MaxPolls - 1, child : BOOLEAN]]
        /\ launch'[l].pc = "spawn"
        /\ \A k \in Launchers : k # l => launch'[k] = launch[k]
    BY <1>6 DEF DropProbe, Go, Stages, LaunchInv, LaunchTypeOK
  <2>2. /\ port' \in [Ports -> Occupants \cup {None}]
        /\ \A n \in Ports : port'[n] = IF port[n] = Probe(l) THEN None ELSE port[n]
    BY <1>6, WithoutIs DEF DropProbe, LaunchInv
  <2>3. /\ \A n \in Ports : port'[n] # Probe(l)
        /\ \A k \in Launchers, n \in Ports : port'[n] = Probe(k) => port[n] = Probe(k)
    BY <2>2, OccupantsDiffer
  <2>4. LaunchTypeOK'
    BY <1>6, <2>1, <2>2 DEF DropProbe, LaunchInv, LaunchTypeOK
  <2>5. server[l].st = "absent" /\ server' = server
    BY <1>0, <1>6 DEF DropProbe, At, LauncherInv, Before
  <2>6. LauncherInv(l)'
    BY <2>1, <2>3, <2>5 DEF LauncherInv, Alive
  <2> QED BY <2>1, <2>3, <2>4, <2>5, <2>6, OthersKeep
<1>7. CASE Spawn(l)
  <2>1. CASE Go(l, "failed") /\ UNCHANGED server
    BY <1>0, <1>7, <2>1, GoStep DEF Spawn, At, Stages, Before, Ended
  <2>2. CASE /\ launch' = [launch EXCEPT ![l] = [pc |-> "poll", polls |-> 0, child |-> TRUE]]
             /\ server' = [server EXCEPT ![l] = Fresh]
    <3>1. [pc |-> "poll", polls |-> 0, child |-> TRUE]
            \in [pc : Stages, polls : 0 .. MaxPolls - 1, child : BOOLEAN]
      BY LaunchAssumption DEF Stages
    <3>2. /\ launch' \in [Launchers -> [pc : Stages, polls : 0 .. MaxPolls - 1, child : BOOLEAN]]
          /\ launch'[l].pc = "poll" /\ launch'[l].child = TRUE
          /\ \A k \in Launchers : k # l => launch'[k] = launch[k]
      BY <2>2, <3>1 DEF LaunchInv, LaunchTypeOK
    <3>3. Fresh \in [st : {"absent", "dead"} \cup Alive, at : Ports \cup {None}, default : BOOLEAN]
      BY DEF Fresh, Alive
    <3>4. /\ server' \in [Runtimes -> [st : {"absent", "dead"} \cup Alive,
                                       at : Ports \cup {None}, default : BOOLEAN]]
          /\ \A q \in Runtimes : q # l => server'[q] = server[q]
      BY <2>2, <3>3 DEF LaunchInv, LaunchTypeOK
    <3>5. LaunchTypeOK'
      BY <1>7, <3>2, <3>4 DEF Spawn, LaunchInv, LaunchTypeOK
    <3>6. port' = port /\ \A n \in Ports : port[n] # Probe(l)
      BY <1>0, <1>7 DEF Spawn, At, LauncherInv
    <3>7. LauncherInv(l)'
      BY <3>2, <3>6 DEF LauncherInv, Before
    <3> QED BY <1>0, <3>2, <3>4, <3>5, <3>6, <3>7, OthersKeep
  <2> QED BY <1>7, <2>1, <2>2 DEF Spawn
<1>8. CASE Poll(l)
  <2>1. PICK pc \in {"poll", "check"}, n \in 0 .. MaxPolls - 1 :
          launch' = [launch EXCEPT ![l].pc = pc, ![l].polls = n]
    <3>1. launch[l].polls \in Nat /\ MaxPolls \in Nat \ {0}
      BY LaunchAssumption DEF LaunchInv, LaunchTypeOK
    <3>2. (launch[l].polls + 1) % MaxPolls \in 0 .. MaxPolls - 1 /\ 0 \in 0 .. MaxPolls - 1
      BY <3>1
    <3> QED BY <1>8, <3>2 DEF Poll
  <2>2. /\ launch' \in [Launchers -> [pc : Stages, polls : 0 .. MaxPolls - 1, child : BOOLEAN]]
        /\ launch'[l].pc \in {"poll", "check"} /\ launch'[l].child = launch[l].child
        /\ \A k \in Launchers : k # l => launch'[k] = launch[k]
    BY <2>1 DEF Stages, LaunchInv, LaunchTypeOK
  <2>3. UNCHANGED <<port, server, client, disk, cast>> /\ launch[l].pc = "poll"
    BY <1>8 DEF Poll, At
  <2>4. LaunchTypeOK'
    BY <2>2, <2>3 DEF LaunchInv, LaunchTypeOK
  <2>5. LauncherInv(l)'
    BY <1>0, <2>2, <2>3 DEF LauncherInv, Before, Ended
  <2> QED BY <2>2, <2>3, <2>4, <2>5, OthersKeep
<1>9. CASE Check(l)
  <2>1. CASE Healthy
    BY <1>0, <1>9, <2>1, GoStep DEF Check, At, Stages, Before, Ended
  <2>2. CASE ~Healthy
    BY <1>9, <2>2, BailStep DEF Check, At, Ended
  <2> QED BY <2>1, <2>2
<1>10. CASE StartClient(l)
  <2>1. CASE Bail(l) /\ UNCHANGED client
    BY <1>10, <2>1, BailStep DEF StartClient, At, Ended
  <2>2. CASE Go(l, "wait") /\ client' = [client EXCEPT ![l] = "running"] /\ UNCHANGED <<port, server>>
    <3>1. client' \in [Launchers -> {"none", "running", "ended"}]
      BY <1>0, <2>2
    <3> QED BY <1>10, <2>2, <3>1, GoStep DEF StartClient, At, Stages, Before, Ended
  <2> QED BY <1>10, <2>1, <2>2 DEF StartClient
<1>11. CASE ClientEnded(l)
  BY <1>0, <1>11, GoStep DEF ClientEnded, At, Stages, Before, Ended
<1>12. CASE StopRuntime(l)
  <2>1. /\ launch' \in [Launchers -> [pc : Stages, polls : 0 .. MaxPolls - 1, child : BOOLEAN]]
        /\ launch'[l].pc = "done"
        /\ \A k \in Launchers : k # l => launch'[k] = launch[k]
    BY <1>12 DEF StopRuntime, Stages, Ended, LaunchInv, LaunchTypeOK
  <2>2. Quits(l) /\ UNCHANGED <<client, disk, cast>> /\ launch[l].pc = "stop"
    BY <1>12 DEF StopRuntime, At
  <2>3. LaunchTypeOK'
    BY <1>0, <2>1, <2>2, QuitsIs DEF LaunchInv, LaunchTypeOK
  <2>4. LauncherInv(l)'
    BY <1>0, <2>1, <2>2, QuitsIs DEF LauncherInv, Alive, Before, Ended
  <2> QED BY <1>0, <2>1, <2>2, <2>3, <2>4, QuitsIs, OthersKeep
<1> QED
  BY <1>1, <1>2, <1>3, <1>4, <1>5, <1>6, <1>7, <1>8, <1>9, <1>10, <1>11, <1>12
  DEF RunManaged

\* Users, other programs, kills.
LEMMA AroundStep ==
  ASSUME LaunchInv,
         \/ \E l \in Launchers : ClientEnds(l) \/ LauncherDies(l)
         \/ \E r \in Runtimes : RuntimeDies(r)
         \/ UserStarts \/ UserStops \/ EditConfig \/ StrangerComes \/ StrangerGoes
  PROVE  LaunchInv'
<1> USE DEF others
<1>0. /\ LaunchTypeOK /\ \A l \in Launchers : LauncherInv(l)
      /\ User \in Runtimes /\ Launchers \subseteq Runtimes /\ User \notin Launchers
  BY LaunchAssumption DEF LaunchInv, LaunchersInv, Runtimes
<1>1. ASSUME NEW l \in Launchers, ClientEnds(l) PROVE LaunchInv'
  <2>1. LaunchTypeOK'
    BY <1>0, <1>1 DEF ClientEnds, LaunchTypeOK
  <2> QED BY <1>0, <1>1, <2>1 DEF ClientEnds, LaunchInv, LaunchersInv, LauncherInv
<1>2. ASSUME NEW l \in Launchers, LauncherDies(l) PROVE LaunchInv'
  <2>1. /\ launch' \in [Launchers -> [pc : Stages, polls : 0 .. MaxPolls - 1, child : BOOLEAN]]
        /\ launch'[l].pc = "dead"
        /\ \A k \in Launchers : k # l => launch'[k] = launch[k]
    BY <1>0, <1>2 DEF LauncherDies, Stages, Ended, LaunchTypeOK
  <2>2. /\ port' \in [Ports -> Occupants \cup {None}]
        /\ \A n \in Ports : port'[n] = IF port[n] = Probe(l) THEN None ELSE port[n]
    BY <1>0, <1>2, WithoutIs DEF LauncherDies
  <2>3. /\ \A n \in Ports : port'[n] # Probe(l)
        /\ \A k \in Launchers, n \in Ports : port'[n] = Probe(k) => port[n] = Probe(k)
    BY <2>2, OccupantsDiffer
  <2>4. LaunchTypeOK'
    BY <1>0, <1>2, <2>1, <2>2 DEF LauncherDies, LaunchTypeOK
  <2>5. LauncherInv(l)'
    BY <2>1, <2>3 DEF LauncherInv, Before, Ended
  <2>6. server' = server
    BY <1>2 DEF LauncherDies
  <2> QED BY <1>2, <2>1, <2>3, <2>4, <2>5, <2>6, OthersKeep
<1>3. ASSUME NEW r \in Runtimes, RuntimeDies(r) PROVE LaunchInv'
  BY <1>3, QuitsStep DEF RuntimeDies, Alive
<1>4. CASE UserStarts
  <2>1. Fresh \in [st : {"absent", "dead"} \cup Alive, at : Ports \cup {None}, default : BOOLEAN]
    BY DEF Fresh, Alive
  <2>2. /\ server' \in [Runtimes -> [st : {"absent", "dead"} \cup Alive,
                                     at : Ports \cup {None}, default : BOOLEAN]]
        /\ \A q \in Launchers : server'[q] = server[q]
    BY <1>0, <1>4, <2>1 DEF UserStarts, LaunchTypeOK
  <2>3. LaunchTypeOK'
    BY <1>0, <1>4, <2>2 DEF UserStarts, LaunchTypeOK
  <2> QED BY <1>0, <1>4, <2>2, <2>3 DEF UserStarts, LaunchInv, LaunchersInv, LauncherInv
<1>5. CASE UserStops
  BY <1>0, <1>5, QuitsStep DEF UserStops
<1>6. CASE EditConfig
  <2>1. LaunchTypeOK'
    BY <1>0, <1>6 DEF EditConfig, LaunchTypeOK
  <2> QED BY <1>0, <1>6, <2>1 DEF EditConfig, LaunchInv, LaunchersInv, LauncherInv
<1>7. ASSUME NEW o \in Occupants \cup {None},
             \A l \in Launchers : o # Probe(l),
             port' = [port EXCEPT !["8743"] = o],
             UNCHANGED <<server, launch, client, disk, cast>>
      PROVE LaunchInv'
  <2>1. port' \in [Ports -> Occupants \cup {None}] /\ \A n \in Ports : port'[n] \in {port[n], o}
    BY <1>0, <1>7 DEF LaunchTypeOK
  <2>2. LaunchTypeOK'
    BY <1>0, <1>7, <2>1 DEF LaunchTypeOK
  <2>3. \A l \in Launchers, n \in Ports : port'[n] = Probe(l) => port[n] = Probe(l)
    BY <1>7, <2>1
  <2> QED BY <1>0, <1>7, <2>2, <2>3 DEF LaunchInv, LaunchersInv, LauncherInv
<1>8. CASE StrangerComes
  <2>1. PICK s \in cast.strangers : port' = [port EXCEPT !["8743"] = Stranger(s)]
    BY <1>8 DEF StrangerComes
  <2>2. s \in Strangers
    BY <1>0, <2>1, LaunchAssumption DEF LaunchTypeOK, LaunchScene
  <2> QED BY <1>7, <1>8, <2>1, <2>2, OccupantsDiffer DEF StrangerComes
<1>9. CASE StrangerGoes
  BY <1>7, <1>9, OccupantsDiffer DEF StrangerGoes
<1> QED BY <1>1, <1>2, <1>3, <1>4, <1>5, <1>6, <1>8, <1>9

\* Codex's commands and its user touch no launch.
LEMMA CodexLeavesLaunches == CodexNext => UNCHANGED <<launchVars, cast>>
BY DEF CodexNext, ConnectCodex, DisconnectCodex, CodexUser, CodexBegins, AskReady, ReadConfig,
       MakeBackup, TearBackup, NoteUrl, WriteConfig, LeaveCodex, RestoreConfig, StructuredRemove,
       ForgetBackup, RemoveNote, CodexFails, CodexKilled, ChangeRest, BreakToml, ChangeUrls,
       RemoveFile, DropBackup, Changed

\* And no launch touches Codex.
LEMMA LaunchesLeaveCodex == LaunchNext => UNCHANGED others
BY DEF LaunchNext, RunManaged, RunServer, ClientEnds, LauncherDies, RuntimeDies, UserStarts,
       UserStops, EditConfig, StrangerComes, StrangerGoes, Start, AskHealth, AskOccupied,
       AskAgain, TryBind, DropProbe, Spawn, Poll, Check, StartClient, ClientEnded,
       StopRuntime, LoadConfig, Locate, Serve

LEMMA LaunchKeeps == LaunchInv /\ [ClientsNext]_clientsVars => LaunchInv'
<1> SUFFICES ASSUME LaunchInv, [ClientsNext]_clientsVars PROVE LaunchInv'
  OBVIOUS
<1>1. CASE LaunchNext
  BY <1>1, RunManagedStep, ServerStep, AroundStep DEF LaunchNext
<1>2. CASE UNCHANGED <<launchVars, cast>>
  BY <1>2 DEF launchVars, LaunchInv, LaunchTypeOK, LaunchersInv, LauncherInv
<1>3. CASE UNCHANGED clientsVars
  BY <1>2, <1>3 DEF clientsVars, others
<1> QED BY <1>1, <1>2, <1>3, CodexLeavesLaunches DEF ClientsNext

\* Whichever way a launcher ends short of being killed, its runtime and its
\* probe are gone with it, for any number of launchers, strangers and faults.
THEOREM LaunchesLeaveNothing == ClientsSpec => []NoOrphan
<1>1. ClientsInit => LaunchInv
  BY InitLaunch DEF ClientsInit
<1>2. LaunchInv => NoOrphan
  BY DEF LaunchInv, LaunchersInv, LauncherInv, NoOrphan
<1> QED BY <1>1, <1>2, LaunchKeeps, PTL DEF ClientsSpec

(***************************************************************************)
(* Only the death of a runtime takes the port from a client's own.          *)
(***************************************************************************)
\* Who takes the port from a runtime is that runtime, ending.
LEMMA PortIsLeft ==
  ASSUME LaunchInv, LaunchNext, NEW l \in Launchers,
         port["8743"] = Runtime(l), port'["8743"] # Runtime(l)
  PROVE  \/ RuntimeDies(l)
         \/ Check(l) \/ StartClient(l) \/ StopRuntime(l)
<1>0. /\ LaunchTypeOK /\ Launchers \subseteq Runtimes /\ User \in Runtimes /\ l # User
      /\ "8743" \in Ports /\ port["8743"] # None /\ port' # port
  BY LaunchAssumption, OccupantsDiffer DEF LaunchInv, Runtimes, Ports
<1>1. ASSUME NEW r \in Runtimes, Quits(r) PROVE r = l
  BY <1>0, <1>1, QuitsIs, OccupantsDiffer
<1>2. ASSUME NEW k \in Launchers, port' = Without(Probe(k)) PROVE FALSE
  BY <1>0, <1>2, WithoutIs, OccupantsDiffer
<1>3. ASSUME NEW k \in Launchers, RunManaged(k)
      PROVE  k = l /\ (Check(l) \/ StartClient(l) \/ StopRuntime(l))
  <2>1. Quits(k) \/ port' = Without(Probe(k)) \/ port["8743"] = None
    BY <1>0, <1>3 DEF RunManaged, Start, AskHealth, AskOccupied, AskAgain, TryBind, DropProbe,
         Spawn, Poll, Check, Bail, StartClient, ClientEnded, StopRuntime
  <2>2. k = l
    BY <1>0, <1>1, <1>2, <2>1
  <2>3. Check(k) \/ StartClient(k) \/ StopRuntime(k) \/ port' = Without(Probe(k)) \/ port["8743"] = None
    BY <1>0, <1>3 DEF RunManaged, Start, AskHealth, AskOccupied, AskAgain, TryBind, DropProbe,
         Spawn, Poll, ClientEnded
  <2> QED BY <1>0, <1>2, <2>2, <2>3
<1>4. ASSUME NEW r \in Runtimes, RunServer(r) PROVE FALSE
  <2>1. Serve(r)
    BY <1>0, <1>4 DEF RunServer, LoadConfig, Locate
  <2>2. port["8743"] # None /\ port' = [port EXCEPT ![server[r].at] = Runtime(r)]
        /\ port[server[r].at] = None
    BY <1>0, <2>1 DEF Serve
  <2>3. server[r].at # "8743"
    BY <2>2
  <2> QED BY <1>0, <2>2, <2>3 DEF LaunchTypeOK
<1>5. ASSUME NEW k \in Launchers, ClientEnds(k) \/ LauncherDies(k) PROVE FALSE
  BY <1>0, <1>2, <1>5 DEF ClientEnds, LauncherDies
<1>6. ASSUME NEW r \in Runtimes, RuntimeDies(r) PROVE RuntimeDies(l)
  BY <1>1, <1>6 DEF RuntimeDies
<1>7. ~UserStarts /\ ~UserStops /\ ~EditConfig
  BY <1>0, <1>1 DEF UserStarts, UserStops, EditConfig
<1>8. ~StrangerComes
  BY <1>0 DEF StrangerComes
<1>9. ~StrangerGoes
  BY <1>0, OccupantsDiffer, LaunchAssumption DEF StrangerGoes, LaunchTypeOK, LaunchScene
<1> QED BY <1>3, <1>4, <1>5, <1>6, <1>7, <1>8, <1>9 DEF LaunchNext

\* While a client runs, its own runtime keeps the port unless a kill ends it.
THEOREM ClientsKeepTheirRuntime == ClientsSpec => OwnRuntimeStays
<1>1. ClientsInit => LaunchInv
  BY InitLaunch DEF ClientsInit
<1>2. ASSUME LaunchInv, [ClientsNext]_clientsVars, NEW l \in Launchers,
             At(l, "wait"), client[l] = "running",
             port["8743"] = Runtime(l), port'["8743"] # Runtime(l)
      PROVE  /\ "crash" \in cast.faults /\ server[l].st \in Alive /\ server'[l].st = "dead"
             /\ launch' = launch
  <2>1. LaunchNext
    BY <1>2, CodexLeavesLaunches DEF ClientsNext, clientsVars, launchVars
  <2>2. RuntimeDies(l)
    BY <1>2, <2>1, PortIsLeft DEF At, Check, StartClient, StopRuntime
  <2>3. l \in Runtimes
    BY DEF Runtimes
  <2> QED BY <1>2, <2>2, <2>3, QuitsIs DEF RuntimeDies
<1>3. LaunchInv /\ [ClientsNext]_clientsVars =>
        [\A l \in Launchers :
           /\ At(l, "wait") /\ client[l] = "running" /\ port["8743"] = Runtime(l)
           /\ port'["8743"] # Runtime(l)
           => "crash" \in cast.faults /\ server[l].st \in Alive /\ server'[l].st = "dead"
              /\ launch' = launch]_clientsVars
  BY <1>2
<1> QED BY <1>1, <1>3, LaunchKeeps, PTL DEF ClientsSpec, OwnRuntimeStays

(***************************************************************************)
(* The commands for Codex.                                                  *)
(***************************************************************************)
Outcomes == {None, "already", "connected", "notconnected", "disconnected", "failed", "dead"}

\* The set in CodexTypeOK.
Codices ==
  [conf : Toml \cup {None}, backup : Toml \cup {None}, note : Addresses \cup {"blank", None},
   pc : CodexStages, doc : Toml, url : Addresses \cup {"blank", None}, outcome : Outcomes,
   top : Addresses \cup {None}, table : Addresses \cup {None},
   commands : 0 .. MaxCommands, changes : 0 .. MaxChanges]

\* A command under way holds the file as it is, and what it knows of a backup.
DocInv ==
  /\ codex.pc \in {"backup", "note", "write"} =>
       codex.doc = IF codex.conf = None THEN EmptyToml ELSE codex.conf
  /\ codex.pc \in {"restore", "structured"} => codex.conf # None /\ codex.doc = codex.conf
  /\ codex.pc = "restore" => codex.backup # None
  /\ codex.pc \in {"backup", "note", "write"} =>
       codex.doc.top # "toche" /\ codex.url = UpstreamUrl(codex.doc)
  /\ codex.pc \in {"note", "write"} /\ codex.conf # None => codex.backup # None
  /\ codex.pc = "structured" => codex.backup = None

CodexInv == codex \in Codices /\ DocInv

LEMMA TypesAgree == CodexTypeOK <=> codex \in Codices
BY DEF CodexTypeOK, Codices, Outcomes

LEMMA EmptyIsToml == EmptyToml \in Toml
BY DEF EmptyToml, Toml

LEMMA TomlFields ==
  ASSUME NEW doc \in Toml
  PROVE  /\ doc # None
         /\ doc.top \in Addresses \cup {"toche", "blank", None}
         /\ doc.table \in Addresses \cup {None}
         /\ doc.mention \in BOOLEAN /\ doc.whole \in BOOLEAN /\ doc.rest \in Rest \cup {None}
         /\ \A top \in Addresses \cup {"toche", "blank", None} :
              /\ [doc EXCEPT !.top = top] \in Toml
              /\ [doc EXCEPT !.top = top].top = top
              /\ [doc EXCEPT !.top = top].table = doc.table
              /\ [doc EXCEPT !.top = top].whole = doc.whole
              /\ [[doc EXCEPT !.top = top] EXCEPT !.top = None] = [doc EXCEPT !.top = None]
<1>1. doc # None
  BY TomlAssumption
<1>2. /\ doc.top \in Addresses \cup {"toche", "blank", None}
      /\ doc.table \in Addresses \cup {None}
      /\ doc.mention \in BOOLEAN /\ doc.whole \in BOOLEAN /\ doc.rest \in Rest \cup {None}
  BY DEF Toml
<1>3. ASSUME NEW top \in Addresses \cup {"toche", "blank", None}
      PROVE  /\ [doc EXCEPT !.top = top] \in Toml
             /\ [doc EXCEPT !.top = top].top = top
             /\ [doc EXCEPT !.top = top].table = doc.table
             /\ [doc EXCEPT !.top = top].whole = doc.whole
             /\ [[doc EXCEPT !.top = top] EXCEPT !.top = None] = [doc EXCEPT !.top = None]
  BY DEF Toml
<1> QED BY <1>1, <1>2, <1>3

\* The file with another URL.
LEMMA NewTop ==
  ASSUME NEW doc \in Toml, NEW top \in Addresses \cup {"toche", "blank", None},
         NEW new, new = [doc EXCEPT !.top = top]
  PROVE  /\ new \in Toml /\ new # None
         /\ new.top = top /\ new.table = doc.table /\ new.whole = doc.whole
BY TomlFields, TomlAssumption

\* What is left of a command that ends.
LEMMA EndsIs ==
  ASSUME NEW c \in Codices, NEW outcome \in Outcomes, CodexEnds(c, outcome)
  PROVE  /\ codex' \in Codices /\ codex'.pc = "idle"
         /\ codex'.conf = c.conf /\ codex'.backup = c.backup /\ codex'.note = c.note
         /\ codex'.top = c.top /\ codex'.table = c.table /\ codex'.changes = c.changes
<1>1. "idle" \in CodexStages /\ None \in Addresses \cup {"blank", None}
  BY DEF CodexStages
<1> QED BY <1>1, EmptyIsToml DEF CodexEnds, Codices

-----------------------------------------------------------------------------
(* What each step does to what the properties speak of. *)

\* The files and the user's choice stay.
FilesStay ==
  /\ codex'.conf = codex.conf /\ codex'.backup = codex.backup /\ codex'.note = codex.note
  /\ codex'.top = codex.top /\ codex'.table = codex.table /\ codex'.changes = codex.changes

LEMMA BeginsIs ==
  ASSUME codex \in Codices, CodexBegins
  PROVE  codex' \in Codices /\ FilesStay /\ CodexAt("idle") /\ codex'.pc \in {"ready", "leave"}
<1>1. codex.commands + 1 \in 0 .. MaxCommands
  BY CodexAssumption DEF CodexBegins, Codices
<1>2. PICK pc \in {"ready", "leave"} :
        codex' = [codex EXCEPT !.pc = pc, !.commands = codex.commands + 1, !.outcome = None]
  BY DEF CodexBegins
<1> QED BY <1>1, <1>2 DEF CodexBegins, Codices, FilesStay, CodexStages, Outcomes, CodexAt

LEMMA AskReadyIs ==
  ASSUME codex \in Codices, AskReady
  PROVE  codex' \in Codices /\ FilesStay /\ CodexAt("ready") /\ codex'.pc \in {"read", "idle"}
<1>1. CASE codex' = [codex EXCEPT !.pc = "read"]
  BY <1>1 DEF AskReady, Codices, FilesStay, CodexStages, CodexAt
<1>2. CASE CodexEnds(codex, "failed")
  BY <1>2, EndsIs DEF AskReady, Outcomes, FilesStay
<1> QED BY <1>1, <1>2 DEF AskReady

LEMMA ReadConfigIs ==
  ASSUME codex \in Codices, ReadConfig
  PROVE  /\ codex' \in Codices /\ FilesStay /\ CodexAt("read")
         /\ \/ codex'.pc = "idle"
            \/ /\ codex'.pc = "backup"
               /\ codex'.doc = IF codex.conf = None THEN EmptyToml ELSE codex.conf
               /\ codex'.doc.top # "toche" /\ codex'.url = UpstreamUrl(codex'.doc)
<1> DEFINE doc == IF codex.conf = None THEN EmptyToml ELSE codex.conf
<1>1. doc \in Toml
  BY EmptyIsToml DEF Codices
<1>2. CASE CodexEnds(codex, "already")
  BY <1>2, EndsIs DEF ReadConfig, Outcomes, FilesStay
<1>3. CASE /\ ~PointsToToche(doc)
           /\ codex' = [codex EXCEPT !.pc = "backup", !.doc = doc, !.url = UpstreamUrl(doc)]
  <2>1. doc.top # "toche" /\ UpstreamUrl(doc) \in Addresses \cup {"blank", None}
    BY <1>1, <1>3, TomlFields DEF PointsToToche, UpstreamUrl
  <2> HIDE DEF doc
  <2>2. /\ codex' \in Codices /\ FilesStay
        /\ codex'.pc = "backup" /\ codex'.doc = doc /\ codex'.url = UpstreamUrl(doc)
    BY <1>1, <1>3, <2>1 DEF Codices, FilesStay, CodexStages
  <2> QED BY <2>1, <2>2 DEF ReadConfig, doc
<1> QED BY <1>2, <1>3 DEF ReadConfig

LEMMA MakeBackupIs ==
  ASSUME codex \in Codices, MakeBackup
  PROVE  /\ codex' \in Codices /\ CodexAt("backup") /\ codex'.pc = "note"
         /\ codex'.backup = (IF codex.backup = None THEN codex.conf ELSE codex.backup)
         /\ codex'.conf = codex.conf /\ codex'.note = codex.note /\ codex'.doc = codex.doc
         /\ codex'.url = codex.url /\ codex'.top = codex.top /\ codex'.table = codex.table
         /\ codex'.changes = codex.changes
BY DEF MakeBackup, Codices, CodexStages, CodexAt

LEMMA TearBackupIs ==
  ASSUME codex \in Codices, TearBackup
  PROVE  /\ codex' \in Codices /\ Does("tear") /\ codex'.pc = "idle"
         /\ codex'.conf = codex.conf /\ codex'.changes = codex.changes
<1>1. PICK whole \in BOOLEAN :
        CodexEnds([codex EXCEPT !.backup = [EmptyToml EXCEPT !.whole = whole]], "failed")
  BY DEF TearBackup
<1>2. [EmptyToml EXCEPT !.whole = whole] \in Toml
  BY EmptyIsToml DEF Toml
<1> DEFINE c == [codex EXCEPT !.backup = [EmptyToml EXCEPT !.whole = whole]]
<1>3. c \in Codices /\ c.conf = codex.conf /\ c.changes = codex.changes
  BY <1>2 DEF Codices
<1> HIDE DEF c
<1>4. CodexEnds(c, "failed")
  BY <1>1 DEF c
<1> QED BY <1>3, <1>4, EndsIs DEF TearBackup, Outcomes

LEMMA NoteUrlIs ==
  ASSUME codex \in Codices, NoteUrl
  PROVE  /\ codex' \in Codices /\ CodexAt("note") /\ codex'.pc = "write"
         /\ codex.url = None => codex'.note = codex.note
         /\ codex.url # None /\ ~Does("io") => codex'.note = codex.url
         /\ codex'.conf = codex.conf /\ codex'.backup = codex.backup /\ codex'.doc = codex.doc
         /\ codex'.url = codex.url /\ codex'.top = codex.top /\ codex'.table = codex.table
         /\ codex'.changes = codex.changes
<1>1. PICK note \in IF codex.url = None THEN {codex.note}
                    ELSE {codex.url} \cup (IF Does("io") THEN {codex.note, "blank"} ELSE {}) :
        codex' = [codex EXCEPT !.pc = "write", !.note = note]
  BY DEF NoteUrl
<1>2. note \in Addresses \cup {"blank", None}
  BY <1>1 DEF Codices
<1> QED BY <1>1, <1>2 DEF NoteUrl, Codices, CodexStages, CodexAt

LEMMA WriteConfigIs ==
  ASSUME codex \in Codices, WriteConfig
  PROVE  /\ codex' \in Codices /\ CodexAt("write") /\ codex'.pc = "idle"
         /\ \/ FilesStay /\ ~codex.doc.whole
            \/ /\ codex'.conf = [codex.doc EXCEPT !.top = "toche"] /\ codex.doc.whole
               /\ codex'.backup = codex.backup /\ codex'.note = codex.note
               /\ codex'.top = codex.top /\ codex'.table = codex.table
               /\ codex'.changes = codex.changes
<1>1. CASE ~codex.doc.whole /\ CodexEnds(codex, "failed")
  BY <1>1, EndsIs DEF WriteConfig, Outcomes, FilesStay
<1>2. CASE codex.doc.whole
  <2> DEFINE c == [codex EXCEPT !.conf = [codex.doc EXCEPT !.top = "toche"]]
  <2>1. [codex.doc EXCEPT !.top = "toche"] \in Toml
    BY TomlFields DEF Codices
  <2>2. /\ c \in Codices /\ c.conf = [codex.doc EXCEPT !.top = "toche"]
        /\ c.backup = codex.backup /\ c.note = codex.note /\ c.top = codex.top
        /\ c.table = codex.table /\ c.changes = codex.changes
    BY <2>1 DEF Codices
  <2>3. \E outcome \in {"already", "connected"} : CodexEnds(c, outcome)
    BY <1>2 DEF WriteConfig
  <2> HIDE DEF c
  <2> QED BY <1>2, <2>2, <2>3, EndsIs DEF WriteConfig, Outcomes
<1> QED BY <1>1, <1>2 DEF WriteConfig

LEMMA LeaveCodexIs ==
  ASSUME codex \in Codices, LeaveCodex
  PROVE  /\ codex' \in Codices /\ FilesStay /\ CodexAt("leave")
         /\ \/ codex'.pc = "idle"
            \/ /\ codex.conf # None /\ codex'.doc = codex.conf
               /\ codex'.pc = IF codex.backup = None THEN "structured" ELSE "restore"
<1>1. CASE CodexEnds(codex, "notconnected")
  BY <1>1, EndsIs DEF LeaveCodex, Outcomes, FilesStay
<1>2. CASE /\ codex.conf # None
           /\ codex' = [codex EXCEPT !.doc = codex.conf,
                          !.pc = IF codex.backup = None THEN "structured" ELSE "restore"]
  BY <1>2 DEF LeaveCodex, Codices, FilesStay, CodexStages
<1> QED BY <1>1, <1>2 DEF LeaveCodex

LEMMA RestoreConfigIs ==
  ASSUME codex \in Codices, DocInv, RestoreConfig
  PROVE  /\ codex' \in Codices /\ CodexAt("restore")
         /\ \/ FilesStay /\ codex'.pc = "idle"
            \/ /\ codex.doc.whole /\ codex.backup.whole /\ codex'.pc = "forget"
               /\ codex'.conf = [codex.doc EXCEPT !.top = codex.backup.top]
               /\ codex'.backup = codex.backup /\ codex'.note = codex.note
               /\ codex'.top = codex.top /\ codex'.table = codex.table
               /\ codex'.changes = codex.changes
<1>1. CASE CodexEnds(codex, "failed")
  BY <1>1, EndsIs DEF RestoreConfig, Outcomes, FilesStay
<1>2. CASE /\ codex.doc.whole /\ codex.backup.whole
           /\ codex' = [codex EXCEPT !.pc = "forget",
                                     !.conf = [codex.doc EXCEPT !.top = codex.backup.top]]
  <2>1. codex.backup \in Toml
    BY DEF DocInv, RestoreConfig, CodexAt, Codices
  <2>2. [codex.doc EXCEPT !.top = codex.backup.top] \in Toml
    BY <2>1, TomlFields DEF Codices
  <2> QED BY <1>2, <2>2 DEF RestoreConfig, Codices, CodexStages
<1> QED BY <1>1, <1>2 DEF RestoreConfig

LEMMA StructuredRemoveIs ==
  ASSUME codex \in Codices, StructuredRemove
  PROVE  /\ codex' \in Codices /\ CodexAt("structured")
         /\ codex'.backup = codex.backup /\ codex'.note = codex.note
         /\ codex'.top = codex.top /\ codex'.table = codex.table
         /\ codex'.changes = codex.changes
         /\ \/ codex'.conf = codex.conf /\ codex'.pc = "idle"
            \/ /\ codex'.pc = "unnote"
               /\ \E top \in Addresses \cup {"toche", "blank", None} :
                    /\ codex'.conf = [codex.doc EXCEPT !.top = top]
                    /\ codex.doc.top # "toche" => top = codex.doc.top
                    /\ codex.doc.top = "toche" => top = codex.note \/ (Does("io") /\ top = None)
<1>1. CASE CodexEnds(codex, "failed")
  BY <1>1, EndsIs DEF StructuredRemove, Outcomes
<1>2. ASSUME NEW saved \in {codex.note} \cup (IF Does("io") THEN {None} ELSE {}),
             codex' = [codex EXCEPT !.pc = "unnote",
                         !.conf = [codex.doc EXCEPT !.top =
                                     IF codex.doc.top = "toche" THEN saved ELSE codex.doc.top]]
      PROVE  /\ codex' \in Codices /\ codex'.pc = "unnote"
             /\ codex'.backup = codex.backup /\ codex'.note = codex.note
             /\ codex'.top = codex.top /\ codex'.table = codex.table
             /\ codex'.changes = codex.changes
             /\ \E top \in Addresses \cup {"toche", "blank", None} :
                  /\ codex'.conf = [codex.doc EXCEPT !.top = top]
                  /\ codex.doc.top # "toche" => top = codex.doc.top
                  /\ codex.doc.top = "toche" => top = codex.note \/ (Does("io") /\ top = None)
  <2> DEFINE top == IF codex.doc.top = "toche" THEN saved ELSE codex.doc.top
  <2>1. codex.doc \in Toml /\ codex.note \in Addresses \cup {"blank", None}
    BY DEF Codices
  <2>2. top \in Addresses \cup {"toche", "blank", None}
    BY <2>1, TomlFields
  <2>3. /\ codex.doc.top # "toche" => top = codex.doc.top
        /\ codex.doc.top = "toche" => top = codex.note \/ (Does("io") /\ top = None)
    OBVIOUS
  <2>4. codex' = [codex EXCEPT !.pc = "unnote", !.conf = [codex.doc EXCEPT !.top = top]]
    BY <1>2
  <2> HIDE DEF top
  <2>5. [codex.doc EXCEPT !.top = top] \in Toml
    BY <2>1, <2>2, TomlFields
  <2>6. codex' \in Codices /\ codex'.pc = "unnote"
        /\ codex'.backup = codex.backup /\ codex'.note = codex.note
        /\ codex'.top = codex.top /\ codex'.table = codex.table
        /\ codex'.changes = codex.changes /\ codex'.conf = [codex.doc EXCEPT !.top = top]
    BY <2>4, <2>5 DEF Codices, CodexStages
  <2> QED BY <2>2, <2>3, <2>6
<1> QED BY <1>1, <1>2 DEF StructuredRemove

LEMMA ForgetBackupIs ==
  ASSUME codex \in Codices, ForgetBackup
  PROVE  /\ codex' \in Codices /\ CodexAt("forget") /\ codex'.pc = "unnote"
         /\ codex'.backup = None \/ (Does("io") /\ codex'.backup = codex.backup)
         /\ codex'.conf = codex.conf /\ codex'.note = codex.note
         /\ codex'.top = codex.top /\ codex'.table = codex.table
         /\ codex'.changes = codex.changes
<1>1. PICK backup \in {None} \cup (IF Does("io") THEN {codex.backup} ELSE {}) :
        codex' = [codex EXCEPT !.pc = "unnote", !.backup = backup]
  BY DEF ForgetBackup
<1>2. backup = None \/ (Does("io") /\ backup = codex.backup)
  BY <1>1
<1>3. backup \in Toml \cup {None}
  BY <1>2 DEF Codices
<1> QED BY <1>1, <1>2, <1>3 DEF ForgetBackup, Codices, CodexStages, CodexAt

LEMMA RemoveNoteIs ==
  ASSUME codex \in Codices, RemoveNote
  PROVE  /\ codex' \in Codices /\ CodexAt("unnote") /\ codex'.pc = "idle"
         /\ codex'.note = None \/ (Does("io") /\ codex'.note = codex.note)
         /\ codex'.conf = codex.conf /\ codex'.backup = codex.backup
         /\ codex'.top = codex.top /\ codex'.table = codex.table
         /\ codex'.changes = codex.changes
<1>1. PICK note \in {None} \cup (IF Does("io") THEN {codex.note} ELSE {}) :
        CodexEnds([codex EXCEPT !.note = note], "disconnected")
  BY DEF RemoveNote
<1> DEFINE c == [codex EXCEPT !.note = note]
<1>2. /\ c \in Codices /\ c.conf = codex.conf /\ c.backup = codex.backup /\ c.note = note
      /\ c.top = codex.top /\ c.table = codex.table /\ c.changes = codex.changes
  BY <1>1 DEF Codices
<1>3. CodexEnds(c, "disconnected") /\ CodexAt("unnote")
  BY <1>1 DEF RemoveNote
<1> HIDE DEF c
<1> QED BY <1>1, <1>2, <1>3, EndsIs DEF Outcomes

LEMMA StopsAre ==
  ASSUME codex \in Codices, CodexFails \/ CodexKilled
  PROVE  codex' \in Codices /\ FilesStay /\ codex'.pc = "idle" /\ (Does("io") \/ Does("crash"))
BY EndsIs DEF CodexFails, CodexKilled, Outcomes, FilesStay

\* A change of the user's, between two commands.
LEMMA ChangedIs ==
  ASSUME codex \in Codices, NEW c \in Codices, c.changes = codex.changes, Changed(c)
  PROVE  /\ codex' \in Codices /\ CodexAt("idle")
         /\ codex'.changes # codex.changes
         /\ codex'.pc = c.pc /\ codex'.conf = c.conf /\ codex'.backup = c.backup
         /\ codex'.note = c.note /\ codex'.top = c.top /\ codex'.table = c.table
<1>1. codex.changes \in Nat /\ codex.changes + 1 \in 0 .. MaxChanges
  BY CodexAssumption DEF Changed, Codices
<1>2. codex' = [c EXCEPT !.changes = codex.changes + 1] /\ CodexAt("idle")
  BY DEF Changed
<1> QED BY <1>1, <1>2 DEF Codices

LEMMA UserIs ==
  ASSUME codex \in Codices, CodexUser
  PROVE  /\ codex' \in Codices /\ CodexAt("idle") /\ codex'.pc = "idle"
         /\ codex'.changes # codex.changes /\ codex'.note = codex.note
         /\ \/ /\ Does("other") \/ Does("break")
               /\ codex.conf # None /\ codex'.conf # None
               /\ codex'.conf.top = codex.conf.top /\ codex'.conf.table = codex.conf.table
               /\ ~Does("break") => codex'.conf.whole = codex.conf.whole
               /\ codex'.backup = codex.backup
               /\ codex'.top = codex.top /\ codex'.table = codex.table
            \/ /\ Does("urls") /\ (codex.conf # None => codex.conf.top # "toche")
               /\ codex'.conf # None /\ codex'.backup = codex.backup
               /\ codex'.conf.top = codex'.top /\ codex'.conf.table = codex'.table
               /\ codex'.conf.whole = IF codex.conf = None THEN TRUE ELSE codex.conf.whole
            \/ /\ Does("urls") /\ codex.conf # None /\ codex.conf.top # "toche"
               /\ codex'.conf = None /\ codex'.backup = codex.backup
               /\ codex'.top = None /\ codex'.table = None
            \/ /\ Does("backup") /\ codex'.backup = None /\ codex'.conf = codex.conf
               /\ codex'.top = codex.top /\ codex'.table = codex.table
<1>0. codex.conf # None => codex.conf \in Toml
  BY DEF Codices
<1>1. CASE ChangeRest
  <2>1. PICK rest \in Rest, mention \in BOOLEAN :
          Changed([codex EXCEPT !.conf.rest = rest, !.conf.mention = mention])
    BY <1>1 DEF ChangeRest
  <2> DEFINE doc == [[codex.conf EXCEPT !.rest = rest] EXCEPT !.mention = mention]
             c == [codex EXCEPT !.conf = doc]
  <2>2. codex.conf \in Toml /\ Does("other") /\ codex.conf # None
    BY <1>0, <1>1 DEF ChangeRest
  <2>3. /\ doc \in Toml /\ doc.top = codex.conf.top /\ doc.table = codex.conf.table
        /\ doc.whole = codex.conf.whole
    BY <2>2 DEF Toml
  <2>4. [codex EXCEPT !.conf.rest = rest, !.conf.mention = mention] = c
    BY <2>2 DEF Codices, Toml
  <2>5. Changed(c)
    BY <2>1, <2>4
  <2> HIDE DEF doc
  <2>6. /\ c \in Codices /\ c.changes = codex.changes /\ c.conf = doc /\ c.pc = codex.pc
        /\ c.backup = codex.backup /\ c.note = codex.note
        /\ c.top = codex.top /\ c.table = codex.table
    BY <2>3 DEF Codices
  <2> HIDE DEF c
  <2>7. doc # None
    BY <2>3, TomlAssumption
  <2> QED BY <2>2, <2>3, <2>5, <2>6, <2>7, ChangedIs DEF CodexAt
<1>2. CASE BreakToml
  <2> DEFINE doc == [codex.conf EXCEPT !.whole = ~codex.conf.whole]
             c == [codex EXCEPT !.conf = doc]
  <2>1. codex.conf \in Toml /\ Does("break") /\ codex.conf # None
    BY <1>0, <1>2 DEF BreakToml
  <2>2. /\ doc \in Toml /\ doc.top = codex.conf.top /\ doc.table = codex.conf.table
    BY <2>1 DEF Toml
  <2>3. Changed(c)
    BY <1>2 DEF BreakToml
  <2> HIDE DEF doc
  <2>4. /\ c \in Codices /\ c.changes = codex.changes /\ c.conf = doc /\ c.pc = codex.pc
        /\ c.backup = codex.backup /\ c.note = codex.note
        /\ c.top = codex.top /\ c.table = codex.table
    BY <2>2 DEF Codices
  <2> HIDE DEF c
  <2>5. doc # None
    BY <2>2, TomlAssumption
  <2> QED BY <2>1, <2>2, <2>3, <2>4, <2>5, ChangedIs DEF CodexAt
<1>3. CASE ChangeUrls
  <2> DEFINE was == IF codex.conf = None THEN EmptyToml ELSE codex.conf
  <2>1. PICK top \in Addresses \cup {None}, table \in Addresses \cup {None} :
          Changed([codex EXCEPT !.conf = [was EXCEPT !.top = top, !.table = table],
                                !.top = top, !.table = table])
    BY <1>3 DEF ChangeUrls
  <2> DEFINE doc == [was EXCEPT !.top = top, !.table = table]
             c == [codex EXCEPT !.conf = doc, !.top = top, !.table = table]
  <2>2. was \in Toml /\ was.whole = IF codex.conf = None THEN TRUE ELSE codex.conf.whole
    BY <1>0, EmptyIsToml DEF EmptyToml
  <2>3. Changed(c)
    BY <2>1
  <2> HIDE DEF was
  <2>4. doc \in Toml /\ doc.top = top /\ doc.table = table /\ doc.whole = was.whole
    BY <2>2 DEF Toml
  <2> HIDE DEF doc
  <2>5. /\ c \in Codices /\ c.changes = codex.changes /\ c.conf = doc /\ c.pc = codex.pc
        /\ c.backup = codex.backup /\ c.note = codex.note
        /\ c.top = top /\ c.table = table
    BY <2>4 DEF Codices
  <2> HIDE DEF c
  <2>6. doc # None
    BY <2>4, TomlAssumption
  <2>7. Does("urls") /\ (codex.conf # None => codex.conf.top # "toche")
    BY <1>3 DEF ChangeUrls
  <2> QED BY <2>2, <2>3, <2>4, <2>5, <2>6, <2>7, ChangedIs DEF CodexAt
<1>4. CASE RemoveFile
  <2> DEFINE c == [codex EXCEPT !.conf = None, !.top = None, !.table = None]
  <2>1. /\ c \in Codices /\ c.changes = codex.changes /\ c.conf = None /\ c.pc = codex.pc
        /\ c.backup = codex.backup /\ c.note = codex.note /\ c.top = None /\ c.table = None
    BY DEF Codices
  <2>2. Changed(c) /\ Does("urls") /\ codex.conf # None /\ codex.conf.top # "toche"
    BY <1>4 DEF RemoveFile
  <2> HIDE DEF c
  <2> QED BY <2>1, <2>2, ChangedIs DEF CodexAt
<1>5. CASE DropBackup
  <2> DEFINE c == [codex EXCEPT !.backup = None]
  <2>1. /\ c \in Codices /\ c.changes = codex.changes /\ c.conf = codex.conf /\ c.pc = codex.pc
        /\ c.backup = None /\ c.note = codex.note /\ c.top = codex.top /\ c.table = codex.table
    BY DEF Codices
  <2>2. Changed(c) /\ Does("backup")
    BY <1>5 DEF DropBackup
  <2> HIDE DEF c
  <2> QED BY <2>1, <2>2, ChangedIs DEF CodexAt
<1> QED BY <1>1, <1>2, <1>3, <1>4, <1>5 DEF CodexUser

LEMMA CodexInits == ClientsInit => CodexInv
<1> SUFFICES ASSUME ClientsInit PROVE CodexInv
  OBVIOUS
<1>1. PICK top \in Addresses \cup {None}, table \in Addresses \cup {None}, there \in BOOLEAN :
        codex = [conf |-> IF there THEN [EmptyToml EXCEPT !.top = top, !.table = table]
                          ELSE None,
                 backup |-> None, note |-> None, pc |-> "idle", doc |-> EmptyToml,
                 url |-> None, outcome |-> None, top |-> top, table |-> table,
                 commands |-> 0, changes |-> 0]
  BY DEF ClientsInit, CodexInit
<1>2. [EmptyToml EXCEPT !.top = top, !.table = table] \in Toml
  BY EmptyIsToml DEF Toml
<1>3. 0 \in 0 .. MaxCommands /\ 0 \in 0 .. MaxChanges
  BY CodexAssumption
<1>4. codex \in Codices
  BY <1>1, <1>2, <1>3, EmptyIsToml DEF Codices, CodexStages, Outcomes
<1>5. codex.pc = "idle"
  BY <1>1
<1> QED BY <1>4, <1>5 DEF CodexInv, DocInv

\* Types, and the file that a command under way holds.
LEMMA CodexKeeps == CodexInv /\ [ClientsNext]_clientsVars => CodexInv'
<1> SUFFICES ASSUME CodexInv, [ClientsNext]_clientsVars PROVE CodexInv'
  OBVIOUS
<1>0. codex \in Codices /\ DocInv
  BY DEF CodexInv
<1>1. CASE codex' = codex
  BY <1>1 DEF CodexInv, DocInv
<1>2. CASE CodexBegins
  BY <1>0, <1>2, BeginsIs DEF CodexInv, DocInv
<1>3. CASE AskReady
  BY <1>0, <1>3, AskReadyIs DEF CodexInv, DocInv
<1>4. CASE ReadConfig
  BY <1>0, <1>4, ReadConfigIs DEF CodexInv, DocInv, FilesStay
<1>5. CASE MakeBackup
  BY <1>0, <1>5, MakeBackupIs DEF CodexInv, DocInv, CodexAt
<1>6. CASE TearBackup
  BY <1>0, <1>6, TearBackupIs DEF CodexInv, DocInv
<1>7. CASE NoteUrl
  BY <1>0, <1>7, NoteUrlIs DEF CodexInv, DocInv, CodexAt
<1>8. CASE WriteConfig
  BY <1>0, <1>8, WriteConfigIs DEF CodexInv, DocInv
<1>9. CASE LeaveCodex
  BY <1>0, <1>9, LeaveCodexIs DEF CodexInv, DocInv, FilesStay
<1>10. CASE RestoreConfig
  BY <1>0, <1>10, RestoreConfigIs DEF CodexInv, DocInv
<1>11. CASE StructuredRemove
  BY <1>0, <1>11, StructuredRemoveIs DEF CodexInv, DocInv
<1>12. CASE ForgetBackup
  BY <1>0, <1>12, ForgetBackupIs DEF CodexInv, DocInv
<1>13. CASE RemoveNote
  BY <1>0, <1>13, RemoveNoteIs DEF CodexInv, DocInv
<1>14. CASE CodexFails \/ CodexKilled
  BY <1>0, <1>14, StopsAre DEF CodexInv, DocInv
<1>15. CASE CodexUser
  BY <1>0, <1>15, UserIs DEF CodexInv, DocInv
<1>16. UNCHANGED clientsVars => codex' = codex
  BY DEF clientsVars, others
<1> QED
  BY <1>1, <1>2, <1>3, <1>4, <1>5, <1>6, <1>7, <1>8, <1>9, <1>10, <1>11, <1>12, <1>13, <1>14,
     <1>15, <1>16, LaunchesLeaveCodex
  DEF others, ClientsNext, CodexNext, ConnectCodex, DisconnectCodex

\* Types, for any number of launchers, commands and edits.
THEOREM ClientsTypes == ClientsSpec => []ClientsTypeOK
<1>1. ClientsInit => LaunchInv /\ CodexInv
  BY InitLaunch, CodexInits DEF ClientsInit
<1>2. LaunchInv /\ CodexInv => ClientsTypeOK
  BY TypesAgree DEF LaunchInv, CodexInv, ClientsTypeOK
<1> QED BY <1>1, <1>2, LaunchKeeps, CodexKeeps, PTL DEF ClientsSpec

\* No command for Codex changes anything but the one key, or removes the file,
\* with any faults, a torn backup included.
THEOREM CodexKeepsTheRest == ClientsSpec => CodexOwnsOneKey
<1>1. ClientsInit => CodexInv
  BY CodexInits
<1> DEFINE Same == /\ codex'.conf # None
                   /\ [codex'.conf EXCEPT !.top = None] = [codex.conf EXCEPT !.top = None]
<1>2. ASSUME CodexInv, CodexNext, codex.conf # None, codex'.changes = codex.changes
      PROVE  Same
  <2>0. codex \in Codices /\ DocInv /\ codex.conf \in Toml
    BY <1>2 DEF CodexInv, Codices
  <2>1. codex'.conf = codex.conf => Same
    BY <1>2
  <2>2. ASSUME NEW top \in Addresses \cup {"toche", "blank", None},
               codex'.conf = [codex.conf EXCEPT !.top = top]
        PROVE  Same
    BY <2>0, <2>2, TomlFields
  <2>3. CASE WriteConfig
    BY <1>2, <2>0, <2>1, <2>2, <2>3, WriteConfigIs DEF DocInv, CodexAt, FilesStay
  <2>4. CASE RestoreConfig
    <3>1. codex.backup \in Toml /\ codex.doc = codex.conf
      BY <2>0, <2>4, RestoreConfigIs DEF DocInv, CodexAt, Codices
    <3>2. codex.backup.top \in Addresses \cup {"toche", "blank", None}
      BY <3>1, TomlFields
    <3> QED BY <2>0, <2>1, <2>2, <2>4, <3>1, <3>2, RestoreConfigIs DEF FilesStay
  <2>5. CASE StructuredRemove
    BY <2>0, <2>1, <2>2, <2>5, StructuredRemoveIs DEF DocInv, CodexAt
  <2>6. ~CodexUser
    BY <1>2, <2>0, UserIs
  <2>7. CASE CodexBegins \/ AskReady \/ ReadConfig \/ LeaveCodex \/ CodexFails \/ CodexKilled
    BY <2>0, <2>1, <2>7, BeginsIs, AskReadyIs, ReadConfigIs, LeaveCodexIs, StopsAre DEF FilesStay
  <2>8. CASE MakeBackup \/ TearBackup \/ NoteUrl \/ ForgetBackup \/ RemoveNote
    BY <2>0, <2>1, <2>8, MakeBackupIs, TearBackupIs, NoteUrlIs, ForgetBackupIs, RemoveNoteIs
  <2> QED BY <1>2, <2>3, <2>4, <2>5, <2>6, <2>7, <2>8 DEF CodexNext, ConnectCodex, DisconnectCodex
<1>3. CodexInv /\ codex.conf # None /\ codex' = codex => Same
  OBVIOUS
<1>4. CodexInv /\ [ClientsNext]_clientsVars =>
        [codex.conf # None /\ codex'.changes = codex.changes
           => codex'.conf # None
              /\ [codex'.conf EXCEPT !.top = None] = [codex.conf EXCEPT !.top = None]]_clientsVars
  BY <1>2, <1>3, LaunchesLeaveCodex DEF ClientsNext, others
<1> QED BY <1>1, <1>4, CodexKeeps, PTL DEF ClientsSpec, CodexOwnsOneKey

(***************************************************************************)
(* Codex gets its URL back, in three kinds of circumstances.                *)
(***************************************************************************)
\* Where the user keeps to the URLs and the backup is left alone: whatever
\* fails or is killed, the backup has the URL, and without a backup there is none.
FaultsInv ==
  (\A kind \in {"urls", "backup", "tear"} : ~Does(kind)) =>
    /\ codex.conf = None => codex.top = None /\ codex.table = None
    /\ codex.conf # None => codex.conf.top \in {"toche", codex.top} /\ codex.conf.table = codex.table
    /\ codex.backup # None => codex.backup.top = codex.top
    /\ codex.top = None /\ codex.table = None => codex.note = None
    /\ codex.conf # None /\ codex.conf.top = "toche" /\ codex.backup = None =>
         codex.top = None /\ codex.table = None
    /\ codex.pc = "forget" => codex.conf # None /\ codex.conf.top # "toche"

\* The scene never changes, and no launch touches Codex.
LEMMA CodexMoves ==
  ASSUME [ClientsNext]_clientsVars
  PROVE  /\ cast' = cast
         /\ \/ codex' = codex
            \/ CodexBegins \/ AskReady \/ ReadConfig \/ LeaveCodex \/ CodexFails \/ CodexKilled
            \/ MakeBackup \/ TearBackup \/ NoteUrl \/ WriteConfig
            \/ RestoreConfig \/ StructuredRemove \/ ForgetBackup \/ RemoveNote \/ CodexUser
<1>1. CASE LaunchNext
  BY <1>1, LaunchesLeaveCodex DEF others
<1>2. CASE CodexNext
  BY <1>2, CodexLeavesLaunches DEF CodexNext, ConnectCodex, DisconnectCodex
<1>3. CASE UNCHANGED clientsVars
  BY <1>3 DEF clientsVars, others
<1> QED BY <1>1, <1>2, <1>3 DEF ClientsNext

\* Steps that leave files and choice alone.
LEMMA StillSteps ==
  ASSUME CodexInv,
         \/ CodexBegins \/ AskReady \/ ReadConfig \/ LeaveCodex \/ CodexFails \/ CodexKilled
  PROVE  /\ FilesStay
         /\ codex'.pc \in {"idle", "ready", "leave", "read", "backup", "structured", "restore"}
BY BeginsIs, AskReadyIs, ReadConfigIs, LeaveCodexIs, StopsAre DEF CodexInv

LEMMA FaultsKeep == CodexInv /\ FaultsInv /\ [ClientsNext]_clientsVars => FaultsInv'
<1> SUFFICES ASSUME CodexInv, FaultsInv, [ClientsNext]_clientsVars,
                    \A kind \in {"urls", "backup", "tear"} : ~Does(kind)
             PROVE  FaultsInv'
  BY CodexMoves DEF FaultsInv, Does
<1>0. /\ codex \in Codices /\ DocInv
      /\ codex.conf # None => codex.conf \in Toml
      /\ codex.backup # None => codex.backup \in Toml
      /\ codex.doc \in Toml /\ codex.top \in Addresses \cup {None} /\ codex.top # "toche"
  BY CodexAssumption DEF CodexInv, Codices
<1>1. CASE codex' = codex
  BY <1>1, CodexMoves DEF FaultsInv, Does
<1>2. CASE CodexBegins \/ AskReady \/ ReadConfig \/ LeaveCodex \/ CodexFails \/ CodexKilled
  BY <1>2, StillSteps DEF FilesStay, FaultsInv
<1>3. CASE MakeBackup
  BY <1>0, <1>3, MakeBackupIs DEF FaultsInv, DocInv, CodexAt
<1>4. ~TearBackup
  BY DEF TearBackup
<1>5. CASE NoteUrl
  <2>1. codex.top = None /\ codex.table = None => codex.url = None
    BY <1>0, <1>5, NoteUrlIs DEF FaultsInv, DocInv, CodexAt, UpstreamUrl, EmptyToml
  <2> QED BY <1>0, <1>5, <2>1, NoteUrlIs DEF FaultsInv
<1>6. CASE WriteConfig
  <2>1. CASE FilesStay
    BY <1>0, <1>6, <2>1, WriteConfigIs DEF FaultsInv, FilesStay
  <2>2. CASE codex'.conf = [codex.doc EXCEPT !.top = "toche"]
    <3>1. codex'.conf \in Toml /\ codex'.conf # None /\ codex'.conf.top = "toche"
          /\ codex'.conf.table = codex.doc.table
      BY <1>0, <2>2, NewTop
    <3>2. codex.doc.table = codex.table /\ (codex.conf # None => codex.backup # None)
      BY <1>0, <1>6, WriteConfigIs DEF FaultsInv, DocInv, CodexAt, EmptyToml
    <3>3. codex'.pc = "idle" /\ codex'.backup = codex.backup /\ codex'.note = codex.note
          /\ codex'.top = codex.top /\ codex'.table = codex.table
      BY <1>0, <1>6, WriteConfigIs DEF FilesStay
    <3> QED BY <3>1, <3>2, <3>3 DEF FaultsInv
  <2> QED BY <1>0, <1>6, <2>1, <2>2, WriteConfigIs
<1>7. CASE RestoreConfig
  <2>1. CASE FilesStay /\ codex'.pc = "idle"
    BY <2>1 DEF FaultsInv, FilesStay
  <2>2. CASE codex'.conf = [codex.doc EXCEPT !.top = codex.backup.top] /\ codex'.pc = "forget"
             /\ codex'.backup = codex.backup /\ codex'.note = codex.note
             /\ codex'.top = codex.top /\ codex'.table = codex.table
    <3>1. /\ codex.conf # None /\ codex.doc = codex.conf /\ codex.backup.top = codex.top
          /\ codex.doc.table = codex.table
      BY <1>0, <1>7, RestoreConfigIs DEF FaultsInv, DocInv, CodexAt
    <3>2. codex'.conf # None /\ codex'.conf.top = codex.top /\ codex'.conf.table = codex.table
      <4>1. codex'.conf = [codex.doc EXCEPT !.top = codex.top]
        BY <2>2, <3>1
      <4> QED BY <1>0, <3>1, <4>1, NewTop
    <3> QED BY <1>0, <2>2, <3>2 DEF FaultsInv
  <2> QED BY <1>0, <1>7, <2>1, <2>2, RestoreConfigIs
<1>8. CASE StructuredRemove
  <2>1. codex.conf # None /\ codex.doc = codex.conf /\ codex.backup = None
        /\ codex'.backup = codex.backup /\ codex'.note = codex.note
        /\ codex'.top = codex.top /\ codex'.table = codex.table
    BY <1>0, <1>8, StructuredRemoveIs DEF DocInv, CodexAt
  <2>2. CASE codex'.conf = codex.conf /\ codex'.pc = "idle"
    BY <2>1, <2>2 DEF FaultsInv
  <2>3. ASSUME NEW top \in Addresses \cup {"toche", "blank", None},
               codex'.conf = [codex.doc EXCEPT !.top = top], codex'.pc = "unnote",
               codex.doc.top # "toche" => top = codex.doc.top,
               codex.doc.top = "toche" => top = codex.note \/ top = None
        PROVE  FaultsInv'
    <3>1. top = codex.top
      BY <2>1, <2>3 DEF FaultsInv
    <3>2. codex'.conf # None /\ codex'.conf.top = codex.top /\ codex'.conf.table = codex.table
      <4>1. codex'.conf # None /\ codex'.conf.top = top /\ codex'.conf.table = codex.doc.table
        BY <1>0, <2>3, NewTop
      <4> QED BY <2>1, <3>1, <4>1 DEF FaultsInv
    <3> QED BY <1>0, <2>1, <2>3, <3>2 DEF FaultsInv
  <2> QED BY <1>0, <1>8, <2>2, <2>3, StructuredRemoveIs
<1>9. CASE ForgetBackup
  BY <1>0, <1>9, ForgetBackupIs DEF FaultsInv, CodexAt
<1>10. CASE RemoveNote
  BY <1>0, <1>10, RemoveNoteIs DEF FaultsInv
<1>11. CASE CodexUser
  BY <1>0, <1>11, UserIs DEF FaultsInv
<1> QED BY <1>1, <1>2, <1>3, <1>4, <1>5, <1>6, <1>7, <1>8, <1>9, <1>10, <1>11, CodexMoves

\* Where nothing fails: a whole backup has the URL and means that Codex is
\* connected, and without one there is no URL, nor a note of one.
EditsInv ==
  (\A kind \in {"crash", "io", "backup", "tear"} : ~Does(kind)) =>
    /\ codex.conf = None => codex.top = None /\ codex.table = None
    /\ codex.conf # None => codex.conf.top \in {"toche", codex.top} /\ codex.conf.table = codex.table
    /\ codex.backup # None /\ codex.backup.whole =>
         /\ codex.backup.top = codex.top
         /\ codex.conf # None
         /\ codex.conf.top = "toche" \/ codex.pc \in {"note", "write", "forget"}
         /\ codex.pc \in {"note", "write"} => codex.doc.whole
    /\ codex.note # None => codex.backup # None \/ codex.pc = "unnote"
    /\ codex.conf # None /\ codex.conf.top = "toche" /\ codex.backup = None => codex.top = None
    /\ codex.pc = "forget" => codex.conf # None /\ codex.conf.top # "toche"

LEMMA EditsKeep == CodexInv /\ EditsInv /\ [ClientsNext]_clientsVars => EditsInv'
<1> SUFFICES ASSUME CodexInv, EditsInv, [ClientsNext]_clientsVars,
                    \A kind \in {"crash", "io", "backup", "tear"} : ~Does(kind)
             PROVE  EditsInv'
  BY CodexMoves DEF EditsInv, Does
<1>0. /\ codex \in Codices /\ DocInv
      /\ codex.conf # None => codex.conf \in Toml
      /\ codex.backup # None => codex.backup \in Toml
      /\ codex.doc \in Toml /\ codex.top \in Addresses \cup {None} /\ codex.top # "toche"
  BY CodexAssumption DEF CodexInv, Codices
<1>1. CASE codex' = codex
  BY <1>1, CodexMoves DEF EditsInv, Does
<1>2. CASE CodexBegins \/ AskReady \/ ReadConfig \/ LeaveCodex \/ CodexFails \/ CodexKilled
  <2>1. ~CodexFails /\ ~CodexKilled
    BY DEF CodexFails, CodexKilled
  <2>2. codex.pc \in {"idle", "ready", "read", "leave"}
    BY <1>0, <1>2, <2>1, BeginsIs, AskReadyIs, ReadConfigIs, LeaveCodexIs DEF CodexAt
  <2> QED BY <1>2, <2>2, StillSteps DEF FilesStay, EditsInv
<1>3. CASE MakeBackup
  <2>1. CASE codex.backup = None
    BY <1>0, <1>3, <2>1, MakeBackupIs DEF EditsInv, DocInv, CodexAt
  <2>2. CASE codex.backup # None
    <3>1. codex.conf # None => codex.conf.top # "toche"
      BY <1>0, <1>3, MakeBackupIs DEF DocInv, CodexAt
    <3>2. ~codex.backup.whole
      BY <1>0, <1>3, <2>2, <3>1, MakeBackupIs DEF EditsInv, CodexAt
    <3> QED BY <1>0, <1>3, <2>2, <3>2, MakeBackupIs DEF EditsInv, CodexAt
  <2> QED BY <2>1, <2>2
<1>4. ~TearBackup
  BY DEF TearBackup
<1>5. CASE NoteUrl
  <2>1. codex.conf = None => codex.url = None
    BY <1>0, <1>5, NoteUrlIs DEF DocInv, CodexAt, UpstreamUrl, EmptyToml
  <2>2. codex.conf # None => codex.backup # None
    BY <1>0, <1>5, NoteUrlIs DEF DocInv, CodexAt
  <2> QED BY <1>0, <1>5, <2>1, <2>2, NoteUrlIs DEF EditsInv, CodexAt
<1>6. CASE WriteConfig
  <2>1. CASE FilesStay /\ ~codex.doc.whole
    BY <1>0, <1>6, <2>1, WriteConfigIs DEF EditsInv, FilesStay, CodexAt
  <2>2. CASE codex'.conf = [codex.doc EXCEPT !.top = "toche"]
    <3>1. codex'.conf # None /\ codex'.conf.top = "toche"
          /\ codex'.conf.table = codex.doc.table
      BY <1>0, <2>2, NewTop
    <3>2. codex.doc.table = codex.table /\ (codex.conf # None => codex.backup # None)
      BY <1>0, <1>6, WriteConfigIs DEF EditsInv, DocInv, CodexAt, EmptyToml
    <3>3. codex'.pc = "idle" /\ codex'.backup = codex.backup /\ codex'.note = codex.note
          /\ codex'.top = codex.top /\ codex'.table = codex.table
          /\ codex.pc = "write"
      BY <1>0, <1>6, WriteConfigIs DEF FilesStay, CodexAt
    <3> QED BY <3>1, <3>2, <3>3 DEF EditsInv
  <2> QED BY <1>0, <1>6, <2>1, <2>2, WriteConfigIs
<1>7. CASE RestoreConfig
  <2>1. CASE FilesStay /\ codex'.pc = "idle"
    <3>1. codex.pc = "restore"
      BY <1>0, <1>7, RestoreConfigIs DEF CodexAt
    <3> QED BY <2>1, <3>1 DEF EditsInv, FilesStay
  <2>2. CASE codex'.conf = [codex.doc EXCEPT !.top = codex.backup.top] /\ codex'.pc = "forget"
             /\ codex'.backup = codex.backup /\ codex'.note = codex.note
             /\ codex'.top = codex.top /\ codex'.table = codex.table /\ codex.backup.whole
    <3>1. /\ codex.conf # None /\ codex.doc = codex.conf /\ codex.backup # None
          /\ codex.backup.top = codex.top /\ codex.doc.table = codex.table
      BY <1>0, <1>7, <2>2, RestoreConfigIs DEF EditsInv, DocInv, CodexAt
    <3>2. codex'.conf # None /\ codex'.conf.top = codex.top /\ codex'.conf.table = codex.table
      <4>1. codex'.conf = [codex.doc EXCEPT !.top = codex.top]
        BY <2>2, <3>1
      <4> QED BY <1>0, <3>1, <4>1, NewTop
    <3> QED BY <1>0, <2>2, <3>1, <3>2 DEF EditsInv
  <2> QED BY <1>0, <1>7, <2>1, <2>2, RestoreConfigIs
<1>8. CASE StructuredRemove
  <2>1. codex.conf # None /\ codex.doc = codex.conf /\ codex.backup = None /\ codex.note = None
        /\ codex'.backup = codex.backup /\ codex'.note = codex.note
        /\ codex'.top = codex.top /\ codex'.table = codex.table
    BY <1>0, <1>8, StructuredRemoveIs DEF DocInv, CodexAt, EditsInv
  <2>2. CASE codex'.conf = codex.conf /\ codex'.pc = "idle"
    BY <2>1, <2>2 DEF EditsInv
  <2>3. ASSUME NEW top \in Addresses \cup {"toche", "blank", None},
               codex'.conf = [codex.doc EXCEPT !.top = top], codex'.pc = "unnote",
               codex.doc.top # "toche" => top = codex.doc.top,
               codex.doc.top = "toche" => top = codex.note \/ top = None
        PROVE  EditsInv'
    <3>1. top = codex.top
      BY <2>1, <2>3 DEF EditsInv
    <3>2. codex'.conf # None /\ codex'.conf.top = codex.top /\ codex'.conf.table = codex.table
      <4>1. codex'.conf # None /\ codex'.conf.top = top /\ codex'.conf.table = codex.doc.table
        BY <1>0, <2>3, NewTop
      <4> QED BY <2>1, <3>1, <4>1 DEF EditsInv
    <3> QED BY <1>0, <2>1, <2>3, <3>2 DEF EditsInv
  <2> QED BY <1>0, <1>8, <2>2, <2>3, StructuredRemoveIs
<1>9. CASE ForgetBackup
  BY <1>0, <1>9, ForgetBackupIs DEF EditsInv, CodexAt
<1>10. CASE RemoveNote
  BY <1>0, <1>10, RemoveNoteIs DEF EditsInv, CodexAt
<1>11. CASE CodexUser
  <2>1. codex.pc = "idle" /\ codex'.pc = "idle"
    BY <1>0, <1>11, UserIs DEF CodexAt
  <2>2. codex'.note = codex.note /\ codex'.top # "toche"
    BY <1>0, <1>11, UserIs, CodexAssumption DEF Codices
  <2>3. CASE /\ codex.conf # None /\ codex'.conf # None
             /\ codex'.conf.top = codex.conf.top /\ codex'.conf.table = codex.conf.table
             /\ codex'.backup = codex.backup
             /\ codex'.top = codex.top /\ codex'.table = codex.table
    BY <2>1, <2>2, <2>3 DEF EditsInv
  <2>4. CASE /\ codex.conf # None => codex.conf.top # "toche"
             /\ codex'.conf # None /\ codex'.backup = codex.backup
             /\ codex'.conf.top = codex'.top /\ codex'.conf.table = codex'.table
    BY <2>1, <2>2, <2>4 DEF EditsInv
  <2>5. CASE /\ codex.conf # None /\ codex.conf.top # "toche"
             /\ codex'.conf = None /\ codex'.backup = codex.backup
             /\ codex'.top = None /\ codex'.table = None
    BY <2>1, <2>2, <2>5 DEF EditsInv
  <2> QED BY <1>0, <1>11, <2>3, <2>4, <2>5, UserIs
<1> QED BY <1>1, <1>2, <1>3, <1>4, <1>5, <1>6, <1>7, <1>8, <1>9, <1>10, <1>11, CodexMoves

\* The user's URL, or, when the user has removed a backup of a file without
\* one, that of a table.
Given(url) == url = codex.top \/ (Does("backup") /\ codex.top = None /\ url = codex.table)

\* Where the file stays whole and nothing fails, but the backup may go: both
\* the backup and the note have what to put back.
RemovalInv ==
  (\A kind \in {"crash", "io", "break", "tear"} : ~Does(kind)) =>
    /\ codex.conf = None => codex.top = None /\ codex.table = None
    /\ codex.conf # None => /\ codex.conf.top = "toche" \/ Given(codex.conf.top)
                            /\ codex.conf.table = codex.table /\ codex.conf.whole
    /\ codex.backup # None =>
         /\ Given(codex.backup.top) /\ codex.backup.whole
         /\ codex.conf # None
         /\ codex.conf.top = "toche" \/ codex.pc \in {"note", "write", "forget"}
    /\ codex.note # None =>
         /\ codex.conf # None
         /\ codex.conf.top = "toche" \/ codex.pc \in {"write", "forget", "unnote"}
    /\ codex.pc = "write" => codex.note = codex.url
    /\ codex.conf # None /\ codex.conf.top = "toche" /\ (Does("backup") \/ codex.backup = None) =>
         Given(codex.note)
    /\ codex.pc \in {"forget", "unnote"} => codex.conf # None /\ codex.conf.top # "toche"

LEMMA RemovalKeeps == CodexInv /\ RemovalInv /\ [ClientsNext]_clientsVars => RemovalInv'
<1> SUFFICES ASSUME CodexInv, RemovalInv, [ClientsNext]_clientsVars,
                    \A kind \in {"crash", "io", "break", "tear"} : ~Does(kind)
             PROVE  RemovalInv'
  BY CodexMoves DEF RemovalInv, Does
<1>0. /\ codex \in Codices /\ DocInv
      /\ codex.conf # None => codex.conf \in Toml
      /\ codex.backup # None => codex.backup \in Toml
      /\ codex.doc \in Toml /\ codex.top \in Addresses \cup {None} /\ codex.top # "toche"
      /\ codex.table \in Addresses \cup {None} /\ codex.table # "toche"
      /\ None # "toche"
  BY CodexAssumption DEF CodexInv, Codices
<1>a. Does("backup")' <=> Does("backup")
  BY CodexMoves DEF Does
<1>b. codex'.top = codex.top /\ codex'.table = codex.table
        => \A url : Given(url)' <=> Given(url)
  BY <1>a DEF Given
<1>1. CASE codex' = codex
  BY <1>1, <1>a, <1>b DEF RemovalInv
<1>2. CASE CodexBegins \/ AskReady \/ ReadConfig \/ LeaveCodex \/ CodexFails \/ CodexKilled
  <2>1. ~CodexFails /\ ~CodexKilled
    BY DEF CodexFails, CodexKilled
  <2>2. codex.pc \in {"idle", "ready", "read", "leave"}
    BY <1>0, <1>2, <2>1, BeginsIs, AskReadyIs, ReadConfigIs, LeaveCodexIs DEF CodexAt
  <2> QED BY <1>2, <1>a, <1>b, <2>2, StillSteps DEF FilesStay, RemovalInv
<1>3. CASE MakeBackup
  <2>1. codex.conf # None => codex.conf.top # "toche"
    BY <1>0, <1>3, MakeBackupIs DEF DocInv, CodexAt
  <2>2. codex.backup = None
    BY <1>0, <1>3, <2>1, MakeBackupIs DEF RemovalInv, CodexAt
  <2> QED BY <1>0, <1>3, <1>a, <1>b, <2>1, <2>2, MakeBackupIs DEF RemovalInv, CodexAt
<1>4. ~TearBackup
  BY DEF TearBackup
<1>5. CASE NoteUrl
  <2>1. codex.conf = None => codex.url = None
    BY <1>0, <1>5, NoteUrlIs DEF DocInv, CodexAt, UpstreamUrl, EmptyToml
  <2>2. codex.conf # None => codex.conf.top # "toche"
    BY <1>0, <1>5, NoteUrlIs DEF DocInv, CodexAt
  <2>3. codex.note = None
    BY <1>0, <1>5, <2>2, NoteUrlIs DEF RemovalInv, CodexAt
  <2>4. codex'.note = codex.url
    BY <1>0, <1>5, <2>3, NoteUrlIs
  <2> QED BY <1>0, <1>5, <1>a, <1>b, <2>1, <2>2, <2>4, NoteUrlIs DEF RemovalInv, CodexAt
<1>6. CASE WriteConfig
  <2>1. codex.doc.whole
    BY <1>0, <1>6, WriteConfigIs DEF RemovalInv, DocInv, CodexAt, EmptyToml
  <2>2. codex'.conf = [codex.doc EXCEPT !.top = "toche"]
    BY <1>0, <1>6, <2>1, WriteConfigIs
  <2>3. codex'.conf # None /\ codex'.conf.top = "toche"
        /\ codex'.conf.table = codex.doc.table /\ codex'.conf.whole
    BY <1>0, <2>1, <2>2, NewTop
  <2>4. codex.doc.table = codex.table /\ (codex.conf # None => codex.backup # None)
    BY <1>0, <1>6, WriteConfigIs DEF RemovalInv, DocInv, CodexAt, EmptyToml
  <2>5. codex'.pc = "idle" /\ codex'.backup = codex.backup /\ codex'.note = codex.note
        /\ codex'.top = codex.top /\ codex'.table = codex.table
        /\ codex.pc = "write"
    BY <1>0, <1>6, WriteConfigIs DEF FilesStay, CodexAt
  <2>6. ASSUME Does("backup") \/ codex.backup = None PROVE Given(codex.note)
    <3>1. codex.note = UpstreamUrl(codex.doc)
      BY <1>0, <2>5 DEF RemovalInv, DocInv
    <3>2. CASE codex.conf = None
      BY <1>0, <2>5, <3>1, <3>2 DEF RemovalInv, DocInv, UpstreamUrl, EmptyToml, Given
    <3>3. CASE codex.conf # None
      <4>1. Does("backup") /\ codex.doc = codex.conf /\ codex.doc.top # "toche"
        BY <1>0, <2>4, <2>5, <2>6, <3>3 DEF DocInv
      <4>2. Given(codex.doc.top) /\ codex.doc.table = codex.table
        BY <3>3, <4>1 DEF RemovalInv
      <4> QED BY <3>1, <4>1, <4>2 DEF UpstreamUrl, Given
    <3> QED BY <3>2, <3>3
  <2> QED BY <1>a, <1>b, <2>3, <2>4, <2>5, <2>6 DEF RemovalInv
<1>7. CASE RestoreConfig
  <2>1. CASE FilesStay /\ codex'.pc = "idle"
    <3>1. codex.pc = "restore"
      BY <1>0, <1>7, RestoreConfigIs DEF CodexAt
    <3> QED BY <1>a, <1>b, <2>1, <3>1 DEF RemovalInv, FilesStay
  <2>2. CASE codex'.conf = [codex.doc EXCEPT !.top = codex.backup.top] /\ codex'.pc = "forget"
             /\ codex'.backup = codex.backup /\ codex'.note = codex.note
             /\ codex'.top = codex.top /\ codex'.table = codex.table
    <3>1. /\ codex.conf # None /\ codex.doc = codex.conf /\ codex.backup # None
          /\ Given(codex.backup.top) /\ codex.doc.table = codex.table /\ codex.doc.whole
      BY <1>0, <1>7, RestoreConfigIs DEF RemovalInv, DocInv, CodexAt
    <3>2. codex.backup.top \in Addresses \cup {None} /\ codex.backup.top # "toche"
      BY <1>0, <3>1 DEF Given
    <3>3. codex'.conf # None /\ codex'.conf.top = codex.backup.top
          /\ codex'.conf.table = codex.table /\ codex'.conf.whole
      <4> DEFINE top == codex.backup.top
      <4>1. top \in Addresses \cup {"toche", "blank", None}
            /\ codex'.conf = [codex.doc EXCEPT !.top = top]
        BY <2>2, <3>2
      <4> HIDE DEF top
      <4>2. codex'.conf # None /\ codex'.conf.top = top
            /\ codex'.conf.table = codex.doc.table /\ codex'.conf.whole = codex.doc.whole
        BY <1>0, <4>1, NewTop
      <4> QED BY <3>1, <4>2 DEF top
    <3> QED BY <1>0, <1>a, <1>b, <2>2, <3>1, <3>2, <3>3 DEF RemovalInv
  <2> QED BY <1>0, <1>7, <2>1, <2>2, RestoreConfigIs
<1>8. CASE StructuredRemove
  <2>1. codex.conf # None /\ codex.doc = codex.conf /\ codex.backup = None
        /\ codex'.backup = codex.backup /\ codex'.note = codex.note
        /\ codex'.top = codex.top /\ codex'.table = codex.table /\ codex.pc = "structured"
    BY <1>0, <1>8, StructuredRemoveIs DEF DocInv, CodexAt
  <2>2. CASE codex'.conf = codex.conf /\ codex'.pc = "idle"
    BY <1>a, <1>b, <2>1, <2>2 DEF RemovalInv
  <2>3. ASSUME NEW top \in Addresses \cup {"toche", "blank", None},
               codex'.conf = [codex.doc EXCEPT !.top = top], codex'.pc = "unnote",
               codex.doc.top # "toche" => top = codex.doc.top,
               codex.doc.top = "toche" => top = codex.note
        PROVE  RemovalInv'
    <3>1. Given(top)
      BY <2>1, <2>3 DEF RemovalInv
    <3>2. top # "toche"
      BY <1>0, <3>1 DEF Given
    <3>3. codex'.conf # None /\ codex'.conf.top = top /\ codex'.conf.table = codex.doc.table
          /\ codex'.conf.whole = codex.doc.whole
      BY <1>0, <2>3, NewTop
    <3> QED BY <1>0, <1>a, <1>b, <2>1, <2>3, <3>1, <3>2, <3>3 DEF RemovalInv
  <2> QED BY <1>0, <1>8, <2>2, <2>3, StructuredRemoveIs
<1>9. CASE ForgetBackup
  BY <1>0, <1>9, <1>a, <1>b, ForgetBackupIs DEF RemovalInv, CodexAt
<1>10. CASE RemoveNote
  BY <1>0, <1>10, <1>a, <1>b, RemoveNoteIs DEF RemovalInv, CodexAt
<1>11. CASE CodexUser
  <2>1. codex.pc = "idle" /\ codex'.pc = "idle"
    BY <1>0, <1>11, UserIs DEF CodexAt
  <2>2. codex'.note = codex.note /\ codex'.top # "toche"
    BY <1>0, <1>11, UserIs, CodexAssumption DEF Codices
  <2>3. CASE /\ codex.conf # None /\ codex'.conf # None
             /\ codex'.conf.top = codex.conf.top /\ codex'.conf.table = codex.conf.table
             /\ codex'.conf.whole = codex.conf.whole
             /\ codex'.backup = codex.backup
             /\ codex'.top = codex.top /\ codex'.table = codex.table
    BY <1>a, <1>b, <2>1, <2>2, <2>3 DEF RemovalInv
  <2>4. CASE /\ codex.conf # None => codex.conf.top # "toche"
             /\ codex'.conf # None /\ codex'.backup = codex.backup
             /\ codex'.conf.top = codex'.top /\ codex'.conf.table = codex'.table
             /\ codex'.conf.whole = IF codex.conf = None THEN TRUE ELSE codex.conf.whole
    BY <2>1, <2>2, <2>4 DEF RemovalInv, Given
  <2>5. CASE /\ codex.conf # None /\ codex.conf.top # "toche"
             /\ codex'.conf = None /\ codex'.backup = codex.backup
             /\ codex'.top = None /\ codex'.table = None
    BY <2>1, <2>2, <2>5 DEF RemovalInv
  <2>6. CASE /\ Does("backup") /\ codex'.backup = None /\ codex'.conf = codex.conf
             /\ codex'.top = codex.top /\ codex'.table = codex.table
    BY <1>a, <1>b, <2>1, <2>2, <2>6 DEF RemovalInv
  <2> QED BY <1>0, <1>11, <2>3, <2>4, <2>5, <2>6, UserIs
<1> QED BY <1>1, <1>2, <1>3, <1>4, <1>5, <1>6, <1>7, <1>8, <1>9, <1>10, <1>11, CodexMoves

\* Before the first command the file has the user's URLs, and there is neither
\* a backup nor a note.
LEMMA CircumstancesBegin == ClientsInit => FaultsInv /\ EditsInv /\ RemovalInv
<1> SUFFICES ASSUME ClientsInit PROVE FaultsInv /\ EditsInv /\ RemovalInv
  OBVIOUS
<1>0. CodexInit
  BY DEF ClientsInit
<1>1. PICK top \in Addresses \cup {None}, table \in Addresses \cup {None}, there \in BOOLEAN :
        /\ ~there => top = None /\ table = None
        /\ codex = [conf |-> IF there THEN [EmptyToml EXCEPT !.top = top, !.table = table]
                             ELSE None,
                    backup |-> None, note |-> None, pc |-> "idle", doc |-> EmptyToml,
                    url |-> None, outcome |-> None, top |-> top, table |-> table,
                    commands |-> 0, changes |-> 0]
  BY <1>0 DEF CodexInit
<1>2. top # "toche"
  BY CodexAssumption
<1>3. /\ codex.backup = None /\ codex.note = None /\ codex.pc = "idle"
      /\ codex.top = top /\ codex.table = table
  BY <1>1
<1>4. CASE ~there
  <2>1. codex.conf = None /\ top = None /\ table = None
    BY <1>1, <1>4
  <2> QED BY <1>3, <2>1 DEF FaultsInv, EditsInv, RemovalInv
<1>5. CASE there
  <2>1. codex.conf = [EmptyToml EXCEPT !.top = top, !.table = table]
    BY <1>1, <1>5
  <2>2. codex.conf.top = top /\ codex.conf.table = table /\ codex.conf.whole
    BY <2>1 DEF EmptyToml
  <2>3. codex.conf # None
    BY <1>0, CodexInits, <1>1, <2>1, EmptyIsToml, TomlAssumption DEF EmptyToml, Toml
  <2> QED BY <1>2, <1>3, <2>2, <2>3 DEF FaultsInv, EditsInv, RemovalInv, Given
<1> QED BY <1>1, <1>4, <1>5

\* A file that does not route through Toche has the URL that the user chose
\* last: with any faults if the user keeps to it, with any choices if no command
\* fails, and without the backup if the file stays what it is.
THEOREM CodexIsGivenBack == ClientsSpec => []CodexGivesBack
<1>1. ClientsInit => CodexInv /\ FaultsInv /\ EditsInv /\ RemovalInv
  BY CodexInits, CircumstancesBegin
<1>2. FaultsInv /\ EditsInv /\ RemovalInv => CodexGivesBack
  BY DEF FaultsInv, EditsInv, RemovalInv, Given, CodexGivesBack
<1> QED BY <1>1, <1>2, CodexKeeps, FaultsKeep, EditsKeep, RemovalKeeps, PTL DEF ClientsSpec
=============================================================================
