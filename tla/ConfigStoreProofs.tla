-------------------------- MODULE ConfigStoreProofs --------------------------
(***************************************************************************)
(* Proofs about the configuration directory, for any number of setups and  *)
(* commands, any faults and any number of kills.                           *)
(***************************************************************************)
EXTENDS ConfigStore, TLAPS

\* The places inside atomic_write_secure.
Writing == {"clean", "remove", "open", "fill", "rename"}

\* The places after config.toml is written by a migration.
Migrating == {"bak", "keep", "drop"}

\* The places that only a setup comes to.
SetupOnly == {"lock", "ask", "backup", "copy", "restore", "refill", "settle", "own", "unlock"}

\* Where a process can be before setup begins to apply ...
DetectPlaces ==
  {"lock", "exists", "legacy", "again", "readv1", "ask", "backup", "copy", "unlock"}
    \cup Writing \cup Migrating \cup Ended

\* ... while it writes the new configuration ...
ApplyPlaces == Writing \cup {"restore", "refill", "unlock"}

\* ... and once that is config.toml.
ReloadPlaces == {"exists", "restore", "refill", "settle", "own", "unlock"}

\* What is known of a process by where it is.  config.toml never goes away, so
\* whoever has passed a look that found it may rely on it.
Sound(p, l) ==
  /\ l.phase = "detect" => l.pc \in DetectPlaces /\ ~l.saved
  /\ l.phase = "apply" => l.pc \in ApplyPlaces
  /\ l.phase = "reload" => l.pc \in ReloadPlaces /\ config # None
  /\ p \in Loaders => l.phase = "detect" /\ l.pc \notin SetupOnly
  /\ l.pc \in Writing \cup Migrating \cup {"backup", "copy"} \/ l.phase # "detect" => l.want \in Config
  /\ l.pc \in {"settle", "own"} => l.found \in Config
  /\ l.pc = "fill" => l.fd \in Nodes
  /\ l.pc \in Migrating \cup {"copy"} \/ l.saved => config # None
  /\ l.pc \in {"restore", "refill"} => l.saved

\* Every process is where its locals say.
PlaceInv == \A p \in Procs : Sound(p, at[p])

\* A setup that is under way is the one that made the lock file.
LockInv == \A p \in Setups : at[p].pc \notin {"lock"} \cup Ended => lock = p

\* The rollback copy stays until the setup that made it accepts the new file.
RollbackKept ==
  \A p \in Setups : at[p].saved /\ at[p].pc \notin {"own", "unlock"} => rollback # None

\* The inductive invariant that holds of every directory.
StoreInv == TypeOK /\ PlaceInv /\ LockInv /\ RollbackKept
-----------------------------------------------------------------------------
\* config.toml is what a detection returned, or is not there.
IsThere(c) == IF c = None THEN config = None ELSE Holds(c)

\* What the setup that holds the lock relies on, when nobody else writes.
Private(p, l) ==
  /\ l.phase = "detect" => l.pc \notin Writing \cup Migrating \cup {"again", "readv1"}
  /\ p \in Setups /\ l.pc = "legacy" => config = None
  /\ l.pc \in {"ask", "backup", "copy"} => l.found = l.before /\ IsThere(l.before)
  /\ l.saved /\ l.pc \notin {"own", "unlock"} => l.before \in Config /\ rollback = l.before
  /\ l.phase # "detect" /\ ~l.saved => rollback = None
  /\ l.pc = "fill" => tmp # None /\ l.fd = tmp /\ data[tmp] = Torn
  /\ l.pc = "rename" => tmp # None /\ data[tmp] = l.want
  /\ l.phase = "reload" /\ l.pc = "exists" => Holds(l.want)
  /\ l.pc \in {"settle", "own"} => Holds(l.want) /\ l.found = l.want
  /\ l.pc = "own" => rollback = None

\* The inductive invariant of directories where nobody migrates.
PrivateInv ==
  /\ profiles = None
  /\ tmp # None => tmp # config
  /\ rollback # None => config # None
  /\ \A p \in Procs : Private(p, at[p])

PrivateHere == NoMigration => PrivateInv

\* What TornHasRollback says where nothing is migrated.
TornKept == Torned => rollback \in Config

TornHere == Undisturbed => TornKept

-----------------------------------------------------------------------------
\* What LegacyKept says in a directory of 1.0.x with no earlier backup.
ProfilesKept == profiles = "v1" \/ (bak = "v1" /\ config # None)

\* Whoever removes profiles.toml has seen the backup.
LegacyInv ==
  /\ ProfilesKept
  /\ bak \in {None, "v1"}
  /\ \A p \in Procs : At(p, "drop") => bak # None

LegacyHere == scene.start = "legacy" => LegacyInv

\* Nobody moves to another directory.
LEMMA SameScene == [Next]_vars => scene' = scene
<1> USE DEF legacy
<1>1. ASSUME NEW p \in Procs, Load(p) PROVE scene' = scene
  BY <1>1 DEF Load, Read, Absent, Legacy, ReadLegacy, Bak, Keep, Drop
<1>2. ASSUME NEW p \in Procs, Write(p) PROVE scene' = scene
  BY <1>2 DEF Write, Clean, Remove, Open, Fill, Rename
<1>3. ASSUME NEW p \in Procs, Setup(p) PROVE scene' = scene
  BY <1>3 DEF Setup, Acquire, Ask, Backup, Copy, Restore, Refill, Settle, Own, Unlock
<1>4. ASSUME NEW p \in Procs, Fault(p) PROVE scene' = scene
  BY <1>4 DEF Fault, IoFails, WriteFails, RestoreFails, Crash
<1>5. ASSUME ClearLock PROVE scene' = scene
  BY <1>5 DEF ClearLock
<1> QED BY <1>1, <1>2, <1>3, <1>4, <1>5 DEF Next, Step, vars

-----------------------------------------------------------------------------
(* What the helpers do to the process that moves, and that they leave the   *)
(* others alone.                                                            *)

\* All places of a process that runs.
Places == DetectPlaces \cup ApplyPlaces \cup ReloadPlaces

\* What Local allows as an outcome.
Outcomes ==
  {None, "refused", "failed", "missing", "loaded", "dryrun", "noop", "restored", "applied"}

\* Only process p moves.
Alone(p) == at' \in [Procs -> Local] /\ \A q \in Procs \ {p} : at'[q] = at[q]

\* The locals of process p other than its program counter and its outcome.
SameLocals(p) ==
  /\ at'[p].phase = at[p].phase /\ at'[p].saved = at[p].saved /\ at'[p].dry = at[p].dry
  /\ at'[p].found = at[p].found /\ at'[p].before = at[p].before
  /\ at'[p].want = at[p].want /\ at'[p].fd = at[p].fd

\* The locals of a process that is gone.
NoLocals(p) == at'[p].phase = "detect" /\ at'[p].saved = FALSE

\* Only the program counter moves.
LEMMA GoIs ==
  ASSUME TypeOK, NEW p \in Procs, NEW pc \in Places, Go(p, pc)
  PROVE  Alone(p) /\ SameLocals(p) /\ at'[p].pc = pc /\ at'[p].outcome = at[p].outcome
BY DEF TypeOK, Go, Alone, SameLocals, Local, Places, DetectPlaces, ApplyPlaces, ReloadPlaces,
   Writing, Migrating

\* A process that is gone is as it was at the start, but for its outcome.
LEMMA GoneIs ==
  ASSUME TypeOK, NEW p \in Procs, NEW pc \in Ended, NEW o \in Outcomes, Gone(p, pc, o)
  PROVE  Alone(p) /\ NoLocals(p) /\ at'[p].pc = pc /\ at'[p].outcome = o
<1>1. /\ [Fresh(pc) EXCEPT !.outcome = o] \in Local
      /\ [Fresh(pc) EXCEPT !.outcome = o].pc = pc
      /\ [Fresh(pc) EXCEPT !.outcome = o].phase = "detect"
      /\ [Fresh(pc) EXCEPT !.outcome = o].saved = FALSE
      /\ [Fresh(pc) EXCEPT !.outcome = o].outcome = o
  BY DEF Fresh, Local, Ended, Outcomes
<1> QED BY <1>1 DEF TypeOK, Gone, Alone, NoLocals

\* How process p ends: a setup has its lock to release, a command is gone.
Ends(p, o) ==
  /\ at'[p].outcome = o
  /\ p \in Setups => SameLocals(p) /\ at'[p].pc = "unlock"
  /\ p \notin Setups => NoLocals(p) /\ at'[p].pc = "done"

\* End does that.
LEMMA EndIs ==
  ASSUME TypeOK, NEW p \in Procs, NEW o \in Outcomes, End(p, o)
  PROVE  Alone(p) /\ Ends(p, o)
<1>1. CASE p \in Setups
  BY <1>1 DEF End, Ends, TypeOK, Alone, SameLocals, Local, Outcomes
<1>2. CASE p \notin Setups
  BY <1>2, GoneIs DEF End, Ends, Ended
<1> QED BY <1>1, <1>2

\* An error ends a detection, or a setup without a rollback copy; else the
\* copy is put back.
LEMMA FailIs ==
  ASSUME TypeOK, NEW p \in Procs, Fail(p)
  PROVE  /\ Alone(p)
         /\ \/ at[p].phase = "detect" /\ Ends(p, "failed")
            \/ at[p].phase # "detect" /\ at[p].saved = FALSE /\ Ends(p, "restored")
            \/ /\ at[p].phase # "detect" /\ at[p].saved = TRUE
               /\ SameLocals(p) /\ at'[p].pc = "restore" /\ at'[p].outcome = at[p].outcome
<1>0. at[p].saved \in BOOLEAN
  BY DEF TypeOK, Local
<1>1. CASE at[p].phase = "detect"
  BY <1>1, EndIs DEF Fail, Outcomes
<1>2. CASE at[p].phase # "detect" /\ at[p].saved = TRUE
  BY <1>2, GoIs DEF Fail, Places, ApplyPlaces
<1>3. CASE at[p].phase # "detect" /\ at[p].saved = FALSE
  BY <1>3, EndIs DEF Fail, Outcomes
<1> QED BY <1>0, <1>1, <1>2, <1>3

\* detect_and_load has returned c.
LEMMA ReturnIs ==
  ASSUME TypeOK, NEW p \in Procs, NEW c \in Config \cup {None}, Return(p, c)
  PROVE  /\ Alone(p)
         /\ p \notin Setups => NoLocals(p) /\ at'[p].pc = "done"
         /\ p \in Setups =>
              /\ at'[p].phase = at[p].phase /\ at'[p].saved = at[p].saved
              /\ at'[p].found = c /\ at'[p].want = at[p].want
              /\ at'[p].outcome = at[p].outcome
              /\ at[p].phase = "detect" => at'[p].pc = "ask" /\ at'[p].before = c
              /\ at[p].phase # "detect" => at'[p].pc = "settle" /\ at'[p].before = at[p].before
<1>0. p \in Loaders <=> p \notin Setups
  BY ConfigAssumption DEF Procs
<1>1. CASE p \in Loaders
  BY <1>0, <1>1, EndIs DEF Return, Ends, Outcomes
<1>2. CASE p \in Setups /\ at[p].phase = "detect"
  BY <1>0, <1>2 DEF Return, TypeOK, Local, Alone
<1>3. CASE p \in Setups /\ at[p].phase # "detect"
  BY <1>0, <1>3 DEF Return, TypeOK, Local, Alone
<1> QED BY <1>0, <1>1, <1>2, <1>3

\* What a process knows where it is.
LEMMA PlaceIs ==
  ASSUME StoreInv, NEW p \in Procs
  PROVE  Sound(p, at[p]) /\ at[p] \in Local /\ at[p].phase \in {"detect", "apply", "reload"}
BY DEF StoreInv, PlaceInv, TypeOK, Local

\* Every step is one of one process, and the others do not move.
LEMMA StepAlone ==
  ASSUME StoreInv, NEW p \in Procs, Step(p) \/ Fault(p)
  PROVE  Alone(p)
<1> USE ConfigAssumption
<1>0. at[p] \in Local
  BY PlaceIs
<1>1. ASSUME Acquire(p) PROVE Alone(p)
  <2>1. CASE lock = None
    BY <1>0, <1>1, <2>1 DEF StoreInv, Acquire, TypeOK, Local, Alone
  <2>2. CASE lock # None
    BY <1>0, <1>1, <2>2, GoneIs DEF StoreInv, Acquire, Outcomes, Ended
  <2> QED BY <2>1, <2>2
<1>2. ASSUME Read(p) PROVE Alone(p)
  <2>0. config \in Nodes /\ data[config] \in Config \cup {Torn}
    BY <1>2 DEF StoreInv, TypeOK, Read
  <2>1. CASE data[config] = Torn
    BY <1>2, <2>1, FailIs DEF StoreInv, Read
  <2>2. CASE data[config] # Torn
    BY <1>2, <2>0, <2>2, ReturnIs DEF StoreInv, Read
  <2> QED BY <2>1, <2>2
<1>3. ASSUME Absent(p) PROVE Alone(p)
  BY <1>0, <1>3, GoIs DEF StoreInv, Absent, Places, DetectPlaces
<1>4. ASSUME Legacy(p) PROVE Alone(p)
  BY <1>0, <1>4, GoIs, ReturnIs DEF StoreInv, Legacy, Places, DetectPlaces
<1>5. ASSUME ReadLegacy(p) PROVE Alone(p)
  <2>1. CASE profiles = None
    BY <1>5, <2>1, FailIs DEF StoreInv, ReadLegacy
  <2>2. CASE profiles # None
    BY <1>5, <2>2 DEF StoreInv, ReadLegacy, TypeOK, Local, Alone
  <2> QED BY <2>1, <2>2
<1>6. ASSUME Clean(p) PROVE Alone(p)
  BY <1>0, <1>6, GoIs DEF StoreInv, Clean, Places, Writing, DetectPlaces
<1>7. ASSUME Remove(p) PROVE Alone(p)
  BY <1>0, <1>7, GoIs, FailIs DEF StoreInv, Remove, Places, Writing, DetectPlaces
<1>8. ASSUME Open(p) PROVE Alone(p)
  <2>1. PICK n \in Nodes \cup {tmp} :
          at' = [at EXCEPT ![p].pc = "fill", ![p].fd = n] /\ n # None
    BY <1>8, ConfigAssumption DEF Open, NewNode, Free
  <2>2. tmp \in Nodes \cup {None}
    BY DEF StoreInv, TypeOK
  <2>a. n \in Nodes
    BY <2>1, <2>2
  <2>b. at[p] \in Local
    BY <1>0
  <2>3. [at[p] EXCEPT !.pc = "fill", !.fd = n] \in Local
    BY <2>a, <2>b DEF Local
  <2>4. at' = [at EXCEPT ![p] = [at[p] EXCEPT !.pc = "fill", !.fd = n]]
    BY <2>1
  <2> QED BY <2>3, <2>4 DEF StoreInv, TypeOK, Alone
<1>9. ASSUME Fill(p) PROVE Alone(p)
  BY <1>0, <1>9, GoIs DEF StoreInv, Fill, Places, Writing, DetectPlaces
<1>10. ASSUME Rename(p) PROVE Alone(p)
  <2>1. CASE tmp = None
    BY <1>10, <2>1, FailIs DEF StoreInv, Rename
  <2>2. CASE tmp # None /\ at[p].phase = "detect"
    BY <1>10, <2>2, GoIs DEF StoreInv, Rename, Places, DetectPlaces, Migrating
  <2>3. CASE tmp # None /\ at[p].phase # "detect"
    BY <1>10, <2>3 DEF StoreInv, Rename, TypeOK, Local, Alone
  <2> QED BY <2>1, <2>2, <2>3
<1>11. ASSUME Bak(p) PROVE Alone(p)
  BY <1>0, <1>11, GoIs DEF StoreInv, Bak, Places, Migrating, DetectPlaces
<1>12. ASSUME Keep(p) PROVE Alone(p)
  BY <1>0, <1>12, PlaceIs, FailIs, ReturnIs DEF StoreInv, Keep, At, Sound, Migrating
<1>13. ASSUME Drop(p) PROVE Alone(p)
  BY <1>0, <1>13, PlaceIs, FailIs, ReturnIs DEF StoreInv, Drop, At, Sound, Migrating
<1>14. ASSUME Ask(p) PROVE Alone(p)
  <2>1. CASE End(p, "failed") \/ End(p, "dryrun")
    BY <2>1, EndIs DEF StoreInv, Outcomes
  <2>2. CASE ~(End(p, "failed") \/ End(p, "dryrun"))
    <3>1. PICK name \in Names, url \in Urls, pc \in {"unlock", "backup"}, o \in {"noop", None} :
            at' = [at EXCEPT ![p].pc = pc, ![p].outcome = o, ![p].want = Built(name, url)]
      BY <1>14, <2>2 DEF Ask
    <3>2. Built(name, url) \in Config
      BY DEF Built, Config
    <3>3. at' = [at EXCEPT ![p] = [at[p] EXCEPT !.pc = pc, !.outcome = o, !.want = Built(name, url)]]
      BY <3>1
    <3>4. [at[p] EXCEPT !.pc = pc, !.outcome = o, !.want = Built(name, url)] \in Local
      BY <1>0, <3>2 DEF Local
    <3> QED BY <3>3, <3>4 DEF StoreInv, TypeOK, Alone
  <2> QED BY <2>1, <2>2
<1>15. ASSUME Backup(p) PROVE Alone(p)
  <2>1. CASE config = None
    <3>1. at' = [at EXCEPT ![p] = [at[p] EXCEPT !.pc = "clean", !.phase = "apply"]]
      BY <1>15, <2>1 DEF Backup
    <3>2. [at[p] EXCEPT !.pc = "clean", !.phase = "apply"] \in Local
      BY <1>0 DEF Local
    <3> QED BY <3>1, <3>2 DEF StoreInv, TypeOK, Alone
  <2>2. CASE config # None
    BY <1>0, <1>15, <2>2, GoIs DEF StoreInv, Backup, Places, DetectPlaces
  <2> QED BY <2>1, <2>2
<1>16. ASSUME Copy(p) PROVE Alone(p)
  BY <1>0, <1>16, PlaceIs DEF StoreInv, Copy, At, TypeOK, Local, Sound, Writing, ApplyPlaces,
     Ended
<1>17. ASSUME Restore(p) PROVE Alone(p)
  BY <1>0, <1>17, GoIs DEF StoreInv, Restore, Places, ApplyPlaces
<1>18. ASSUME Refill(p) PROVE Alone(p)
  BY <1>0, <1>18, EndIs DEF StoreInv, Refill, Outcomes
<1>19. ASSUME Settle(p) PROVE Alone(p)
  BY <1>0, <1>19, GoIs, EndIs DEF StoreInv, Settle, Outcomes, Places, ReloadPlaces
<1>20. ASSUME Own(p) PROVE Alone(p)
  BY <1>0, <1>20, EndIs DEF StoreInv, Own, Outcomes
<1>21. ASSUME Unlock(p) PROVE Alone(p)
  <2>1. at[p].outcome \in Outcomes
    BY <1>0, PlaceIs DEF Local, Outcomes
  <2> QED BY <1>0, <1>21, <2>1, GoneIs DEF StoreInv, Unlock, Ended
<1>22. ASSUME IoFails(p) PROVE Alone(p)
  BY <1>0, <1>22, FailIs, EndIs DEF StoreInv, IoFails, Outcomes
<1>23. ASSUME WriteFails(p) PROVE Alone(p)
  BY <1>0, <1>23, FailIs DEF StoreInv, WriteFails
<1>24. ASSUME RestoreFails(p) PROVE Alone(p)
  BY <1>0, <1>24, EndIs DEF StoreInv, RestoreFails, Outcomes
<1>25. ASSUME Crash(p) PROVE Alone(p)
  BY <1>0, <1>25, GoneIs DEF StoreInv, Crash, Outcomes, Ended
<1> QED BY <1>1, <1>2, <1>3, <1>4, <1>5, <1>6, <1>7, <1>8, <1>9, <1>10, <1>11, <1>12,
   <1>13, <1>14, <1>15, <1>16, <1>17, <1>18, <1>19, <1>20, <1>21, <1>22, <1>23, <1>24,
   <1>25 DEF Step, Fault, Load, Write, Setup

-----------------------------------------------------------------------------
(* Types, places, and the lock. *)

\* Only process p moves, config.toml stays, and so do the rollback copy, unless
\* p holds the lock, and the lock, unless p gives it up: what has to be
\* checked is p.
LEMMA StoreFrame ==
  ASSUME StoreInv, NEW p \in Procs, Alone(p), Sound(p, at[p])',
         config # None => config' # None,
         lock' = lock \/ (p \in Setups /\ lock' = p /\ lock = None) \/ (p \in Setups /\ lock = p),
         rollback' = rollback \/ (p \in Setups /\ lock = p),
         p \in Setups /\ at'[p].pc \notin {"lock"} \cup Ended => lock' = p,
         p \in Setups /\ at'[p].saved /\ at'[p].pc \notin {"own", "unlock"} => rollback' # None
  PROVE  PlaceInv' /\ LockInv' /\ RollbackKept'
<1>1. PlaceInv'
  <2>1. ASSUME NEW q \in Procs \ {p} PROVE Sound(q, at[q])'
    BY <2>1 DEF StoreInv, PlaceInv, Alone, Sound
  <2> QED BY <2>1 DEF PlaceInv
<1>2. LockInv'
  <2>1. ASSUME NEW q \in Setups, q # p, at'[q].pc \notin {"lock"} \cup Ended PROVE lock' = q
    <3>1. at'[q] = at[q] /\ lock = q
      BY <2>1 DEF StoreInv, LockInv, Alone, Procs
    <3> QED BY <2>1, <3>1, ConfigAssumption
  <2> QED BY <2>1 DEF LockInv
<1>3. RollbackKept'
  <2>1. ASSUME NEW q \in Setups, q # p, at[q].saved, at[q].pc \notin {"own", "unlock"}
        PROVE rollback' # None
    <3>1. at[q].phase \in {"apply", "reload"}
      BY <2>1 DEF StoreInv, TypeOK, Local, PlaceInv, Sound, Procs
    <3>2. at[q].pc \notin {"lock"} \cup Ended
      BY <2>1, <3>1 DEF StoreInv, PlaceInv, Sound, Procs, ApplyPlaces, ReloadPlaces, Writing, Ended
    <3> QED BY <2>1, <3>2 DEF StoreInv, LockInv, RollbackKept
  <2> QED BY <2>1 DEF RollbackKept, Alone, Procs
<1> QED BY <1>1, <1>2, <1>3

\* Every step keeps types, places, the lock and the rollback copy.
LEMMA NextStore == StoreInv /\ [Next]_vars => StoreInv'
<1> SUFFICES ASSUME StoreInv, [Next]_vars PROVE StoreInv'
  OBVIOUS
<1>0. scene' = scene
  BY SameScene
<1> USE <1>0
<1>1. ASSUME NEW p \in Procs, Step(p) \/ Fault(p) PROVE StoreInv'
  <2> USE ConfigAssumption
  <2>0. Alone(p)
    BY <1>1, StepAlone
  <2>1. CASE p \in Setups /\ Acquire(p)
    <3>1. TypeOK'
      BY <2>1, <2>0, PlaceIs DEF StoreInv, TypeOK, Acquire, At, files, legacy, Alone
    <3>2. PlaceInv'
      BY <2>1 DEF StoreInv, TypeOK, Local, Acquire, At, files, Gone, Fresh, PlaceInv, Sound,
         Writing, Migrating, DetectPlaces, ApplyPlaces, ReloadPlaces, Ended
    <3>3. LockInv' /\ RollbackKept'
      BY <2>1 DEF StoreInv, TypeOK, Local, Acquire, At, Procs, Gone, Fresh, LockInv,
         RollbackKept, Ended
    <3> QED BY <3>1, <3>2, <3>3 DEF StoreInv
  <2>2. CASE Read(p)
    <3>0. /\ config \in Nodes /\ data[config] \in Config \cup {Torn}
          /\ at[p].pc \in {"exists", "again"} /\ config' = config /\ lock' = lock /\ rollback' = rollback
      BY <2>2 DEF StoreInv, TypeOK, Read, files
    <3>1. Sound(p, at[p])' /\ (p \in Setups => at'[p].saved = at[p].saved)
      <4>1. CASE data[config] = Torn
        <5>1. Fail(p)
          BY <2>2, <4>1 DEF Read
        <5>2. /\ (p \in Setups => at'[p].saved = at[p].saved)
              /\ \/ p \notin Setups /\ NoLocals(p) /\ at'[p].pc = "done"
                 \/ p \in Setups /\ SameLocals(p) /\ at'[p].pc = "unlock"
                 \/ /\ p \in Setups /\ SameLocals(p) /\ at'[p].pc = "restore"
                    /\ at[p].phase # "detect" /\ at[p].saved
          BY <3>0, <5>1, PlaceIs, FailIs DEF StoreInv, SameLocals, Ends, Sound, Procs
        <5> QED BY <3>0, <5>2, PlaceIs DEF SameLocals, NoLocals, Sound, Writing, Migrating,
           SetupOnly, DetectPlaces, ApplyPlaces, ReloadPlaces, Ended
      <4>2. CASE data[config] # Torn
        <5>1. Return(p, data[config]) /\ data[config] \in Config
          BY <2>2, <3>0, <4>2 DEF Read
        <5> QED BY <3>0, <5>1, PlaceIs, ReturnIs, ConfigAssumption DEF StoreInv, NoLocals,
           Sound, Writing, Migrating, SetupOnly, DetectPlaces, ApplyPlaces, ReloadPlaces,
           Ended, Procs
      <4> QED BY <4>1, <4>2
    <3>5. p \in Setups => lock = p /\ (at'[p].saved => rollback # None)
      BY <3>0, <3>1, PlaceIs DEF StoreInv, LockInv, RollbackKept, Sound, DetectPlaces, Ended
    <3>2. TypeOK'
      BY <2>2, <2>0, PlaceIs DEF StoreInv, TypeOK, Read, At, files, legacy, Alone
    <3>3. PlaceInv' /\ LockInv' /\ RollbackKept'
      BY <2>2, <2>0, <3>0, <3>1, <3>5, StoreFrame DEF Read, files
    <3> QED BY <3>2, <3>3 DEF StoreInv
  <2>3. CASE Absent(p)
    <3>1. TypeOK'
      BY <2>3, <2>0, PlaceIs DEF StoreInv, TypeOK, Absent, At, files, legacy, Alone
    <3>2. PlaceInv'
      BY <2>3 DEF StoreInv, Absent, Go, PlaceInv, Sound, Writing, Migrating, SetupOnly,
         DetectPlaces, ApplyPlaces
    <3>3. LockInv' /\ RollbackKept'
      BY <2>3 DEF StoreInv, Absent, Go, LockInv, RollbackKept, Ended
    <3> QED BY <3>1, <3>2, <3>3 DEF StoreInv
  <2>4. CASE Legacy(p)
    <3>1. TypeOK'
      BY <2>4, <2>0, PlaceIs DEF StoreInv, TypeOK, Legacy, At, files, legacy, Alone
    <3>2. PlaceInv'
      BY <2>4 DEF StoreInv, TypeOK, Local, Legacy, At, files, Return, End, Gone, Fresh, Go,
         PlaceInv, Sound, Writing, Migrating, SetupOnly, DetectPlaces, ApplyPlaces,
         ReloadPlaces, Ended
    <3>3. LockInv' /\ RollbackKept'
      BY <2>4 DEF StoreInv, TypeOK, Local, Legacy, At, Procs, Return, End, Gone, Go, LockInv,
         RollbackKept, Ended
    <3> QED BY <3>1, <3>2, <3>3 DEF StoreInv
  <2>5. CASE ReadLegacy(p)
    <3>1. TypeOK'
      BY <2>5, <2>0, PlaceIs DEF StoreInv, TypeOK, ReadLegacy, At, files, legacy, Alone
    <3>2. PlaceInv'
      BY <2>5 DEF StoreInv, TypeOK, Local, ReadLegacy, At, files, Fail, End, Gone, Fresh,
         PlaceInv, Sound, Writing, Migrating, SetupOnly, DetectPlaces, ApplyPlaces,
         ReloadPlaces, Ended
    <3>3. LockInv' /\ RollbackKept'
      BY <2>5 DEF StoreInv, TypeOK, Local, ReadLegacy, At, Procs, Fail, End, Gone, Go,
         LockInv, RollbackKept, Ended
    <3> QED BY <3>1, <3>2, <3>3 DEF StoreInv
  <2>6. CASE Clean(p)
    <3>1. TypeOK'
      BY <2>6, <2>0, PlaceIs DEF StoreInv, TypeOK, Clean, At, files, legacy, Alone
    <3>2. PlaceInv'
      BY <2>6 DEF StoreInv, Clean, At, files, Go, PlaceInv, Sound, Writing, Migrating,
         SetupOnly, DetectPlaces, ApplyPlaces, ReloadPlaces
    <3>3. LockInv' /\ RollbackKept'
      BY <2>6 DEF StoreInv, Clean, At, Go, LockInv, RollbackKept, Ended
    <3> QED BY <3>1, <3>2, <3>3 DEF StoreInv
  <2>7. CASE Remove(p)
    <3>1. TypeOK'
      BY <2>7, <2>0, PlaceIs DEF StoreInv, TypeOK, Remove, At, files, legacy, Alone
    <3>2. PlaceInv'
      BY <2>7 DEF StoreInv, TypeOK, Local, Remove, At, Fail, End, Gone, Fresh, Go, PlaceInv,
         Sound, Writing, Migrating, SetupOnly, DetectPlaces, ApplyPlaces, ReloadPlaces, Ended
    <3>3. LockInv' /\ RollbackKept'
      BY <2>7 DEF StoreInv, TypeOK, Local, Remove, At, Procs, Fail, End, Gone, Go, LockInv,
         RollbackKept, Ended
    <3> QED BY <3>1, <3>2, <3>3 DEF StoreInv
  <2>8. CASE Open(p)
    <3>1. TypeOK'
      BY <2>8, <2>0, PlaceIs DEF StoreInv, TypeOK, Open, At, files, legacy, Alone, NewNode, Free
    <3>2. PlaceInv'
      BY <2>8 DEF StoreInv, TypeOK, Open, At, NewNode, Free, PlaceInv, Sound, Writing, Migrating,
         SetupOnly, DetectPlaces, ApplyPlaces, ReloadPlaces
    <3>3. LockInv' /\ RollbackKept'
      BY <2>8 DEF StoreInv, TypeOK, Open, At, Procs, LockInv, RollbackKept, Ended
    <3> QED BY <3>1, <3>2, <3>3 DEF StoreInv
  <2>9. CASE Fill(p)
    <3>1. TypeOK'
      BY <2>9, <2>0, PlaceIs DEF StoreInv, TypeOK, Fill, At, legacy, Alone, Writing, Sound
    <3>2. PlaceInv'
      BY <2>9 DEF StoreInv, Fill, At, Go, PlaceInv, Sound, Writing, Migrating, SetupOnly,
         DetectPlaces, ApplyPlaces, ReloadPlaces
    <3>3. LockInv' /\ RollbackKept'
      BY <2>9 DEF StoreInv, Fill, At, Go, LockInv, RollbackKept, Ended
    <3> QED BY <3>1, <3>2, <3>3 DEF StoreInv
  <2>10. CASE Rename(p)
    <3>1. TypeOK'
      BY <2>10, <2>0, PlaceIs DEF StoreInv, TypeOK, Rename, At, files, legacy, Alone
    <3>2. PlaceInv'
      BY <2>10 DEF StoreInv, TypeOK, Local, Rename, At, files, Fail, End, Gone, Fresh, Go,
         PlaceInv, Sound, Writing, Migrating, SetupOnly, DetectPlaces, ApplyPlaces,
         ReloadPlaces, Ended
    <3>3. LockInv' /\ RollbackKept'
      BY <2>10 DEF StoreInv, TypeOK, Local, Rename, At, Procs, Fail, End, Gone, Go, LockInv,
         RollbackKept, Ended
    <3> QED BY <3>1, <3>2, <3>3 DEF StoreInv
  <2>11. CASE Bak(p)
    <3>1. TypeOK'
      BY <2>11, <2>0, PlaceIs DEF StoreInv, TypeOK, Bak, At, files, legacy, Alone
    <3>2. PlaceInv'
      BY <2>11 DEF StoreInv, Bak, At, files, Go, PlaceInv, Sound, Writing, Migrating,
         SetupOnly, DetectPlaces, ApplyPlaces, ReloadPlaces
    <3>3. LockInv' /\ RollbackKept'
      BY <2>11 DEF StoreInv, Bak, At, Go, LockInv, RollbackKept, Ended
    <3> QED BY <3>1, <3>2, <3>3 DEF StoreInv
  <2>12. CASE Keep(p)
    <3>1. TypeOK'
      BY <2>12, <2>0, PlaceIs DEF StoreInv, TypeOK, Keep, At, files, legacy, Alone
    <3>2. PlaceInv'
      BY <2>12 DEF StoreInv, TypeOK, Local, Keep, At, files, Procs, Return, Fail, End, Gone,
         Fresh, Go, PlaceInv, Sound, Writing, Migrating, SetupOnly, DetectPlaces, ApplyPlaces,
         ReloadPlaces, Ended
    <3>3. LockInv' /\ RollbackKept'
      BY <2>12 DEF StoreInv, TypeOK, Local, Keep, At, Procs, Return, Fail, End, Gone, Go,
         LockInv, RollbackKept, SetupOnly, Ended
    <3> QED BY <3>1, <3>2, <3>3 DEF StoreInv
  <2>13. CASE Drop(p)
    <3>1. TypeOK'
      BY <2>13, <2>0, PlaceIs DEF StoreInv, TypeOK, Drop, At, files, legacy, Alone
    <3>2. PlaceInv'
      BY <2>13 DEF StoreInv, TypeOK, Local, Drop, At, files, Procs, Return, Fail, End, Gone,
         Fresh, Go, PlaceInv, Sound, Writing, Migrating, SetupOnly, DetectPlaces, ApplyPlaces,
         ReloadPlaces, Ended
    <3>3. LockInv' /\ RollbackKept'
      BY <2>13 DEF StoreInv, TypeOK, Local, Drop, At, Procs, Return, Fail, End, Gone, Go,
         LockInv, RollbackKept, SetupOnly, Ended
    <3> QED BY <3>1, <3>2, <3>3 DEF StoreInv
  <2>14. CASE p \in Setups /\ Ask(p)
    <3>0. p \in Setups /\ at[p].phase = "detect" /\ ~at[p].saved /\ lock = p
      BY <2>14, PlaceIs DEF StoreInv, Ask, At, LockInv, Sound, ApplyPlaces, ReloadPlaces,
         Writing, Ended
    <3>1. Sound(p, at[p])' /\ at'[p].pc # "lock" /\ ~at'[p].saved
      <4>1. CASE End(p, "failed") \/ End(p, "dryrun")
        <5>1. SameLocals(p) /\ at'[p].pc = "unlock"
          BY <3>0, <4>1, EndIs DEF StoreInv, Ends, Outcomes
        <5> QED BY <3>0, <5>1, ConfigAssumption DEF SameLocals, Sound, DetectPlaces, Writing,
           Migrating
      <4>2. CASE ~(End(p, "failed") \/ End(p, "dryrun"))
        <5>1. PICK name \in Names, url \in Urls, pc \in {"unlock", "backup"}, o \in {"noop", None} :
                at' = [at EXCEPT ![p].pc = pc, ![p].outcome = o, ![p].want = Built(name, url)]
          BY <2>14, <4>2 DEF Ask
        <5>2. Built(name, url) \in Config
          BY DEF Built, Config
        <5>3. at' = [at EXCEPT ![p] = [at[p] EXCEPT !.pc = pc, !.outcome = o, !.want = Built(name, url)]]
          BY <5>1
        <5> DEFINE l == [at[p] EXCEPT !.pc = pc, !.outcome = o, !.want = Built(name, url)]
        <5>b. at[p] \in Local
          BY <3>0, PlaceIs
        <5>a. l \in Local /\ l.phase = "detect" /\ l.saved = at[p].saved /\ l.want \in Config
              /\ l.pc \in {"unlock", "backup"}
          BY <3>0, <5>2, <5>b DEF Local
        <5> HIDE DEF l
        <5>4. /\ at' \in [Procs -> Local] /\ \A q \in Procs \ {p} : at'[q] = at[q]
              /\ at'[p].phase = "detect" /\ at'[p].saved = at[p].saved
              /\ at'[p].want \in Config /\ at'[p].pc \in {"unlock", "backup"}
          BY <3>0, <5>a, <5>3 DEF l, StoreInv, TypeOK
        <5> QED BY <3>0, <5>4, ConfigAssumption DEF Sound, DetectPlaces, Writing, Migrating,
                   SetupOnly, ApplyPlaces, ReloadPlaces, Ended
      <4> QED BY <4>1, <4>2
    <3>2. TypeOK'
      BY <2>14, <2>0, PlaceIs DEF StoreInv, TypeOK, Ask, At, files, legacy, Alone
    <3>3. PlaceInv' /\ LockInv' /\ RollbackKept'
      BY <2>14, <2>0, <3>0, <3>1, StoreFrame DEF Ask, files
    <3> QED BY <3>2, <3>3 DEF StoreInv
  <2>15. CASE p \in Setups /\ Backup(p)
    <3>1. TypeOK'
      BY <2>15, <2>0, PlaceIs DEF StoreInv, TypeOK, Backup, At, files, legacy, Alone
    <3>2. PlaceInv'
      BY <2>15 DEF StoreInv, TypeOK, Local, Backup, At, files, Go, PlaceInv, Sound, Writing,
         DetectPlaces, ApplyPlaces, ReloadPlaces
    <3>3. LockInv' /\ RollbackKept'
      BY <2>15 DEF StoreInv, TypeOK, Local, Backup, At, Procs, Go, LockInv, RollbackKept,
         Ended
    <3> QED BY <3>1, <3>2, <3>3 DEF StoreInv
  <2>16. CASE p \in Setups /\ Copy(p)
    <3>1. TypeOK'
      BY <2>16, <2>0, PlaceIs DEF StoreInv, TypeOK, Copy, At, files, legacy, Alone, Sound
    <3>2. PlaceInv'
      BY <2>16 DEF StoreInv, TypeOK, Local, Copy, At, files, Procs, PlaceInv, Sound, Writing,
         Migrating, SetupOnly, DetectPlaces, ApplyPlaces, ReloadPlaces, Ended
    <3>3. LockInv' /\ RollbackKept'
      BY <2>16 DEF StoreInv, TypeOK, Local, Copy, At, PlaceInv, Sound, Writing, ApplyPlaces
    <3> QED BY <3>1, <3>2, <3>3 DEF StoreInv
  <2>17. CASE p \in Setups /\ Restore(p)
    <3>1. TypeOK'
      BY <2>17, <2>0, PlaceIs DEF StoreInv, TypeOK, Restore, At, files, legacy, Alone
    <3>2. PlaceInv'
      BY <2>17 DEF StoreInv, Restore, At, Go, PlaceInv, Sound, ApplyPlaces, ReloadPlaces
    <3>3. LockInv' /\ RollbackKept'
      BY <2>17 DEF StoreInv, Restore, At, Go, LockInv, RollbackKept, Ended
    <3> QED BY <3>1, <3>2, <3>3 DEF StoreInv
  <2>18. CASE p \in Setups /\ Refill(p)
    <3>1. TypeOK'
      BY <2>18, <2>0, PlaceIs DEF StoreInv, TypeOK, Refill, At, legacy, Alone, Sound,
         RollbackKept
    <3>2. PlaceInv'
      BY <2>18 DEF StoreInv, TypeOK, Local, Refill, At, End, PlaceInv, Sound, ApplyPlaces,
         ReloadPlaces
    <3>3. LockInv' /\ RollbackKept'
      BY <2>18 DEF StoreInv, TypeOK, Local, Refill, At, Procs, End, PlaceInv, LockInv,
         RollbackKept, Sound, Writing, ApplyPlaces, ReloadPlaces, Ended
    <3> QED BY <3>1, <3>2, <3>3 DEF StoreInv
  <2>19. CASE p \in Setups /\ Settle(p)
    <3>1. TypeOK'
      BY <2>19, <2>0, PlaceIs DEF StoreInv, TypeOK, Settle, At, files, legacy, Alone
    <3>2. PlaceInv'
      BY <2>19 DEF StoreInv, TypeOK, Local, Settle, At, files, End, Go, PlaceInv, Sound,
         Writing, Migrating, DetectPlaces, ApplyPlaces, ReloadPlaces, Ended
    <3>3. LockInv' /\ RollbackKept'
      BY <2>19 DEF StoreInv, TypeOK, Local, Settle, At, Procs, End, Go, PlaceInv, LockInv,
         RollbackKept, Sound, Writing, ApplyPlaces, ReloadPlaces, Ended
    <3> QED BY <3>1, <3>2, <3>3 DEF StoreInv
  <2>20. CASE p \in Setups /\ Own(p)
    <3>1. TypeOK'
      BY <2>20, <2>0, PlaceIs DEF StoreInv, TypeOK, Own, At, files, legacy, Alone, Sound,
         Config
    <3>2. PlaceInv'
      BY <2>20 DEF StoreInv, TypeOK, Local, Own, files, End, PlaceInv, Sound, Writing,
         Migrating, DetectPlaces, ApplyPlaces, ReloadPlaces
    <3>3. LockInv' /\ RollbackKept'
      BY <2>20 DEF StoreInv, TypeOK, Local, Own, At, Procs, End, LockInv, RollbackKept, Ended
    <3> QED BY <3>1, <3>2, <3>3 DEF StoreInv
  <2>21. CASE p \in Setups /\ Unlock(p)
    <3>1. TypeOK'
      BY <2>21, <2>0, PlaceIs DEF StoreInv, TypeOK, Unlock, At, files, legacy, Alone
    <3>2. PlaceInv'
      BY <2>21 DEF StoreInv, Unlock, files, Gone, Fresh, PlaceInv, Sound, Writing, Migrating,
         DetectPlaces, Ended
    <3>3. LockInv' /\ RollbackKept'
      BY <2>21 DEF StoreInv, TypeOK, Unlock, At, Gone, Fresh, LockInv, RollbackKept, Ended
    <3> QED BY <3>1, <3>2, <3>3 DEF StoreInv
  <2>22. CASE IoFails(p)
    <3>1. TypeOK'
      BY <2>22, <2>0, PlaceIs DEF StoreInv, TypeOK, IoFails, At, files, legacy, Alone
    <3>2. PlaceInv'
      BY <2>22 DEF StoreInv, TypeOK, Local, IoFails, At, files, Procs, Fail, End, Gone, Fresh,
         Go, PlaceInv, Sound, Writing, Migrating, SetupOnly, DetectPlaces, ApplyPlaces,
         ReloadPlaces, Ended
    <3>3. LockInv' /\ RollbackKept'
      BY <2>22 DEF StoreInv, TypeOK, Local, IoFails, Procs, Fail, End, Gone, Go, LockInv,
         RollbackKept, Sound, Writing, SetupOnly, DetectPlaces, ApplyPlaces, ReloadPlaces,
         Ended
    <3> QED BY <3>1, <3>2, <3>3 DEF StoreInv
  <2>23. CASE WriteFails(p)
    <3>1. TypeOK'
      BY <2>23, <2>0, PlaceIs DEF StoreInv, TypeOK, WriteFails, At, files, legacy, Alone, Sound
    <3>2. PlaceInv'
      BY <2>23 DEF StoreInv, TypeOK, Local, WriteFails, At, Fail, End, Gone, Fresh, Go,
         PlaceInv, Sound, Writing, Migrating, SetupOnly, DetectPlaces, ApplyPlaces,
         ReloadPlaces, Ended
    <3>3. LockInv' /\ RollbackKept'
      BY <2>23 DEF StoreInv, TypeOK, Local, WriteFails, At, Procs, Fail, End, Gone, Go,
         LockInv, RollbackKept, Ended
    <3> QED BY <3>1, <3>2, <3>3 DEF StoreInv
  <2>24. CASE RestoreFails(p)
    <3>1. TypeOK'
      BY <2>24, <2>0, PlaceIs DEF StoreInv, TypeOK, RestoreFails, At, files, legacy, Alone
    <3>2. PlaceInv'
      BY <2>24 DEF StoreInv, TypeOK, Local, RestoreFails, At, files, Procs, End, PlaceInv,
         Sound, ApplyPlaces, ReloadPlaces
    <3>3. LockInv' /\ RollbackKept'
      BY <2>24 DEF StoreInv, TypeOK, Local, RestoreFails, At, Procs, End, PlaceInv, LockInv,
         RollbackKept, Sound, Writing, ApplyPlaces, ReloadPlaces, Ended
    <3> QED BY <3>1, <3>2, <3>3 DEF StoreInv
  <2>25. CASE Crash(p)
    <3>1. TypeOK'
      BY <2>25, <2>0, PlaceIs DEF StoreInv, TypeOK, Crash, At, files, legacy, Alone
    <3>2. PlaceInv'
      BY <2>25 DEF StoreInv, Crash, files, Gone, Fresh, PlaceInv, Sound, Writing, Migrating,
         SetupOnly, DetectPlaces, Ended
    <3>3. LockInv' /\ RollbackKept'
      BY <2>25 DEF StoreInv, Crash, Gone, Fresh, LockInv, RollbackKept, Ended
    <3> QED BY <3>1, <3>2, <3>3 DEF StoreInv
  <2> QED
    BY <1>1, <2>1, <2>2, <2>3, <2>4, <2>5, <2>6, <2>7, <2>8, <2>9, <2>10, <2>11, <2>12,
       <2>13, <2>14, <2>15, <2>16, <2>17, <2>18, <2>19, <2>20, <2>21, <2>22, <2>23, <2>24,
       <2>25 DEF
       Step, Fault, Load, Write, Setup
<1>2. ASSUME ClearLock PROVE StoreInv'
  <2>1. at[lock].pc = "dead" /\ UNCHANGED <<files, legacy, rollback, ownership, at>> /\ lock' = None
    BY <1>2 DEF ClearLock, At
  <2>2. \A p \in Setups : at[p].pc \in {"lock"} \cup Ended
    BY <2>1 DEF StoreInv, LockInv, Ended
  <2> QED BY <2>1, <2>2 DEF StoreInv, TypeOK, PlaceInv, Sound, LockInv, RollbackKept, files, legacy
<1>3. CASE UNCHANGED vars
  <2>1. TypeOK'
    BY <1>3 DEF vars, files, legacy, StoreInv, TypeOK
  <2>2. PlaceInv' /\ LockInv' /\ RollbackKept'
    BY <1>3 DEF vars, StoreInv, PlaceInv, Sound, LockInv, RollbackKept
  <2> QED BY <2>1, <2>2 DEF StoreInv
<1> QED BY <1>1, <1>2, <1>3 DEF Next

\* The directories that a process may find, and processes that have not begun.
LEMMA InitStore == Init => StoreInv
<1> SUFFICES ASSUME Init PROVE StoreInv
  OBVIOUS
<1> USE ConfigAssumption
<1>1. /\ tmp = None /\ rollback = None /\ lock = None /\ ownership = None
      /\ at = [p \in Procs |-> Fresh(First(p))]
      /\ profiles \in {None, "v1"} /\ bak \in {None, "older"}
      /\ config \in Nodes \cup {None} /\ data \in [Nodes -> Config \cup {Torn}]
      /\ scene \in Scenes
  BY DEF Init
<1>0. \A p \in Procs : /\ First(p) \in {"lock", "exists", "done"}
                       /\ First(p) = "lock" => p \in Setups
  BY DEF First
<1>2. ASSUME NEW pc \in {"lock", "exists", "done"}
      PROVE  Fresh(pc) \in Local /\ Fresh(pc).pc = pc /\ Fresh(pc).phase = "detect"
             /\ Fresh(pc).saved = FALSE
  BY <1>2 DEF Fresh, Local, Ended
<1>3. TypeOK
  BY <1>0, <1>1, <1>2 DEF TypeOK
<1>4. PlaceInv
  <2>1. \A p \in Procs : /\ at[p].pc = First(p)
                         /\ at[p].phase = "detect" /\ at[p].saved = FALSE
    BY <1>0, <1>1, <1>2
  <2> QED BY <1>0, <2>1 DEF PlaceInv, Sound, DetectPlaces, SetupOnly, Writing, Migrating, Procs,
                            Ended
<1>5. LockInv /\ RollbackKept
  <2>1. ASSUME NEW p \in Setups PROVE at[p].pc \in {"lock", "done"} /\ ~at[p].saved
    BY <1>0, <1>1, <1>2 DEF Procs, First
  <2> QED BY <2>1 DEF LockInv, RollbackKept, Ended
<1> QED BY <1>3, <1>4, <1>5 DEF StoreInv

\* For any number of setups and commands, faults and kills every variable keeps
\* its type.
THEOREM ConfigTypes == Spec => []TypeOK
<1>1. StoreInv => TypeOK
  BY DEF StoreInv
<1> QED BY InitStore, NextStore, <1>1, PTL DEF Spec

-----------------------------------------------------------------------------
(* Directories that need no migration.                                      *)

\* While a setup is under way everybody else waits or only looks.
LEMMA Elsewhere ==
  ASSUME StoreInv, PrivateInv, NEW p \in Setups, lock = p, NEW q \in Procs \ {p}
  PROVE  /\ at[q].phase = "detect" /\ at[q].saved = FALSE
         /\ at[q].pc \in {"lock", "exists", "legacy"} \cup Ended
         /\ q \in Setups => at[q].pc # "legacy"
<1>1. Sound(q, at[q]) /\ Private(q, at[q]) /\ at[q].phase \in {"detect", "apply", "reload"}
      /\ at[q].saved \in BOOLEAN /\ at[q] \in Local
  BY PlaceIs DEF PrivateInv, Local
<1>2. CASE q \in Setups
  <2>1. at[q].pc \in {"lock"} \cup Ended
    BY <1>2 DEF StoreInv, LockInv
  <2> QED BY <1>1, <2>1 DEF Sound, ApplyPlaces, ReloadPlaces, Writing, Ended
<1>3. CASE q \in Loaders
  BY <1>1, <1>3, ConfigAssumption DEF Sound, Private, DetectPlaces, SetupOnly, Writing,
     Migrating, Ended
<1> QED BY <1>2, <1>3 DEF Procs

\* What has to be checked is the process that moves.
LEMMA PrivateFrame ==
  ASSUME StoreInv, PrivateInv, NEW p \in Procs, Alone(p), Private(p, at[p])', UNCHANGED profiles,
         UNCHANGED <<config, tmp, data, rollback>> \/ (p \in Setups /\ lock = p),
         tmp' # None => tmp' # config', rollback' # None => config' # None
  PROVE  PrivateInv'
<1>1. ASSUME NEW q \in Procs \ {p} PROVE Private(q, at[q])'
  <2>1. at'[q] = at[q]
    BY DEF Alone
  <2>2. CASE UNCHANGED <<config, tmp, data, rollback>>
    BY <2>1, <2>2 DEF PrivateInv, Private, Holds, IsThere
  <2>3. CASE p \in Setups /\ lock = p
    <3>1. /\ at[q].phase = "detect" /\ at[q].saved = FALSE
          /\ at[q].pc \in {"lock", "exists", "legacy"} \cup Ended
          /\ q \in Setups => at[q].pc # "legacy"
      BY <2>3, Elsewhere
    <3> QED BY <2>1, <3>1 DEF Private, Writing, Migrating, Ended
  <2> QED BY <2>2, <2>3
<1> QED BY <1>1 DEF PrivateInv

\* Whoever writes is a setup that holds the lock.
LEMMA WriterIs ==
  ASSUME StoreInv, PrivateInv, NEW p \in Procs,
         at[p].pc \in Writing \cup Migrating \cup {"readv1", "again"} \cup (SetupOnly \ {"lock"})
  PROVE  /\ p \in Setups /\ lock = p
         /\ at[p].pc \in Writing => at[p].phase = "apply"
         /\ at[p].pc \notin Migrating \cup {"readv1", "again"}
<1>1. Sound(p, at[p]) /\ Private(p, at[p]) /\ at[p].phase \in {"detect", "apply", "reload"}
  BY PlaceIs DEF PrivateInv
<1>2. p \in Setups
  BY <1>1 DEF Sound, Private, Procs, DetectPlaces, SetupOnly, Writing, Migrating, Ended
<1>3. at[p].pc \notin {"lock"} \cup Ended
  BY DEF Writing, Migrating, SetupOnly, Ended
<1>4. lock = p
  BY <1>2, <1>3 DEF StoreInv, LockInv
<1> QED BY <1>1, <1>2, <1>4 DEF Sound, Private, ApplyPlaces, ReloadPlaces, Writing, Migrating

\* Nobody else writes, and so what a setup relies on stays.
LEMMA NextPrivate == StoreInv /\ PrivateInv /\ [Next]_vars => PrivateInv'
<1> SUFFICES ASSUME StoreInv, PrivateInv, [Next]_vars PROVE PrivateInv'
  OBVIOUS
<1>1. ASSUME NEW p \in Procs, Step(p) \/ Fault(p) PROVE PrivateInv'
  <2> USE ConfigAssumption
  <2>0. Alone(p) /\ at[p] \in Local /\ Sound(p, at[p]) /\ Private(p, at[p])
        /\ at[p].phase \in {"detect", "apply", "reload"}
    BY <1>1, StepAlone, PlaceIs DEF PrivateInv
  <2>1. CASE p \in Setups /\ Acquire(p)
    <3>1. Private(p, at[p])'
      BY <2>1, <2>0 DEF StoreInv, TypeOK, Local, Sound, Acquire, At, Gone, Fresh, Private,
         Writing, Migrating, ReloadPlaces
    <3> QED
      BY <2>1, <2>0, <3>1, PrivateFrame DEF Acquire, files, legacy, PrivateInv
  <2>2. CASE Read(p)
    <3>1. Private(p, at[p])'
      BY <2>2, <2>0 DEF StoreInv, TypeOK, Local, Sound, Read, files, Return, Fail, End, Gone,
         Fresh, Private, Holds, IsThere, Writing, Migrating, Ended, ApplyPlaces, ReloadPlaces
    <3> QED
      BY <2>2, <2>0, <3>1, PrivateFrame DEF Read, files, legacy, PrivateInv
  <2>3. CASE Absent(p)
    <3>1. Private(p, at[p])'
      BY <2>3, <2>0 DEF StoreInv, TypeOK, Absent, At, files, Go, Private, Writing, Migrating
    <3> QED
      BY <2>3, <2>0, <3>1, PrivateFrame DEF Absent, files, legacy, PrivateInv
  <2>4. CASE Legacy(p)
    <3>1. Private(p, at[p])'
      <4>1. TypeOK /\ Return(p, None) /\ UNCHANGED <<config, tmp, data, rollback>>
        BY <2>4 DEF Legacy, PrivateInv, StoreInv, files
      <4>2. /\ p \notin Setups => NoLocals(p) /\ at'[p].pc = "done"
            /\ p \in Setups /\ at[p].phase = "detect" =>
                 at'[p].pc = "ask" /\ at'[p].before = None /\ at'[p].found = None
                 /\ at'[p].phase = "detect" /\ at'[p].saved = at[p].saved
        BY <4>1, ReturnIs
      <4>3. at[p].pc = "legacy" /\ at[p].phase = "detect" /\ ~at[p].saved
        BY <2>4, <2>0 DEF Legacy, At, Sound, ApplyPlaces, ReloadPlaces, Writing
      <4>4. CASE p \in Setups
        BY <4>1, <4>2, <4>3, <4>4, <2>0 DEF Private, IsThere, Holds, Writing, Migrating
      <4>5. CASE p \notin Setups
        BY <4>2, <4>5 DEF Private, NoLocals, Writing, Migrating
      <4> QED BY <4>4, <4>5
    <3> QED
      BY <2>4, <2>0, <3>1, PrivateFrame DEF Legacy, files, legacy, PrivateInv
  <2>5. CASE ReadLegacy(p)
    BY <2>5, WriterIs DEF ReadLegacy, At, Migrating
  <2>6. CASE Clean(p)
    <3>1. Private(p, at[p])'
      BY <2>6, <2>0 DEF Clean, At, Go, Private, Writing
    <3> QED
      BY <2>6, <2>0, <3>1, PrivateFrame DEF Clean, files, legacy, PrivateInv
  <2>7. CASE Remove(p)
    <3>1. Private(p, at[p])'
      BY <2>7, <2>0 DEF StoreInv, TypeOK, Local, Remove, At, Fail, End, Gone, Fresh, Go,
         Private, Writing, Migrating
    <3>2. p \in Setups /\ lock = p
      BY <2>7, WriterIs DEF Remove, At, Writing, SetupOnly
    <3>3. (tmp' # None => tmp' # config') /\ (rollback' # None => config' # None) /\ UNCHANGED profiles
      BY <2>7, <2>0 DEF Remove, legacy, PrivateInv
    <3> QED BY <2>0, <3>1, <3>2, <3>3, PrivateFrame
  <2>8. CASE Open(p)
    <3>1. Private(p, at[p])'
      BY <2>8, <2>0 DEF StoreInv, TypeOK, Open, At, NewNode, Free, Private, Writing
    <3>2. p \in Setups /\ lock = p
      BY <2>8, WriterIs DEF Open, At, Writing, SetupOnly
    <3>3. (tmp' # None => tmp' # config') /\ (rollback' # None => config' # None) /\ UNCHANGED profiles
      BY <2>8, <2>0 DEF Open, legacy, PrivateInv, NewNode, Free
    <3> QED BY <2>0, <3>1, <3>2, <3>3, PrivateFrame
  <2>9. CASE Fill(p)
    <3>1. Private(p, at[p])'
      BY <2>9, <2>0 DEF StoreInv, TypeOK, Fill, At, Go, Private, Writing
    <3>2. p \in Setups /\ lock = p
      BY <2>9, WriterIs DEF Fill, At, Writing, SetupOnly
    <3>3. (tmp' # None => tmp' # config') /\ (rollback' # None => config' # None) /\ UNCHANGED profiles
      BY <2>9, <2>0 DEF Fill, legacy, PrivateInv
    <3> QED BY <2>0, <3>1, <3>2, <3>3, PrivateFrame
  <2>10. CASE Rename(p)
    <3>1. Private(p, at[p])'
      BY <2>10, <2>0 DEF StoreInv, TypeOK, Local, Rename, At, Private, Holds, Writing
    <3>2. p \in Setups /\ lock = p
      BY <2>10, WriterIs DEF Rename, At, Writing, SetupOnly
    <3>3. (tmp' # None => tmp' # config') /\ (rollback' # None => config' # None) /\ UNCHANGED profiles
      BY <2>10, <2>0 DEF Rename, files, legacy, PrivateInv
    <3> QED BY <2>0, <3>1, <3>2, <3>3, PrivateFrame
  <2>11. CASE Bak(p)
    BY <2>11, WriterIs DEF Bak, At, Migrating
  <2>12. CASE Keep(p)
    BY <2>12, WriterIs DEF Keep, At, Migrating
  <2>13. CASE Drop(p)
    BY <2>13, WriterIs DEF Drop, At, Migrating
  <2>14. CASE p \in Setups /\ Ask(p)
    <3>1. Private(p, at[p])'
      <4>1. CASE End(p, "failed") \/ End(p, "dryrun")
        BY <2>14, <2>0, <4>1, EndIs DEF StoreInv, Outcomes, Ends, SameLocals, Private, Ask,
           Writing, Migrating
      <4>2. CASE ~(End(p, "failed") \/ End(p, "dryrun"))
        <5>1. PICK name \in Names, url \in Urls, pc \in {"unlock", "backup"}, o \in {"noop", None} :
                at' = [at EXCEPT ![p].pc = pc, ![p].outcome = o, ![p].want = Built(name, url)]
          BY <2>14, <4>2 DEF Ask
        <5>2. /\ at'[p].pc \in {"unlock", "backup"}
              /\ at'[p].phase = at[p].phase /\ at'[p].saved = at[p].saved
              /\ at'[p].found = at[p].found /\ at'[p].before = at[p].before
          BY <5>1 DEF StoreInv, TypeOK, Local
        <5> QED BY <2>14, <2>0, <5>2 DEF Private, Ask, At, files, Holds, IsThere, Writing,
           Migrating
      <4> QED BY <4>1, <4>2
    <3> QED
      BY <2>14, <2>0, <3>1, PrivateFrame DEF Ask, files, legacy, PrivateInv
  <2>15. CASE p \in Setups /\ Backup(p)
    <3>1. Private(p, at[p])'
      BY <2>15, <2>0 DEF StoreInv, TypeOK, Local, Sound, Backup, At, files, Go, Private,
         Holds, IsThere, Writing, Migrating, ApplyPlaces, ReloadPlaces
    <3>2. p \in Setups /\ lock = p
      BY <2>15, WriterIs DEF Backup, At, Writing, SetupOnly
    <3>3. (tmp' # None => tmp' # config') /\ (rollback' # None => config' # None) /\ UNCHANGED profiles
      BY <2>15, <2>0 DEF Backup, files, legacy, PrivateInv
    <3> QED BY <2>0, <3>1, <3>2, <3>3, PrivateFrame
  <2>16. CASE p \in Setups /\ Copy(p)
    <3>1. Private(p, at[p])'
      BY <2>16, <2>0 DEF StoreInv, TypeOK, Local, Copy, At, Private, Holds, IsThere
    <3>2. p \in Setups /\ lock = p
      BY <2>16, WriterIs DEF Copy, At, Writing, SetupOnly
    <3>3. (tmp' # None => tmp' # config') /\ (rollback' # None => config' # None) /\ UNCHANGED profiles
      BY <2>16, <2>0 DEF Copy, At, files, legacy, PrivateInv, Sound
    <3> QED BY <2>0, <3>1, <3>2, <3>3, PrivateFrame
  <2>17. CASE p \in Setups /\ Restore(p)
    <3>1. Private(p, at[p])'
      BY <2>17, <2>0 DEF Sound, Restore, At, Go, Private
    <3>2. p \in Setups /\ lock = p
      BY <2>17, WriterIs DEF Restore, At, Writing, SetupOnly
    <3>3. (tmp' # None => tmp' # config') /\ (rollback' # None => config' # None) /\ UNCHANGED profiles
      BY <2>17, <2>0 DEF Restore, legacy, PrivateInv
    <3> QED BY <2>0, <3>1, <3>2, <3>3, PrivateFrame
  <2>18. CASE p \in Setups /\ Refill(p)
    <3>1. Private(p, at[p])'
      BY <2>18, <2>0 DEF StoreInv, TypeOK, Local, Sound, Refill, At, End, Private
    <3>2. p \in Setups /\ lock = p
      BY <2>18, WriterIs DEF Refill, At, Writing, SetupOnly
    <3>3. (tmp' # None => tmp' # config') /\ (rollback' # None => config' # None) /\ UNCHANGED profiles
      BY <2>18, <2>0 DEF Refill, legacy, PrivateInv
    <3> QED BY <2>0, <3>1, <3>2, <3>3, PrivateFrame
  <2>19. CASE p \in Setups /\ Settle(p)
    <3>1. Private(p, at[p])'
      BY <2>19, <2>0 DEF StoreInv, TypeOK, Local, Sound, Settle, At, files, Go, Private,
         Holds, Ended, DetectPlaces
    <3>2. p \in Setups /\ lock = p
      BY <2>19, WriterIs DEF Settle, At, Writing, SetupOnly
    <3>3. (tmp' # None => tmp' # config') /\ (rollback' # None => config' # None) /\ UNCHANGED profiles
      BY <2>19, <2>0 DEF Settle, files, legacy, PrivateInv
    <3> QED BY <2>0, <3>1, <3>2, <3>3, PrivateFrame
  <2>20. CASE p \in Setups /\ Own(p)
    <3>1. Private(p, at[p])'
      BY <2>20, <2>0 DEF StoreInv, TypeOK, Local, Own, End, Private, Writing, Migrating
    <3> QED
      BY <2>20, <2>0, <3>1, PrivateFrame DEF Own, files, legacy, PrivateInv
  <2>21. CASE p \in Setups /\ Unlock(p)
    <3>1. Private(p, at[p])'
      BY <2>21, <2>0 DEF StoreInv, TypeOK, Unlock, Gone, Fresh, Private, Writing, Migrating
    <3> QED
      BY <2>21, <2>0, <3>1, PrivateFrame DEF Unlock, files, legacy, PrivateInv
  <2>22. CASE IoFails(p)
    <3>1. Private(p, at[p])'
      BY <2>22, <2>0 DEF StoreInv, TypeOK, Local, Sound, IoFails, At, files, Fail, End, Gone,
         Fresh, Go, Private, Holds, IsThere, Writing, Migrating, Ended, DetectPlaces,
         ApplyPlaces, ReloadPlaces, SetupOnly
    <3> QED
      BY <2>22, <2>0, <3>1, PrivateFrame DEF IoFails, files, legacy, PrivateInv
  <2>23. CASE WriteFails(p)
    <3>1. Private(p, at[p])'
      BY <2>23, <2>0 DEF StoreInv, TypeOK, Local, WriteFails, At, Fail, End, Gone, Fresh, Go,
         Private, Writing, Migrating
    <3>2. p \in Setups /\ lock = p
      BY <2>23, WriterIs DEF WriteFails, At, Writing, SetupOnly
    <3>3. (tmp' # None => tmp' # config') /\ (rollback' # None => config' # None) /\ UNCHANGED profiles
      BY <2>23, <2>0 DEF WriteFails, legacy, PrivateInv
    <3> QED BY <2>0, <3>1, <3>2, <3>3, PrivateFrame
  <2>24. CASE RestoreFails(p)
    <3>1. Private(p, at[p])'
      BY <2>24, <2>0 DEF StoreInv, TypeOK, Local, RestoreFails, End, Gone, Fresh, Private,
         Writing, Migrating
    <3>2. p \in Setups /\ lock = p
      BY <2>24, WriterIs DEF RestoreFails, At, Writing, SetupOnly
    <3>3. (tmp' # None => tmp' # config') /\ (rollback' # None => config' # None) /\ UNCHANGED profiles
      BY <2>24, <2>0 DEF RestoreFails, files, legacy, PrivateInv
    <3> QED BY <2>0, <3>1, <3>2, <3>3, PrivateFrame
  <2>25. CASE Crash(p)
    <3>1. Private(p, at[p])'
      BY <2>25, <2>0 DEF StoreInv, TypeOK, Crash, Gone, Fresh, Private, Writing, Migrating
    <3> QED
      BY <2>25, <2>0, <3>1, PrivateFrame DEF Crash, files, legacy, PrivateInv
  <2> QED
    BY <1>1, <2>1, <2>2, <2>3, <2>4, <2>5, <2>6, <2>7, <2>8, <2>9, <2>10, <2>11, <2>12,
       <2>13, <2>14, <2>15, <2>16, <2>17, <2>18, <2>19, <2>20, <2>21, <2>22, <2>23, <2>24,
       <2>25 DEF
       Step, Fault, Load, Write, Setup
<1>2. CASE ClearLock
  BY <1>2 DEF ClearLock, files, legacy, PrivateInv, Private, Holds, IsThere
<1>3. CASE UNCHANGED vars
  BY <1>3 DEF vars, PrivateInv, Private, Holds, IsThere
<1> QED BY <1>1, <1>2, <1>3 DEF Next

\* In a directory without profiles.toml it holds at the start.
LEMMA InitPrivate == Init => PrivateHere
<1> SUFFICES ASSUME Init, NoMigration PROVE PrivateInv
  BY DEF PrivateHere
<1>1. profiles = IF scene.start \in {"legacy", "downgraded"} THEN "v1" ELSE None
  BY DEF Init
<1>2. profiles = None /\ tmp = None /\ rollback = None
  BY <1>1 DEF Init, NoMigration
<1>3. ASSUME NEW p \in Procs PROVE Private(p, at[p])
  <2>1. at[p] = Fresh(First(p))
    BY DEF Init
  <2>2. at[p].phase = "detect" /\ at[p].saved = FALSE /\ at[p].pc \in {"lock", "exists", "done"}
    BY <2>1 DEF Fresh, First
  <2> QED BY <2>2 DEF Private, Writing, Migrating
<1> QED BY <1>2, <1>3 DEF PrivateInv

LEMMA NextPrivateHere == StoreInv /\ PrivateHere /\ [Next]_vars => StoreInv' /\ PrivateHere'
<1> SUFFICES ASSUME StoreInv, PrivateHere, [Next]_vars PROVE StoreInv' /\ PrivateHere'
  OBVIOUS
<1>1. NoMigration' = NoMigration
  BY SameScene DEF NoMigration
<1>2. PrivateInv => PrivateInv'
  BY NextPrivate
<1> QED BY <1>1, <1>2, NextStore DEF PrivateHere

\* Without a migration, whatever setups and commands do and wherever they are
\* killed, the copy that a setup would put back is the configuration it found.
THEOREM ConfigRollbackIsFound == Spec => []RollbackIsFound
<1>1. Init => StoreInv /\ PrivateHere
  BY InitStore, InitPrivate
<1>2. StoreInv /\ PrivateHere /\ [Next]_vars => StoreInv' /\ PrivateHere'
  BY NextPrivateHere
<1>3. PrivateHere => RollbackIsFound
  BY DEF PrivateHere, PrivateInv, Private, RollbackIsFound, Procs
<1> QED BY <1>1, <1>2, <1>3, PTL DEF Spec

-----------------------------------------------------------------------------
(* What is half-written, and what is put back. *)

\* A step that leaves config.toml or the rollback copy as they are.
LEMMA SameTorn ==
  ASSUME TornKept, UNCHANGED <<config, rollback>>,
         config = None \/ data'[config] = data[config]
  PROVE  TornKept'
BY DEF TornKept, Torned, Holds

\* A half-written config.toml always has its rollback copy, unless the copy
\* that puts it back itself fails.
LEMMA NextTorn ==
  ASSUME "restore" \notin scene.faults
  PROVE  StoreInv /\ PrivateInv /\ TornKept /\ [Next]_vars => TornKept'
<1> SUFFICES ASSUME StoreInv, PrivateInv, TornKept, [Next]_vars PROVE TornKept'
  OBVIOUS
<1> USE ConfigAssumption
<1>1. ASSUME NEW p \in Procs, Step(p) \/ Fault(p) PROVE TornKept'
  <2>0. /\ at[p] \in Local /\ Sound(p, at[p]) /\ Private(p, at[p])
        /\ at[p].phase \in {"detect", "apply", "reload"}
        /\ data \in [Nodes -> Config \cup {Torn}] /\ config \in Nodes \cup {None}
        /\ tmp \in Nodes \cup {None} /\ (tmp # None => tmp # config)
    BY PlaceIs DEF PrivateInv, StoreInv, TypeOK
  <2>1. CASE p \in Setups /\ Acquire(p)
    BY <2>1, SameTorn DEF Acquire, files
  <2>2. CASE Read(p)
    BY <2>2, SameTorn DEF Read, files
  <2>3. CASE Absent(p)
    BY <2>3, SameTorn DEF Absent, files
  <2>4. CASE Legacy(p)
    BY <2>4, SameTorn DEF Legacy, files
  <2>5. CASE ReadLegacy(p)
    BY <2>5, SameTorn DEF ReadLegacy, files
  <2>6. CASE Clean(p)
    BY <2>6, SameTorn DEF Clean, files
  <2>7. CASE Remove(p)
    BY <2>7, SameTorn DEF Remove, files
  <2>8. CASE Open(p)
    <3>1. PICK n \in Nodes : n # config /\ data' = [data EXCEPT ![n] = Torn]
      BY <2>8, <2>0 DEF Open, NewNode, Free
    <3> QED BY <2>8, <2>0, <3>1, SameTorn DEF Open
  <2>9. CASE Fill(p)
    <3>1. at[p].fd # config
      BY <2>9, <2>0 DEF Fill, At, Private
    <3> QED BY <2>9, <2>0, <3>1, SameTorn DEF Fill
  <2>10. CASE Rename(p)
    <3>1. CASE tmp = None
      BY <2>10, <3>1, SameTorn DEF Rename, files
    <3>2. CASE tmp # None
      <4>1. data[tmp] = at[p].want /\ at[p].want \in Config
        BY <2>10, <2>0 DEF Rename, At, Private, Sound, Writing
      <4> QED BY <2>10, <3>2, <4>1 DEF Rename, TornKept, Torned, Holds
    <3> QED BY <3>1, <3>2
  <2>11. CASE Bak(p)
    BY <2>11, SameTorn DEF Bak, files
  <2>12. CASE Keep(p)
    BY <2>12, SameTorn DEF Keep, files
  <2>13. CASE Drop(p)
    BY <2>13, SameTorn DEF Drop, files
  <2>14. CASE p \in Setups /\ Ask(p)
    BY <2>14, SameTorn DEF Ask, files
  <2>15. CASE p \in Setups /\ Backup(p)
    <3>1. IsThere(at[p].before) /\ at[p].before \in Config \cup {None}
      BY <2>15, <2>0 DEF Backup, At, Private, Local
    <3> QED BY <2>15, <3>1 DEF Backup, IsThere, Holds, TornKept, Torned, files
  <2>16. CASE p \in Setups /\ Copy(p)
    <3>1. IsThere(at[p].before) /\ at[p].before \in Config \cup {None}
      BY <2>16, <2>0 DEF Copy, At, Private, Local
    <3> QED BY <2>16, <3>1 DEF Copy, IsThere, Holds, TornKept, Torned, files
  <2>17. CASE p \in Setups /\ Restore(p)
    <3>1. rollback \in Config
      BY <2>17, <2>0 DEF Restore, At, Private, Sound
    <3> QED BY <2>17, <3>1 DEF Restore, TornKept
  <2>18. CASE p \in Setups /\ Refill(p)
    <3>1. rollback \in Config /\ config \in Nodes
      BY <2>18, <2>0 DEF Refill, At, Private, Sound
    <3> QED BY <2>18, <2>0, <3>1 DEF Refill, TornKept, Torned, Holds
  <2>19. CASE p \in Setups /\ Settle(p)
    <3>1. Holds(at[p].want) /\ at[p].want \in Config
      BY <2>19, <2>0 DEF Settle, At, Private, Sound, DetectPlaces, Writing, Migrating, Ended
    <3> QED BY <2>19, <3>1 DEF Settle, TornKept, Torned, Holds, files
  <2>20. CASE p \in Setups /\ Own(p)
    BY <2>20, SameTorn DEF Own, files
  <2>21. CASE p \in Setups /\ Unlock(p)
    BY <2>21, SameTorn DEF Unlock, files
  <2>22. CASE IoFails(p)
    BY <2>22, SameTorn DEF IoFails, files
  <2>23. CASE WriteFails(p)
    <3>1. at[p].fd # config
      BY <2>23, <2>0 DEF WriteFails, At, Private
    <3> QED BY <2>23, <2>0, <3>1, SameTorn DEF WriteFails
  <2>24. CASE RestoreFails(p)
    BY <2>24 DEF RestoreFails
  <2>25. CASE Crash(p)
    BY <2>25, SameTorn DEF Crash, files
  <2> QED
    BY <1>1, <2>1, <2>2, <2>3, <2>4, <2>5, <2>6, <2>7, <2>8, <2>9, <2>10, <2>11, <2>12,
       <2>13, <2>14, <2>15, <2>16, <2>17, <2>18, <2>19, <2>20, <2>21, <2>22, <2>23, <2>24,
       <2>25 DEF
       Step, Fault, Load, Write, Setup
<1>2. CASE ClearLock \/ UNCHANGED vars
  BY <1>2, SameTorn DEF ClearLock, files, vars
<1> QED BY <1>1, <1>2 DEF Next

\* Without a migration, and as long as the copy that puts the old file back does
\* not fail, a half-written config.toml has a whole rollback copy beside it,
\* whoever was killed and how often.
THEOREM ConfigTornHasRollback == Spec => []TornHasRollback
<1>1. Init => StoreInv /\ PrivateHere /\ TornHere
  <2>1. Init => TornHere
    <3> SUFFICES ASSUME Init, config # None PROVE data[config] # Torn
      BY DEF TornHere, TornKept, Torned, Holds
    <3>1. PICK n \in Nodes, c \in Installed :
            config = n /\ data = [x \in Nodes |-> IF x = n THEN c ELSE Torn]
      BY DEF Init
    <3> QED BY <3>1, ConfigAssumption
  <2> QED BY <2>1, InitStore, InitPrivate
<1>2. /\ StoreInv /\ PrivateHere /\ TornHere /\ [Next]_vars
      => StoreInv' /\ PrivateHere' /\ TornHere'
  <2> SUFFICES ASSUME StoreInv, PrivateHere, TornHere, [Next]_vars, Undisturbed' PROVE TornKept'
    BY NextPrivateHere DEF TornHere
  <2>1. NoMigration /\ "restore" \notin scene.faults
    BY SameScene DEF Undisturbed, NoMigration
  <2>2. PrivateInv /\ TornKept
    BY <2>1 DEF PrivateHere, TornHere, Undisturbed
  <2> QED BY <2>1, <2>2, NextTorn
<1>3. TornHere => TornHasRollback
  BY DEF TornHere, TornKept, TornHasRollback
<1> QED BY <1>1, <1>2, <1>3, PTL DEF Spec

-----------------------------------------------------------------------------
(* What setup reports. *)

\* A load that returns makes no such report.
LEMMA ReturnsQuietly ==
  ASSUME TypeOK, NEW p \in Procs, NEW c \in Config \cup {None}, Return(p, c)
  PROVE  at'[p].outcome = at[p].outcome \/ at'[p].outcome \in {"missing", "loaded"}
<1>1. CASE p \in Setups
  BY <1>1, ReturnIs
<1>2. CASE p \notin Setups
  <2>1. End(p, "missing") \/ End(p, "loaded")
    BY <1>2 DEF Return, Procs
  <2> QED BY <2>1, EndIs DEF Ends, Outcomes
<1> QED BY <1>1, <1>2

\* A report is written once, by the step that earns it.
LEMMA OutcomeIs ==
  ASSUME StoreInv, NEW p \in Procs, Step(p) \/ Fault(p)
  PROVE  \/ at'[p].outcome = at[p].outcome
         \/ at'[p].outcome \notin {"restored", "applied"}
         \/ at'[p].outcome = "restored" /\ at[p].saved = FALSE
         \/ p \in Setups /\ (Refill(p) \/ Own(p))
         \/ RestoreFails(p)
<1> USE ConfigAssumption
<1>0. TypeOK /\ at[p] \in Local /\ at \in [Procs -> Local] /\ Sound(p, at[p])
  BY PlaceIs DEF StoreInv, TypeOK
<1>1. CASE p \in Setups /\ Acquire(p)
  <2>1. CASE lock = None
    BY <1>0, <1>1, <2>1 DEF Acquire, Local
  <2>2. CASE lock # None
    BY <1>0, <1>1, <2>2, GoneIs DEF Acquire, Outcomes, Ended
  <2> QED BY <2>1, <2>2
<1>2. CASE Read(p)
  <2>1. config \in Nodes /\ data[config] \in Config \cup {Torn}
    BY <1>0, <1>2 DEF TypeOK, Read
  <2>2. CASE data[config] = Torn
    BY <1>0, <1>2, <2>2, FailIs DEF Read, Ends
  <2>3. CASE data[config] # Torn
    BY <1>0, <1>2, <2>1, <2>3, ReturnsQuietly DEF Read
  <2> QED BY <2>2, <2>3
<1>3. CASE Absent(p)
  BY <1>0, <1>3, GoIs DEF Absent, Places, DetectPlaces
<1>4. CASE Legacy(p)
  <2>1. CASE profiles = None
    BY <1>0, <1>4, <2>1, ReturnsQuietly DEF Legacy
  <2>2. CASE profiles # None
    BY <1>0, <1>4, <2>2, GoIs DEF Legacy, Places, DetectPlaces, ApplyPlaces, ReloadPlaces,
       Writing, Migrating, Ended
  <2> QED BY <2>1, <2>2
<1>5. CASE ReadLegacy(p)
  <2>1. CASE profiles = None
    BY <1>0, <1>5, <2>1, FailIs DEF ReadLegacy, Ends
  <2>2. CASE profiles # None
    BY <1>0, <1>5, <2>2 DEF ReadLegacy, Local
  <2> QED BY <2>1, <2>2
<1>6. CASE Clean(p)
  BY <1>0, <1>6, GoIs DEF Clean, Places, DetectPlaces, Writing
<1>7. CASE Remove(p)
  BY <1>0, <1>7, GoIs, FailIs DEF Remove, Ends, Places, DetectPlaces, Writing
<1>8. CASE Open(p)
  BY <1>0, <1>8 DEF Open, Go, Local
<1>9. CASE Fill(p)
  BY <1>0, <1>9, GoIs DEF Fill, Places, DetectPlaces, Writing
<1>10. CASE Rename(p)
  <2>1. CASE tmp = None
    BY <1>0, <1>10, <2>1, FailIs DEF Rename, Ends
  <2>2. CASE tmp # None /\ at[p].phase = "detect"
    BY <1>0, <1>10, <2>2, GoIs DEF Rename, Places, DetectPlaces, ApplyPlaces, ReloadPlaces,
       Writing, Migrating, Ended
  <2>3. CASE tmp # None /\ at[p].phase # "detect"
    BY <1>0, <1>10, <2>3 DEF Rename, Local
  <2> QED BY <2>1, <2>2, <2>3
<1>11. CASE Bak(p)
  BY <1>0, <1>11, GoIs DEF Bak, Places, DetectPlaces, Migrating
<1>12. CASE Keep(p)
  <2>1. CASE profiles = None
    BY <1>0, <1>12, <2>1, FailIs DEF Keep, Ends
  <2>2. CASE profiles # None
    BY <1>0, <1>12, <2>2, ReturnsQuietly DEF Keep, At, Sound, Migrating
  <2> QED BY <2>1, <2>2
<1>13. CASE Drop(p)
  <2>1. CASE profiles = None
    BY <1>0, <1>13, <2>1, FailIs DEF Drop, Ends
  <2>2. CASE profiles # None
    BY <1>0, <1>13, <2>2, ReturnsQuietly DEF Drop, At, Sound, Migrating
  <2> QED BY <2>1, <2>2
<1>14. CASE p \in Setups /\ Ask(p)
  <2>1. CASE End(p, "failed") \/ End(p, "dryrun")
    BY <1>0, <1>14, <2>1, EndIs DEF Ends, Outcomes
  <2>2. CASE ~(End(p, "failed") \/ End(p, "dryrun"))
    <3>1. PICK name \in Names, url \in Urls, pc \in {"unlock", "backup"}, o \in {"noop", None} :
            at' = [at EXCEPT ![p].pc = pc, ![p].outcome = o, ![p].want = Built(name, url)]
      BY <1>14, <2>2 DEF Ask
    <3>2. at'[p].outcome = o
      BY <1>0, <3>1 DEF Local
    <3> QED BY <3>2
  <2> QED BY <2>1, <2>2
<1>15. CASE p \in Setups /\ Backup(p)
  BY <1>0, <1>15 DEF Backup, Go, Local
<1>16. CASE p \in Setups /\ Copy(p)
  BY <1>0, <1>16 DEF Copy, Go, Local
<1>17. CASE p \in Setups /\ Restore(p)
  BY <1>0, <1>17, GoIs DEF Restore, Places, ApplyPlaces
<1>18. CASE p \in Setups /\ Refill(p)
  BY <1>18
<1>19. CASE p \in Setups /\ Settle(p)
  BY <1>0, <1>19, GoIs, EndIs DEF Settle, Ends, Outcomes, Places, ReloadPlaces
<1>20. CASE p \in Setups /\ Own(p)
  BY <1>20
<1>21. CASE p \in Setups /\ Unlock(p)
  <2>1. at[p].outcome \in Outcomes
    BY <1>0 DEF Local, Outcomes
  <2> QED BY <1>0, <1>21, <2>1, GoneIs DEF Unlock, Ended
<1>22. CASE IoFails(p)
  BY <1>0, <1>22, FailIs, EndIs DEF IoFails, Ends, Outcomes
<1>23. CASE WriteFails(p)
  BY <1>0, <1>23, FailIs DEF WriteFails, Ends
<1>24. CASE RestoreFails(p)
  BY <1>24
<1>25. CASE Crash(p)
  BY <1>0, <1>25, GoneIs DEF Crash, Outcomes, Ended
<1> QED
  BY <1>1, <1>2, <1>3, <1>4, <1>5, <1>6, <1>7, <1>8, <1>9, <1>10, <1>11, <1>12, <1>13,
     <1>14, <1>15, <1>16, <1>17, <1>18, <1>19, <1>20, <1>21, <1>22, <1>23, <1>24, <1>25 DEF
     Step, Fault, Load, Write, Setup

\* A report is only ever about the process that moves.
LEMMA ReportIs ==
  ASSUME StoreInv, NEW p \in Setups, [Next]_vars, at'[p].outcome # at[p].outcome,
         at'[p].outcome \in {"restored", "applied"}
  PROVE  \/ at'[p].outcome = "restored" /\ at[p].saved = FALSE
         \/ Refill(p) \/ Own(p) \/ RestoreFails(p)
<1>1. at' # at
  OBVIOUS
<1>2. PICK q \in Procs : Step(q) \/ Fault(q)
  BY <1>1 DEF Next, vars, ClearLock
<1>3. p = q
  BY <1>2, StepAlone DEF Alone, Procs
<1> QED BY <1>2, <1>3, OutcomeIs DEF Procs

\* Without a migration, and as long as the copy that puts the old file back does
\* not fail, a setup that reports that the previous configuration has been
\* restored has put back exactly what it found.
THEOREM ConfigFailedSetupRestores == Spec => FailedSetupRestores
<1>1. Init => StoreInv /\ PrivateHere
  BY InitStore, InitPrivate
<1>2. StoreInv /\ PrivateHere /\ [Next]_vars => StoreInv' /\ PrivateHere'
  BY NextPrivateHere
<1>3. ASSUME StoreInv, PrivateHere, [Next]_vars, NEW p \in Setups, Undisturbed,
             at'[p].outcome = "restored", at[p].outcome # "restored", at[p].saved
      PROVE  Holds(at[p].before)'
  <2>1. Refill(p)
    <3>1. ~Own(p)
      <4>1. CASE Own(p)
        <5>1. at'[p].outcome = "applied"
          BY <1>3, <4>1, EndIs DEF Own, StoreInv, Ends, Outcomes, Procs
        <5> QED BY <1>3, <5>1
      <4> QED BY <4>1
    <3> QED BY <1>3, <3>1, ReportIs DEF RestoreFails, Undisturbed
  <2>2. at[p].before \in Config /\ rollback = at[p].before /\ config \in Nodes
    BY <1>3, <2>1, PlaceIs, ConfigAssumption
       DEF Undisturbed, PrivateHere, PrivateInv, Private, Refill, At, Sound, StoreInv, TypeOK,
       Procs
  <2>3. at'[p].before = at[p].before
    BY <1>3, <2>1, EndIs DEF Refill, StoreInv, Ends, SameLocals, Outcomes, Procs
  <2> QED BY <1>3, <2>1, <2>2, <2>3, ConfigAssumption DEF Refill, Holds, StoreInv, TypeOK
<1>4. StoreInv /\ PrivateHere /\ [Next]_vars
      => [\A p \in Setups :
            Undisturbed /\ at'[p].outcome = "restored" /\ at[p].outcome # "restored" /\ at[p].saved
              => Holds(at[p].before)']_vars
  BY <1>3
<1> QED BY <1>1, <1>2, <1>4, PTL DEF Spec, FailedSetupRestores

\* Without a migration, a setup that reports success has installed what it showed.
THEOREM ConfigAppliedIsInstalled == Spec => AppliedIsInstalled
<1>1. Init => StoreInv /\ PrivateHere
  BY InitStore, InitPrivate
<1>2. StoreInv /\ PrivateHere /\ [Next]_vars => StoreInv' /\ PrivateHere'
  BY NextPrivateHere
<1>3. ASSUME StoreInv, PrivateHere, [Next]_vars, NEW p \in Setups, NoMigration,
             at'[p].outcome = "applied", at[p].outcome # "applied"
      PROVE  Holds(at[p].want)' /\ ownership' = at[p].want.name /\ rollback' = None
  <2>1. Own(p)
    <3>1. CASE Refill(p) \/ RestoreFails(p)
      <4>1. at'[p].outcome = "restored"
        BY <1>3, <3>1, EndIs DEF Refill, RestoreFails, StoreInv, Ends, Outcomes, Procs
      <4> QED BY <1>3, <4>1
    <3> QED BY <1>3, <3>1, ReportIs
  <2>2. Holds(at[p].want) /\ at[p].found = at[p].want /\ rollback = None
    BY <1>3, <2>1 DEF PrivateHere, PrivateInv, Private, Own, At, Procs
  <2>3. at'[p].want = at[p].want
    BY <1>3, <2>1, EndIs DEF Own, StoreInv, Ends, SameLocals, Outcomes, Procs
  <2> QED BY <2>1, <2>2, <2>3 DEF Own, Holds, files
<1>4. StoreInv /\ PrivateHere /\ [Next]_vars
      => [\A p \in Setups :
            NoMigration /\ at'[p].outcome = "applied" /\ at[p].outcome # "applied"
              => /\ Holds(at[p].want)'
                 /\ ownership' = at[p].want.name
                 /\ rollback' = None]_vars
  BY <1>3
<1> QED BY <1>1, <1>2, <1>4, PTL DEF Spec, AppliedIsInstalled

-----------------------------------------------------------------------------
(* The profiles of 1.0.x. *)

\* What has to be checked is the process that moves.
LEMMA LegacyFrame ==
  ASSUME StoreInv, LegacyInv, NEW p \in Procs, Alone(p), ProfilesKept',
         bak' \in {None, "v1"}, bak # None => bak' # None, at'[p].pc = "drop" => bak # None
  PROVE  LegacyInv'
<1>1. ASSUME NEW q \in Procs \ {p}, at'[q].pc = "drop" PROVE bak' # None
  BY <1>1 DEF LegacyInv, At, Alone
<1> QED BY <1>1 DEF LegacyInv, At

\* Only a process that has seen the backup goes on to remove profiles.toml.
LEMMA DropIs ==
  ASSUME StoreInv, NEW p \in Procs, Step(p) \/ Fault(p), at'[p].pc = "drop"
  PROVE  Bak(p) /\ bak # None
<1> SUFFICES ASSUME ~Bak(p) \/ bak = None PROVE at'[p].pc # "drop"
  BY DEF Bak
<1> USE ConfigAssumption
<1>0. TypeOK /\ at[p] \in Local /\ at \in [Procs -> Local] /\ Sound(p, at[p])
      /\ (p \in Loaders <=> p \notin Setups)
  BY PlaceIs DEF StoreInv, TypeOK, Procs
<1>1. CASE p \in Setups /\ Acquire(p)
  <2>1. CASE lock = None
    BY <1>0, <1>1, <2>1 DEF Acquire, Local
  <2>2. CASE lock # None
    BY <1>0, <1>1, <2>2, GoneIs DEF Acquire, Outcomes, Ended
  <2> QED BY <2>1, <2>2
<1>2. CASE Read(p)
  <2>1. config \in Nodes /\ data[config] \in Config \cup {Torn}
    BY <1>0, <1>2 DEF TypeOK, Read
  <2>2. CASE data[config] = Torn
    BY <1>0, <1>2, <2>2, FailIs DEF Read, Ends
  <2>3. CASE data[config] # Torn
    BY <1>0, <1>2, <2>1, <2>3, ReturnIs DEF Read
  <2> QED BY <2>2, <2>3
<1>3. CASE Absent(p)
  BY <1>0, <1>3, GoIs DEF Absent, Places, DetectPlaces
<1>4. CASE Legacy(p)
  <2>1. CASE profiles = None
    BY <1>0, <1>4, <2>1, ReturnIs DEF Legacy
  <2>2. CASE profiles # None
    BY <1>0, <1>4, <2>2, GoIs DEF Legacy, Places, DetectPlaces, ApplyPlaces, ReloadPlaces,
       Writing, Migrating, Ended
  <2> QED BY <2>1, <2>2
<1>5. CASE ReadLegacy(p)
  <2>1. CASE profiles = None
    BY <1>0, <1>5, <2>1, FailIs DEF ReadLegacy, Ends
  <2>2. CASE profiles # None
    BY <1>0, <1>5, <2>2 DEF ReadLegacy, Local
  <2> QED BY <2>1, <2>2
<1>6. CASE Clean(p)
  BY <1>0, <1>6, GoIs DEF Clean, Places, DetectPlaces, Writing
<1>7. CASE Remove(p)
  <2>1. CASE tmp = None
    BY <1>0, <1>7, <2>1, FailIs DEF Remove, Ends
  <2>2. CASE tmp # None
    BY <1>0, <1>7, <2>2, GoIs DEF Remove, Places, DetectPlaces, ApplyPlaces, ReloadPlaces,
       Writing, Migrating, Ended
  <2> QED BY <2>1, <2>2
<1>8. CASE Open(p)
  BY <1>0, <1>8 DEF Open, Go, Local
<1>9. CASE Fill(p)
  BY <1>0, <1>9, GoIs DEF Fill, Places, DetectPlaces, Writing
<1>10. CASE Rename(p)
  <2>1. CASE tmp = None
    BY <1>0, <1>10, <2>1, FailIs DEF Rename, Ends
  <2>2. CASE tmp # None /\ at[p].phase = "detect"
    BY <1>0, <1>10, <2>2, GoIs DEF Rename, Places, DetectPlaces, ApplyPlaces, ReloadPlaces,
       Writing, Migrating, Ended
  <2>3. CASE tmp # None /\ at[p].phase # "detect"
    BY <1>0, <1>10, <2>3 DEF Rename, Local
  <2> QED BY <2>1, <2>2, <2>3
<1>11. CASE Bak(p)
  BY <1>0, <1>11, GoIs DEF Bak, Places, DetectPlaces, Migrating
<1>12. CASE Keep(p)
  <2>1. CASE profiles = None
    BY <1>0, <1>12, <2>1, FailIs DEF Keep, Ends
  <2>2. CASE profiles # None
    BY <1>0, <1>12, <2>2, ReturnIs DEF Keep, At, Sound, Migrating, ApplyPlaces,
       ReloadPlaces, Writing
  <2> QED BY <2>1, <2>2
<1>13. CASE Drop(p)
  <2>1. CASE profiles = None
    BY <1>0, <1>13, <2>1, FailIs DEF Drop, Ends
  <2>2. CASE profiles # None
    BY <1>0, <1>13, <2>2, ReturnIs DEF Drop, At, Sound, Migrating, ApplyPlaces,
       ReloadPlaces, Writing
  <2> QED BY <2>1, <2>2
<1>14. CASE p \in Setups /\ Ask(p)
  <2>1. CASE End(p, "failed") \/ End(p, "dryrun")
    BY <1>0, <1>14, <2>1, EndIs DEF Ends, Outcomes
  <2>2. CASE ~(End(p, "failed") \/ End(p, "dryrun"))
    <3>1. PICK name \in Names, url \in Urls, pc \in {"unlock", "backup"}, o \in {"noop", None} :
            at' = [at EXCEPT ![p].pc = pc, ![p].outcome = o, ![p].want = Built(name, url)]
      BY <1>14, <2>2 DEF Ask
    <3>2. at'[p].pc = pc
      BY <1>0, <3>1 DEF Local
    <3> QED BY <3>2
  <2> QED BY <2>1, <2>2
<1>15. CASE p \in Setups /\ Backup(p)
  BY <1>0, <1>15 DEF Backup, Go, Local
<1>16. CASE p \in Setups /\ Copy(p)
  BY <1>0, <1>16 DEF Copy, Go, Local
<1>17. CASE p \in Setups /\ Restore(p)
  BY <1>0, <1>17, GoIs DEF Restore, Places, ApplyPlaces
<1>18. CASE p \in Setups /\ Refill(p)
  BY <1>0, <1>18, EndIs DEF Refill, Ends, Outcomes
<1>19. CASE p \in Setups /\ Settle(p)
  BY <1>0, <1>19, GoIs, EndIs DEF Settle, Ends, Outcomes, Places, ReloadPlaces
<1>20. CASE p \in Setups /\ Own(p)
  BY <1>0, <1>20, EndIs DEF Own, Ends, Outcomes
<1>21. CASE p \in Setups /\ Unlock(p)
  <2>1. at[p].outcome \in Outcomes
    BY <1>0 DEF Local, Outcomes
  <2> QED BY <1>0, <1>21, <2>1, GoneIs DEF Unlock, Ended
<1>22. CASE IoFails(p)
  BY <1>0, <1>22, FailIs, EndIs DEF IoFails, Ends, Outcomes
<1>23. CASE WriteFails(p)
  BY <1>0, <1>23, FailIs DEF WriteFails, Ends
<1>24. CASE RestoreFails(p)
  BY <1>0, <1>24, EndIs DEF RestoreFails, Ends, Outcomes
<1>25. CASE Crash(p)
  BY <1>0, <1>25, GoneIs DEF Crash, Outcomes, Ended
<1> QED
  BY <1>1, <1>2, <1>3, <1>4, <1>5, <1>6, <1>7, <1>8, <1>9, <1>10, <1>11, <1>12, <1>13,
     <1>14, <1>15, <1>16, <1>17, <1>18, <1>19, <1>20, <1>21, <1>22, <1>23, <1>24, <1>25 DEF
     Step, Fault, Load, Write, Setup

\* config.toml never goes away, and profiles.toml only where there is a backup.
LEMMA LegacyIs ==
  ASSUME StoreInv, NEW p \in Procs, Step(p) \/ Fault(p)
  PROVE  /\ config # None => config' # None
         /\ \/ UNCHANGED <<profiles, bak>>
            \/ profiles # None /\ bak' = profiles /\ config # None /\ UNCHANGED config
            \/ At(p, "drop") /\ UNCHANGED <<bak, config>> /\ config # None
<1>0. Sound(p, at[p])
  BY PlaceIs
<1>1. CASE p \in Setups /\ Acquire(p)
  BY <1>1 DEF Acquire, files, legacy
<1>2. CASE Read(p)
  BY <1>2 DEF Read, files, legacy
<1>3. CASE Absent(p)
  BY <1>3 DEF Absent, files, legacy
<1>4. CASE Legacy(p)
  BY <1>4 DEF Legacy, files, legacy
<1>5. CASE ReadLegacy(p)
  BY <1>5 DEF ReadLegacy, files, legacy
<1>6. CASE Clean(p)
  BY <1>6 DEF Clean, files, legacy
<1>7. CASE Remove(p)
  BY <1>7 DEF Remove, files, legacy
<1>8. CASE Open(p)
  BY <1>8 DEF Open, files, legacy
<1>9. CASE Fill(p)
  BY <1>9 DEF Fill, files, legacy
<1>10. CASE Rename(p)
  BY <1>10 DEF Rename, files, legacy
<1>11. CASE Bak(p)
  BY <1>11 DEF Bak, files, legacy
<1>12. CASE Keep(p)
  BY <1>0, <1>12 DEF Keep, At, Sound, Migrating, files, legacy
<1>13. CASE Drop(p)
  BY <1>0, <1>13 DEF Drop, At, Sound, Migrating, files, legacy
<1>14. CASE p \in Setups /\ Ask(p)
  BY <1>14 DEF Ask, files, legacy
<1>15. CASE p \in Setups /\ Backup(p)
  BY <1>15 DEF Backup, files, legacy
<1>16. CASE p \in Setups /\ Copy(p)
  BY <1>16 DEF Copy, files, legacy
<1>17. CASE p \in Setups /\ Restore(p)
  BY <1>17 DEF Restore, files, legacy
<1>18. CASE p \in Setups /\ Refill(p)
  BY <1>18 DEF Refill, files, legacy
<1>19. CASE p \in Setups /\ Settle(p)
  BY <1>19 DEF Settle, files, legacy
<1>20. CASE p \in Setups /\ Own(p)
  BY <1>20 DEF Own, files, legacy
<1>21. CASE p \in Setups /\ Unlock(p)
  BY <1>21 DEF Unlock, files, legacy
<1>22. CASE IoFails(p)
  BY <1>22 DEF IoFails, files, legacy
<1>23. CASE WriteFails(p)
  BY <1>23 DEF WriteFails, files, legacy
<1>24. CASE RestoreFails(p)
  BY <1>24 DEF RestoreFails, files, legacy
<1>25. CASE Crash(p)
  BY <1>25 DEF Crash, files, legacy
<1> QED
  BY <1>1, <1>2, <1>3, <1>4, <1>5, <1>6, <1>7, <1>8, <1>9, <1>10, <1>11, <1>12, <1>13,
     <1>14, <1>15, <1>16, <1>17, <1>18, <1>19, <1>20, <1>21, <1>22, <1>23, <1>24, <1>25 DEF
     Step, Fault, Load, Write, Setup

\* In directories of 1.0.x without an earlier backup, however many commands and
\* setups migrate at once and wherever they are killed, the profiles are there
\* under their old name or, with config.toml written, as the backup.
THEOREM ConfigLegacyKept == Spec => []LegacyKept
<1>1. Init => StoreInv /\ LegacyHere
  <2>1. ASSUME Init, scene.start = "legacy" PROVE LegacyInv
    <3>1. profiles = "v1" /\ bak = None
      BY <2>1 DEF Init
    <3>2. ASSUME NEW p \in Procs PROVE at[p].pc # "drop"
      <4>1. at[p] = Fresh(First(p))
        BY <2>1 DEF Init
      <4> QED BY <4>1 DEF Fresh, First
    <3> QED BY <3>1, <3>2 DEF LegacyInv, ProfilesKept, At
  <2> QED BY <2>1, InitStore DEF LegacyHere
<1>2. ASSUME StoreInv, LegacyInv, [Next]_vars PROVE LegacyInv'
  <2>1. ASSUME NEW p \in Procs, Step(p) \/ Fault(p) PROVE LegacyInv'
    <3>1. ProfilesKept' /\ bak' \in {None, "v1"} /\ (bak # None => bak' # None)
      <4>1. profiles \in {None, "v1"}
        BY <1>2 DEF StoreInv, TypeOK
      <4>2. At(p, "drop") => bak = "v1"
        BY <1>2 DEF LegacyInv
      <4> QED BY <1>2, <2>1, <4>1, <4>2, LegacyIs DEF LegacyInv, ProfilesKept
    <3> QED BY <1>2, <2>1, <3>1, StepAlone, DropIs, LegacyFrame
  <2>2. CASE ClearLock \/ UNCHANGED vars
    BY <1>2, <2>2 DEF ClearLock, files, legacy, vars, LegacyInv, ProfilesKept, At
  <2> QED BY <1>2, <2>1, <2>2 DEF Next
<1>3. LegacyHere /\ StoreInv /\ [Next]_vars => LegacyHere'
  BY <1>2, SameScene DEF LegacyHere
<1>4. LegacyHere => LegacyKept
  BY DEF LegacyHere, LegacyInv, ProfilesKept, LegacyKept
<1> QED BY <1>1, <1>3, <1>4, NextStore, PTL DEF Spec
=============================================================================
