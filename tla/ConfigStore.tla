----------------------------- MODULE ConfigStore -----------------------------
(***************************************************************************)
(* The configuration directory: `toche setup' (setup/mod.rs) and every     *)
(* other command, which loads config.toml and turns the profiles.toml of   *)
(* 1.0.x into one when there is none (config/migration.rs, loader.rs).     *)
(*                                                                         *)
(* Setups exclude each other with a lock file; the migration takes no      *)
(* lock.  Both write config.toml through the same config.tmp               *)
(* (config/utils.rs), so files are inodes here: a rename moves what        *)
(* another process may still be writing.                                   *)
(***************************************************************************)
EXTENDS Naturals, FiniteSets

CONSTANTS
  Setups,       \* processes that run `toche setup' once
  Loaders,      \* processes that load the configuration once
  Nodes,        \* inodes
  Names,        \* names of the default integration
  Urls,         \* upstream URLs
  Migrated,     \* what the profiles.toml at hand becomes
  Installed,    \* the config.toml found in directories that have one
  Scenes,       \* the directories of this instance and what may go wrong there
  None,         \* no file, no process, nothing
  Torn          \* a file that is not, or only partly, written

StartKinds ==
  { "fresh",        \* an empty directory
    "v2",           \* config.toml
    "legacy",       \* profiles.toml
    "downgraded" }  \* profiles.toml and the backup of an earlier migration

ConfigFaultKinds ==
  { "crash",        \* a process is killed
    "io",           \* a read, write or rename fails
    "restore" }     \* the copy that puts the rollback copy back fails

\* What the program tells apart in a config.toml: the default integration,
\* how many integrations there are, and the default's upstream URL.
Config == [name : Names, count : 1 .. 2, url : Urls]

\* A scene is a directory, who works on it and what may go wrong in it.
Scene == [start : StartKinds, procs : SUBSET (Setups \cup Loaders),
          faults : SUBSET ConfigFaultKinds]

ASSUME ConfigAssumption ==
  /\ None \notin Config /\ Torn \notin Config
  /\ None # Torn /\ None \notin {"restored", "applied"}
  /\ None \notin Nodes /\ None \notin Setups \cup Loaders
  /\ Setups \cap Loaders = {}
  /\ Migrated \in Config
  /\ Installed \subseteq Config
  /\ Scenes \subseteq Scene

VARIABLES
  config,       \* the inode of config.toml
  tmp,          \* the inode of config.tmp
  data,         \* data[n]: what inode n holds
  profiles,     \* profiles.toml
  bak,          \* profiles.toml.v1.bak
  rollback,     \* config.toml.toche-rollback
  lock,         \* setup.lock: the process that made it
  ownership,    \* ownership.toml: the integration it names
  at,           \* at[p]: the program counter and locals of process p
  scene         \* where this behaviour takes place (it never changes)

files == <<config, tmp, data>>

\* What a directory of 1.0.x has, and what kind of directory it is.
legacy == <<profiles, bak, scene>>
vars == <<config, tmp, data, profiles, bak, rollback, lock, ownership, at, scene>>

Procs == Setups \cup Loaders

Ended == {"done", "dead"}

Local ==
  [ pc : {"lock", "exists", "legacy", "again", "readv1", "clean", "remove", "open",
          "fill", "rename", "bak", "keep", "drop", "ask", "backup", "copy",
          "restore", "refill", "settle", "own", "unlock"} \cup Ended,
    phase : {"detect", "apply", "reload"},
    dry : BOOLEAN,
    found : Config \cup {None},     \* what detect_and_load returned last
    before : Config \cup {None},    \* what it returned when setup began
    want : Config \cup {None},      \* what is to be written
    fd : Nodes \cup {None},         \* the inode fs::write has open
    saved : BOOLEAN,                \* backup_existing made a copy
    outcome : {None, "refused", "failed", "missing", "loaded", "dryrun", "noop",
               "restored", "applied"} ]

\* One type invariant: what each variable may hold.
TypeOK ==
  /\ config \in Nodes \cup {None}
  /\ tmp \in Nodes \cup {None}
  /\ data \in [Nodes -> Config \cup {Torn}]
  /\ profiles \in {None, "v1"}
  /\ bak \in {None, "older", "v1"}
  /\ rollback \in Config \cup {None, Torn}
  /\ lock \in Setups \cup {None}
  /\ ownership \in Names \cup {None}
  /\ at \in [Procs -> Local]
  /\ scene \in Scenes

Fresh(pc) ==
  [pc |-> pc, phase |-> "detect", dry |-> FALSE, found |-> None, before |-> None,
   want |-> None, fd |-> None, saved |-> FALSE, outcome |-> None]

First(p) ==
  IF p \notin scene.procs THEN "done" ELSE IF p \in Setups THEN "lock" ELSE "exists"

Init ==
  /\ scene \in Scenes
  /\ profiles = IF scene.start \in {"legacy", "downgraded"} THEN "v1" ELSE None
  /\ bak = IF scene.start = "downgraded" THEN "older" ELSE None
  /\ IF scene.start = "v2"
     THEN \E n \in Nodes, c \in Installed :
            config = n /\ data = [x \in Nodes |-> IF x = n THEN c ELSE Torn]
     ELSE config = None /\ data = [x \in Nodes |-> Torn]
  /\ tmp = None /\ rollback = None /\ lock = None /\ ownership = None
  /\ at = [p \in Procs |-> Fresh(First(p))]

-----------------------------------------------------------------------------
At(p, pc) == at[p].pc = pc

Go(p, pc) == at' = [at EXCEPT ![p].pc = pc]

\* The process is gone, and its locals with it.
Gone(p, pc, outcome) ==
  at' = [at EXCEPT ![p] = [Fresh(pc) EXCEPT !.outcome = outcome]]

\* A setup that ends releases its lock on the way out, whatever the outcome.
End(p, outcome) ==
  IF p \in Setups THEN at' = [at EXCEPT ![p].pc = "unlock", ![p].outcome = outcome]
  ELSE Gone(p, "done", outcome)

\* detect_and_load returns: to the command, to setup's detection, or to its
\* reload.  A reload keeps what the detection found.
Return(p, c) ==
  IF p \in Loaders
  THEN End(p, IF c = None THEN "missing" ELSE "loaded")
  ELSE IF at[p].phase = "detect"
       THEN at' = [at EXCEPT ![p].pc = "ask", ![p].found = c, ![p].before = c]
       ELSE at' = [at EXCEPT ![p].pc = "settle", ![p].found = c]

\* An error ends a command and a setup that has not begun to apply; later it
\* makes setup roll back.  Without a rollback copy nothing is put back.
Fail(p) ==
  IF at[p].phase = "detect" THEN End(p, "failed")
  ELSE IF at[p].saved THEN Go(p, "restore")
  ELSE End(p, "restored")

-----------------------------------------------------------------------------
\* Mutant of Acquire: the lock file is opened without create_new.
AcquireAnyway(p) ==
  /\ At(p, "lock")
  /\ \E dry \in BOOLEAN : at' = [at EXCEPT ![p].pc = "exists", ![p].dry = dry]
  /\ lock' = p
  /\ UNCHANGED <<files, legacy, rollback, ownership>>

\* setup.lock is created, or is there and the run is refused.
Acquire(p) ==
  /\ At(p, "lock")
  /\ IF lock = None
     THEN /\ lock' = p
          /\ \E dry \in BOOLEAN : at' = [at EXCEPT ![p].pc = "exists", ![p].dry = dry]
     ELSE Gone(p, "done", "refused") /\ UNCHANGED lock
  /\ UNCHANGED <<files, legacy, rollback, ownership>>

\* config.toml is there and is read: config.toml is never removed, so its
\* check and the read are one step.
Read(p) ==
  /\ at[p].pc \in {"exists", "again"}
  /\ config # None
  /\ IF data[config] = Torn THEN Fail(p) ELSE Return(p, data[config])
  /\ UNCHANGED <<files, legacy, rollback, lock, ownership>>

\* config.toml is not there.
Absent(p) ==
  /\ at[p].pc \in {"exists", "again"}
  /\ config = None
  /\ Go(p, IF At(p, "exists") THEN "legacy" ELSE "readv1")
  /\ UNCHANGED <<files, legacy, rollback, lock, ownership>>

\* profiles.toml is looked for.
Legacy(p) ==
  /\ At(p, "legacy")
  /\ IF profiles = None THEN Return(p, None) ELSE Go(p, "again")
  /\ UNCHANGED <<files, legacy, rollback, lock, ownership>>

\* profiles.toml is read and converted.
ReadLegacy(p) ==
  /\ At(p, "readv1")
  /\ IF profiles = None THEN Fail(p)
     ELSE at' = [at EXCEPT ![p].pc = "clean", ![p].want = Migrated]
  /\ UNCHANGED <<files, legacy, rollback, lock, ownership>>

-----------------------------------------------------------------------------
\* atomic_write_secure: a config.tmp that is there is removed ...
Clean(p) ==
  /\ At(p, "clean")
  /\ Go(p, IF tmp = None THEN "open" ELSE "remove")
  /\ UNCHANGED <<files, legacy, rollback, lock, ownership>>

Remove(p) ==
  /\ At(p, "remove")
  /\ IF tmp = None THEN Fail(p) ELSE Go(p, "open")
  /\ tmp' = None
  /\ UNCHANGED <<config, data, legacy, rollback, lock, ownership>>

Free == {n \in Nodes : n # config /\ n # tmp /\ \A p \in Procs : At(p, "fill") => at[p].fd # n}

\* Inodes differ in nothing but their number: a new file gets one of them.
NewNode == {n \in Free : n = CHOOSE m \in Free : TRUE}

\* ... fs::write creates it, or truncates the one made meanwhile, ...
Open(p) ==
  /\ At(p, "open")
  /\ \E n \in (IF tmp = None THEN NewNode ELSE {tmp}) :
       /\ tmp' = n
       /\ data' = [data EXCEPT ![n] = Torn]
       /\ at' = [at EXCEPT ![p].pc = "fill", ![p].fd = n]
  /\ UNCHANGED <<config, legacy, rollback, lock, ownership>>

\* ... and writes it.  Over what another process has written into the same
\* inode, the end of a longer text stays behind.
Fill(p) ==
  LET n == at[p].fd IN
  /\ At(p, "fill")
  /\ \E c \in {at[p].want} \cup
              (IF data[n] \in {Torn, at[p].want} THEN {} ELSE {Torn}) :
       data' = [data EXCEPT ![n] = c]
  /\ Go(p, "rename")
  /\ UNCHANGED <<config, tmp, legacy, rollback, lock, ownership>>

\* config.tmp becomes config.toml, whoever wrote it; setup reads it back.
Rename(p) ==
  /\ At(p, "rename")
  /\ IF tmp = None
     THEN Fail(p) /\ UNCHANGED files
     ELSE /\ config' = tmp
          /\ tmp' = None
          /\ UNCHANGED data
          /\ IF at[p].phase = "detect" THEN Go(p, "bak")
             ELSE at' = [at EXCEPT ![p].pc = "exists", ![p].phase = "reload"]
  /\ UNCHANGED <<legacy, rollback, lock, ownership>>

-----------------------------------------------------------------------------
\* Mutant of Bak: with a backup there, profiles.toml is left alone.
BakLeaves(p) ==
  /\ At(p, "bak")
  /\ IF bak = None THEN Go(p, "keep") ELSE Return(p, at[p].want)
  /\ UNCHANGED <<files, legacy, rollback, lock, ownership>>

\* The migration is written: profiles.toml is renamed to its backup, or, when
\* a backup is there, removed.
Bak(p) ==
  /\ At(p, "bak")
  /\ Go(p, IF bak = None THEN "keep" ELSE "drop")
  /\ UNCHANGED <<files, legacy, rollback, lock, ownership>>

\* Mutant of Keep: profiles.toml is removed, and its backup left to chance.
KeepNothing(p) ==
  /\ At(p, "keep")
  /\ profiles # None
  /\ profiles' = None
  /\ Return(p, at[p].want)
  /\ UNCHANGED <<files, bak, scene, rollback, lock, ownership>>

Keep(p) ==
  /\ At(p, "keep")
  /\ IF profiles = None
     THEN Fail(p) /\ UNCHANGED legacy
     ELSE /\ bak' = profiles
          /\ profiles' = None
          /\ UNCHANGED scene
          /\ Return(p, at[p].want)
  /\ UNCHANGED <<files, rollback, lock, ownership>>

Drop(p) ==
  /\ At(p, "drop")
  /\ profiles' = None
  /\ IF profiles = None THEN Fail(p) ELSE Return(p, at[p].want)
  /\ UNCHANGED <<files, bak, scene, rollback, lock, ownership>>

-----------------------------------------------------------------------------
\* build_config: one integration, everything else at its default.
Built(name, url) == [name |-> name, count |-> 1, url |-> url]

\* configs_equivalent: URLs, credentials and headers are not compared.
Equivalent(a, b) == a.name = b.name /\ a.count = b.count

\* The questions, the preview and the comparison.  Once the questions are
\* answered everything is resolved, and no confirmation is asked for.
Ask(p) ==
  /\ At(p, "ask")
  /\ \/ End(p, "failed")
     \/ at[p].dry /\ End(p, "dryrun")
     \/ /\ ~at[p].dry
        /\ \E name \in Names, url \in Urls :
             LET new == Built(name, url)
                 same == at[p].found # None /\ Equivalent(at[p].found, new) IN
             at' = [at EXCEPT ![p].pc = IF same THEN "unlock" ELSE "backup",
                              ![p].outcome = IF same THEN "noop" ELSE None,
                              ![p].want = new]
  /\ UNCHANGED <<files, legacy, rollback, lock, ownership>>

\* Mutant of Backup: an existing rollback copy is trusted.
BackupOnce(p) ==
  /\ At(p, "backup")
  /\ IF config # None /\ rollback = None
     THEN Go(p, "copy") /\ rollback' = Torn
     ELSE /\ at' = [at EXCEPT ![p].pc = "clean", ![p].phase = "apply",
                              ![p].saved = (config # None)]
          /\ UNCHANGED rollback
  /\ UNCHANGED <<files, legacy, lock, ownership>>

\* backup_existing creates or truncates the rollback copy ...
Backup(p) ==
  /\ At(p, "backup")
  /\ IF config = None
     THEN /\ at' = [at EXCEPT ![p].pc = "clean", ![p].phase = "apply"]
          /\ UNCHANGED rollback
     ELSE Go(p, "copy") /\ rollback' = Torn
  /\ UNCHANGED <<files, legacy, lock, ownership>>

\* ... and copies config.toml into it.
Copy(p) ==
  /\ At(p, "copy")
  /\ rollback' = data[config]
  /\ at' = [at EXCEPT ![p].pc = "clean", ![p].phase = "apply", ![p].saved = TRUE]
  /\ UNCHANGED <<files, legacy, lock, ownership>>

\* Mutant of Restore: the rollback copy is removed before it is read.
RestoreEarly(p) ==
  /\ At(p, "restore")
  /\ data' = [data EXCEPT ![config] = Torn]
  /\ rollback' = None
  /\ at' = [at EXCEPT ![p].pc = "refill", ![p].want = rollback]
  /\ UNCHANGED <<config, tmp, legacy, lock, ownership>>

\* fs::copy truncates config.toml in place ...
Restore(p) ==
  /\ At(p, "restore")
  /\ data' = [data EXCEPT ![config] = Torn]
  /\ Go(p, "refill")
  /\ UNCHANGED <<config, tmp, legacy, rollback, lock, ownership>>

\* ... and fills it, and the rollback copy is removed.
Refill(p) ==
  /\ At(p, "refill")
  /\ data' = [data EXCEPT ![config] = rollback]
  /\ rollback' = None
  /\ End(p, "restored")
  /\ UNCHANGED <<config, tmp, legacy, lock, ownership>>

\* What was read back is accepted: the rollback copy is removed, and the
\* numbers of integrations are compared.
Settle(p) ==
  /\ At(p, "settle")
  /\ rollback' = IF at[p].saved THEN None ELSE rollback
  /\ IF at[p].found.count = at[p].want.count THEN Go(p, "own") ELSE End(p, "failed")
  /\ UNCHANGED <<files, legacy, lock, ownership>>

\* ownership.toml names what was read back.
Own(p) ==
  /\ At(p, "own")
  /\ ownership' = at[p].found.name
  /\ End(p, "applied")
  /\ UNCHANGED <<files, legacy, rollback, lock>>

\* SetupLock is dropped.
Unlock(p) ==
  /\ At(p, "unlock")
  /\ lock' = None
  /\ Gone(p, "done", at[p].outcome)
  /\ UNCHANGED <<files, legacy, rollback, ownership>>

-----------------------------------------------------------------------------
\* A read, a write or a rename fails.
IoFails(p) ==
  /\ "io" \in scene.faults
  /\ \/ at[p].pc \in {"exists", "again"} /\ config # None /\ Fail(p)
     \/ at[p].pc \in {"readv1", "remove", "open", "rename", "keep", "drop"} /\ Fail(p)
     \/ at[p].pc \in {"backup", "copy", "own"} /\ End(p, "failed")
  /\ UNCHANGED <<files, legacy, rollback, lock, ownership>>

\* fs::write fails half-way: config.tmp stays behind as it is.
WriteFails(p) ==
  /\ "io" \in scene.faults
  /\ At(p, "fill")
  /\ data' = [data EXCEPT ![at[p].fd] = Torn]
  /\ Fail(p)
  /\ UNCHANGED <<config, tmp, legacy, rollback, lock, ownership>>

\* The restoring copy fails: nobody looks at the error, and the rollback copy
\* is removed.
RestoreFails(p) ==
  /\ "restore" \in scene.faults
  /\ At(p, "refill")
  /\ rollback' = None
  /\ End(p, "restored")
  /\ UNCHANGED <<files, legacy, lock, ownership>>

Crash(p) ==
  /\ "crash" \in scene.faults
  /\ at[p].pc \notin Ended
  /\ Gone(p, "dead", None)
  /\ UNCHANGED <<files, legacy, rollback, lock, ownership>>

\* "If no setup process is active, remove the lock file manually."
ClearLock ==
  /\ lock # None
  /\ At(lock, "dead")
  /\ lock' = None
  /\ UNCHANGED <<files, legacy, rollback, ownership, at>>

-----------------------------------------------------------------------------
Load(p) ==
  \/ Read(p) \/ Absent(p) \/ Legacy(p) \/ ReadLegacy(p)
  \/ Bak(p) \/ Keep(p) \/ Drop(p)

Write(p) == Clean(p) \/ Remove(p) \/ Open(p) \/ Fill(p) \/ Rename(p)

Setup(p) ==
  \/ Acquire(p) \/ Ask(p) \/ Backup(p) \/ Copy(p) \/ Restore(p) \/ Refill(p)
  \/ Settle(p) \/ Own(p) \/ Unlock(p)

Step(p) == Load(p) \/ Write(p) \/ (p \in Setups /\ Setup(p))

Fault(p) == IoFails(p) \/ WriteFails(p) \/ RestoreFails(p) \/ Crash(p)

Next == (\E p \in Procs : Step(p) \/ Fault(p)) \/ ClearLock

Spec == Init /\ [][Next]_vars

\* A process that is not killed goes on: none of these steps waits.
FairSpec == Spec /\ \A p \in Procs : WF_vars(Step(p))

-----------------------------------------------------------------------------
Holds(c) == config # None /\ data[config] = c

Torned == Holds(Torn)

\* A directory without profiles.toml: nothing is migrated there.
NoMigration == scene.start \in {"fresh", "v2"}

\* What setup does there, as long as it can put a rollback copy back.
Undisturbed == NoMigration /\ "restore" \notin scene.faults

\* Where nothing is migrated, the copy a setup would put back is whole and is
\* the configuration that it found, as long as it may need it: through the
\* write, the reload and the putting back itself.
RollbackIsFound ==
  NoMigration =>
  \A p \in Setups : at[p].saved /\ at[p].pc \notin Ended \cup {"own", "unlock"}
                      => rollback = at[p].before

\* There, if config.toml is ever left half-written, by a setup killed while it put the
\* old one back, the rollback copy beside it is whole, and stays so through all
\* later setups.
TornHasRollback == Undisturbed /\ Torned => rollback \in Config

\* There, a setup that reports "previous configuration has been restored" and had one
\* to restore, has restored exactly that.
FailedSetupRestores ==
  [][\A p \in Setups :
       Undisturbed /\ at'[p].outcome = "restored" /\ at[p].outcome # "restored" /\ at[p].saved
         => Holds(at[p].before)']_vars

\* Where nothing is migrated, a setup that reports success leaves the
\* configuration it showed in the preview in config.toml, its integration in
\* ownership.toml, and no rollback copy that a later one could put back.
AppliedIsInstalled ==
  [][\A p \in Setups :
       NoMigration /\ at'[p].outcome = "applied" /\ at[p].outcome # "applied"
         => /\ Holds(at[p].want)'
            /\ ownership' = at[p].want.name
            /\ rollback' = None]_vars

\* The profiles of 1.0.x are never lost: however many commands migrate at once
\* and wherever they are killed, the file is there under its old name, or, with
\* config.toml written, as the backup.
LegacyKept == scene.start = "legacy" => profiles = "v1" \/ (bak = "v1" /\ config # None)

\* Commands that start at the same time on a directory of 1.0.x end with
\* config.toml whole, profiles.toml gone and a backup there, and one of them at
\* least with the configuration loaded.
MigrationSettles ==
  /\ scene.start \in {"legacy", "downgraded"} /\ scene.faults = {}
  /\ scene.procs # {} /\ scene.procs \subseteq Loaders
  => <>[](/\ Holds(Migrated) /\ profiles = None /\ bak # None
          /\ \E p \in Procs : at[p].outcome = "loaded")

-----------------------------------------------------------------------------
\* What the comments, the error messages and the documents say beyond this.

\* migration.rs:41: the migration does not overwrite an existing config.toml.
MigrationKeepsConfig ==
  [][\A p \in Procs :
       At(p, "rename") /\ at[p].phase = "detect" /\ config' # config
         => config = None \/ data[config] = at[p].want]_vars

\* Either config.toml is written and the backup is made, or neither
\* (M03_CONFIG_DESIGN.md:174).
MigrationAllOrNothing ==
  (\A p \in Procs : at[p].pc \in Ended \cup {"exists"}) /\ Holds(Migrated) => profiles = None

\* config.toml is written atomically (utils.rs:15): nobody finds it half-written, unless a
\* setup is putting the old one back.
ConfigWhole == Torned => \E p \in Setups : At(p, "refill")
=============================================================================
