---------------------------- MODULE ClientConnect ----------------------------
(***************************************************************************)
(* `toche connect claude' and `toche disconnect claude'                    *)
(* (integrations/mod.rs, integrations/claude/config.rs): the two URLs that *)
(* Toche owns in ~/.claude/settings.json, the backup beside it and the URL *)
(* that is noted in the configuration directory.                           *)
(*                                                                         *)
(* The commands take no lock, and the settings belong to somebody else:    *)
(* the user and Claude Code edit them as they like.  As in ConfigStore,    *)
(* files that are written through settings.tmp are inodes.                 *)
(***************************************************************************)
EXTENDS Naturals, FiniteSets

CONSTANTS
  Commands,     \* processes that connect or disconnect once
  AtOnce,       \* how many of them run at the same time
  Nodes,        \* inodes
  Urls,         \* the user's own URLs
  Others,       \* values of everything else in the settings
  Scenarios,    \* the combinations of edits and faults of this instance
  MaxEdits,     \* how often the user edits the settings
  Toche,        \* the URL of the gateway
  Bare,         \* an env object without ANTHROPIC_BASE_URL
  Blank,        \* the empty text
  None,         \* no file, no entry, nothing
  Torn          \* a file that is not, or only partly, written

EditKinds ==
  { "other",    \* changes something else, while no command runs
    "midway",   \* changes something else, while a command runs
    "urls",     \* changes the URLs, while they are not Toche's
    "revert",   \* changes the URLs, while they are Toche's
    "backup" }  \* removes the backup

ConnectFaultKinds ==
  { "crash",    \* a process is killed
    "io" }      \* a file operation fails

\* What the program tells apart in settings.json: baseURL,
\* env.ANTHROPIC_BASE_URL, and the rest.
Doc ==
  [base : Urls \cup {Toche, None}, env : Urls \cup {Toche, Blank, Bare, None},
   other : Others \cup {None}]

ASSUME ConnectAssumption ==
  /\ AtOnce \in Nat \ {0} /\ MaxEdits \in Nat
  /\ IsFiniteSet(Commands)
  /\ {Toche, Bare, Blank, None, Torn} \cap (Urls \cup Nodes \cup Commands) = {}
  /\ Toche \notin {Bare, Blank, None, Torn} /\ Bare \notin {Blank, None, Torn}
  /\ Blank \notin {None, Torn} /\ None \notin {Torn, "disconnected"}
  /\ None \notin Doc /\ Torn \notin Doc
  /\ Scenarios \subseteq SUBSET (EditKinds \cup ConnectFaultKinds)

VARIABLES
  settings,     \* the inode of settings.json
  tmp,          \* the inode of settings.tmp
  data,         \* data[n]: what inode n holds
  backup,       \* settings.json.toche-backup
  noted,        \* pre_toche_url.txt
  mine,         \* the URLs that the user chose last (history)
  edits,        \* how often the user has edited the settings (history)
  at,           \* at[p]: the program counter and locals of process p
  may           \* what the user does, and what goes wrong, in this behaviour

files == <<settings, tmp, data>>

\* What the user has done, and what may happen.
user == <<mine, edits, may>>

vars == <<settings, tmp, data, backup, noted, mine, edits, at, may>>

Ended == {"done", "dead"}

\* Where a command can be.
Steps ==
  {"idle", "look", "apply", "backup", "copy", "copied", "open", "fill", "rename", "note", "noted",
   "leave", "find", "restore", "structured", "clean", "unback", "unnote"} \cup Ended

Local ==
  [ pc : Steps,
    what : {"connect", "disconnect"},
    want : Doc \cup {None},         \* what is to be written
    url : Urls \cup {None},         \* the original ANTHROPIC_BASE_URL
    fd : Nodes \cup {None},         \* the inode it has open
    after : {"note", "unback", "clean", "unnote"},  \* where it goes from the write
    outcome : {None, "already", "connected", "notconnected", "disconnected", "failed"} ]

\* One type invariant: what each variable may hold.
TypeOK ==
  /\ settings \in Nodes \cup {None}
  /\ tmp \in Nodes \cup {None}
  /\ data \in [Nodes -> Doc \cup {Torn}]
  /\ backup \in Doc \cup {None, Torn}
  /\ noted \in Urls \cup {None, Blank}
  /\ mine \in [base : Urls \cup {None}, env : Urls \cup {None}]
  /\ edits \in 0 .. MaxEdits
  /\ at \in [Commands -> Local]
  /\ may \in Scenarios

Fresh(pc) ==
  [pc |-> pc, what |-> "connect", want |-> None, url |-> None, fd |-> None,
   after |-> "note", outcome |-> None]

\* An empty env object and none at all are the same to the user.
UrlsOf(doc) == [base |-> doc.base, env |-> IF doc.env = Bare THEN None ELSE doc.env]

Init ==
  /\ \/ settings = None /\ data = [n \in Nodes |-> Torn] /\ mine = [base |-> None, env |-> None]
     \/ \E n \in Nodes, doc \in Doc :
          /\ {Toche, Blank} \cap {doc.base, doc.env} = {} /\ doc.other # None
          /\ settings = n
          /\ data = [x \in Nodes |-> IF x = n THEN doc ELSE Torn]
          /\ mine = UrlsOf(doc)
  /\ tmp = None /\ backup = None /\ noted = None /\ edits = 0
  /\ at = [p \in Commands |-> Fresh("idle")]
  /\ may \in Scenarios

-----------------------------------------------------------------------------
At(p, pc) == at[p].pc = pc

Running(p) == at[p].pc \notin Ended \cup {"idle"}

Go(p, pc) == at' = [at EXCEPT ![p].pc = pc]

\* The process ends, and only its outcome is left of it.
End(p, outcome) ==
  at' = [at EXCEPT ![p] = [Fresh("done") EXCEPT !.what = at[p].what, !.outcome = outcome]]

\* points_to_toche
Points(doc) == Toche \in {doc.base, doc.env}

IsDirect == settings # None => data[settings] # Torn /\ ~Points(data[settings])

\* A command is started.  Connect has asked the gateway for its readiness.
Begin(p) ==
  /\ At(p, "idle")
  /\ Cardinality({q \in Commands : Running(q)}) < AtOnce
  /\ \E what \in {"connect", "disconnect"} :
       at' = [at EXCEPT ![p].pc = IF what = "connect" THEN "look" ELSE "leave", ![p].what = what]
  /\ UNCHANGED <<files, backup, noted, user>>

-----------------------------------------------------------------------------
(* connect                                                                  *)

\* claude::config::connect looks whether there is something to do.
Look(p) ==
  /\ At(p, "look")
  /\ IF settings = None THEN Go(p, "apply")
     ELSE IF data[settings] = Torn THEN End(p, "failed")
     ELSE IF Points(data[settings]) THEN End(p, "already")
     ELSE Go(p, "apply")
  /\ UNCHANGED <<files, backup, noted, user>>

\* What becomes of the settings.
Applied(doc) == [doc EXCEPT !.base = Toche, !.env = Toche]

\* apply_owned_fragment reads them again and decides what to write.
Apply(p) ==
  /\ At(p, "apply")
  /\ IF settings = None
     THEN at' = [at EXCEPT ![p].pc = "backup",
                           ![p].want = [base |-> Toche, env |-> Toche, other |-> None]]
     ELSE LET doc == data[settings] IN
          IF doc = Torn THEN End(p, "failed")
          ELSE IF Points(doc) THEN End(p, "already")
          ELSE at' = [at EXCEPT ![p].pc = "backup", ![p].want = Applied(doc),
                                ![p].url = IF doc.env \in Urls THEN doc.env ELSE None]
  /\ UNCHANGED <<files, backup, noted, user>>

\* A backup is made unless there is one.
Backup(p) ==
  /\ At(p, "backup")
  /\ Go(p, IF settings # None /\ backup = None THEN "copy" ELSE "open")
  /\ UNCHANGED <<files, backup, noted, user>>

\* fs::copy opens the one, and creates or truncates the other, ...
Copy(p) ==
  /\ At(p, "copy")
  /\ at' = [at EXCEPT ![p].pc = "copied", ![p].fd = settings]
  /\ backup' = Torn
  /\ UNCHANGED <<files, noted, user>>

\* ... and copies.
Copied(p) ==
  /\ At(p, "copied")
  /\ backup' = data[at[p].fd]
  /\ Go(p, "open")
  /\ UNCHANGED <<files, noted, user>>

-----------------------------------------------------------------------------
(* atomic_write                                                             *)

Free ==
  {n \in Nodes : n # settings /\ n # tmp /\ \A p \in Commands : at[p].pc \in {"copied", "fill"} => at[p].fd # n}

\* fs::write creates settings.tmp, or truncates the one that is there, ...
Open(p) ==
  /\ At(p, "open")
  /\ \E n \in (IF tmp = None THEN Free ELSE {tmp}) :
       /\ tmp' = n
       /\ data' = [data EXCEPT ![n] = Torn]
       /\ at' = [at EXCEPT ![p].pc = "fill", ![p].fd = n]
  /\ UNCHANGED <<settings, backup, noted, user>>

\* ... and writes it.
Fill(p) ==
  LET n == at[p].fd IN
  /\ At(p, "fill")
  /\ \E doc \in {at[p].want} \cup
                (IF data[n] \in {Torn, at[p].want} THEN {} ELSE {Torn}) :
       data' = [data EXCEPT ![n] = doc]
  /\ Go(p, "rename")
  /\ UNCHANGED <<settings, tmp, backup, noted, user>>

\* Whoever wrote settings.tmp, it becomes settings.json.
Rename(p) ==
  /\ At(p, "rename")
  /\ IF tmp = None
     THEN End(p, "failed") /\ UNCHANGED files
     ELSE /\ settings' = tmp
          /\ tmp' = None
          /\ UNCHANGED data
          /\ Go(p, at[p].after)
  /\ UNCHANGED <<backup, noted, user>>

-----------------------------------------------------------------------------
(* The end of connect: the original URL is noted, and a failure ignored.    *)

Note(p) ==
  /\ At(p, "note")
  /\ IF at[p].url = None
     THEN End(p, "already") /\ UNCHANGED noted
     ELSE Go(p, "noted") /\ noted' = Blank
  /\ UNCHANGED <<files, backup, user>>

Noted(p) ==
  /\ At(p, "noted")
  /\ noted' = at[p].url
  /\ End(p, "connected")
  /\ UNCHANGED <<files, backup, user>>

-----------------------------------------------------------------------------
(* disconnect                                                               *)

\* remove_owned_fragment reads the settings.
Leave(p) ==
  /\ At(p, "leave")
  /\ IF settings = None THEN End(p, "notconnected")
     ELSE IF data[settings] = Torn THEN End(p, "failed")
     ELSE IF ~Points(data[settings]) THEN End(p, "notconnected")
     ELSE at' = [at EXCEPT ![p].pc = "find", ![p].want = data[settings]]
  /\ UNCHANGED <<files, backup, noted, user>>

\* The backup is looked for ...
Find(p) ==
  /\ At(p, "find")
  /\ Go(p, IF backup = None THEN "structured" ELSE "restore")
  /\ UNCHANGED <<files, backup, noted, user>>

\* Mutant of Restored: only baseURL is restored.
RestoredBase(doc) == [doc EXCEPT !.base = backup.base]

\* ... and read, and its URLs put into the settings that were read.  An env
\* object that is not there is not made.
Restored(doc) ==
  [doc EXCEPT !.base = backup.base,
              !.env = IF doc.env = None THEN None
                      ELSE IF backup.env \in {None, Bare} THEN Bare ELSE backup.env]

\* Mutant of Restore: the backup as a whole is put back.
RestoreAll(p) ==
  /\ At(p, "restore")
  /\ IF backup \in {None, Torn} THEN End(p, "failed")
     ELSE at' = [at EXCEPT ![p].pc = "open", ![p].after = "unback", ![p].want = backup]
  /\ UNCHANGED <<files, backup, noted, user>>

\* Mutant of Restore: the backup is removed as soon as it is read.
RestoreOnce(p) ==
  /\ At(p, "restore")
  /\ IF backup \in {None, Torn} THEN End(p, "failed") /\ UNCHANGED backup
     ELSE /\ at' = [at EXCEPT ![p].pc = "open", ![p].after = "unnote",
                              ![p].want = Restored(at[p].want)]
          /\ backup' = None
  /\ UNCHANGED <<files, noted, user>>

Restore(p) ==
  /\ At(p, "restore")
  /\ IF backup \in {None, Torn} THEN End(p, "failed")
     ELSE at' = [at EXCEPT ![p].pc = "open", ![p].after = "unback",
                           ![p].want = Restored(at[p].want)]
  /\ UNCHANGED <<files, backup, noted, user>>

\* update_env_toche
EnvLeft(doc, saved) ==
  IF doc.env # Toche THEN doc.env ELSE IF saved = None THEN Bare ELSE saved

\* Without a backup the URLs are removed, and the noted one put back.  A note
\* that cannot be read is none.
Structured(p) ==
  LET doc == at[p].want IN
  /\ At(p, "structured")
  /\ \E saved \in {noted} \cup (IF "io" \in may THEN {None} ELSE {}) :
       LET env == EnvLeft(doc, saved) IN
       at' = [at EXCEPT ![p].pc = "open",
                        ![p].after = IF doc.env = Toche /\ env = Bare THEN "clean" ELSE "unnote",
                        ![p].want = [doc EXCEPT !.base = None, !.env = env]]
  /\ UNCHANGED <<files, backup, noted, user>>

\* An env object that has become empty is removed, in a write of its own.
Clean(p) ==
  LET doc == data[settings] IN
  /\ At(p, "clean")
  /\ IF doc = Torn THEN End(p, "failed")
     ELSE at' = [at EXCEPT ![p].pc = "open", ![p].after = "unnote",
                           ![p].want = [doc EXCEPT !.env = IF @ = Bare THEN None ELSE @]]
  /\ UNCHANGED <<files, backup, noted, user>>

\* The backup is removed ...
Unback(p) ==
  /\ At(p, "unback")
  /\ IF backup = None THEN End(p, "failed") ELSE Go(p, "unnote")
  /\ backup' = None
  /\ UNCHANGED <<files, noted, user>>

\* ... and the note, if that can be done.
Unnote(p) ==
  /\ At(p, "unnote")
  /\ noted' \in {None} \cup (IF "io" \in may THEN {noted} ELSE {})
  /\ End(p, "disconnected")
  /\ UNCHANGED <<files, backup, user>>

-----------------------------------------------------------------------------
(* What goes wrong, and what the user does.                                 *)

IoFails(p) ==
  /\ "io" \in may
  /\ at[p].pc \in {"look", "apply", "copy", "copied", "open", "rename", "leave", "restore",
                   "clean", "unback"}
  /\ End(p, "failed")
  /\ UNCHANGED <<files, backup, noted, user>>

\* fs::write fails half-way: settings.tmp stays behind as it is.
WriteFails(p) ==
  /\ "io" \in may
  /\ At(p, "fill")
  /\ data' = [data EXCEPT ![at[p].fd] = Torn]
  /\ End(p, "failed")
  /\ UNCHANGED <<settings, tmp, backup, noted, user>>

\* The note cannot be written, and nobody is told.
NoteFails(p) ==
  /\ "io" \in may
  /\ \/ At(p, "note") /\ at[p].url # None
     \/ At(p, "noted")
  /\ End(p, "connected")
  /\ UNCHANGED <<files, backup, noted, user>>

Crash(p) ==
  /\ "crash" \in may
  /\ Running(p)
  /\ at' = [at EXCEPT ![p] = [Fresh("dead") EXCEPT !.what = at[p].what]]
  /\ UNCHANGED <<files, backup, noted, user>>

Quiet == \A p \in Commands : ~Running(p)

Edited(doc) ==
  /\ edits < MaxEdits
  /\ edits' = edits + 1
  /\ settings # None /\ data[settings] # Torn
  /\ data' = [data EXCEPT ![settings] = doc]
  /\ UNCHANGED <<settings, tmp, backup, noted, at, may>>

EditOther ==
  /\ IF Quiet THEN "other" \in may ELSE "midway" \in may
  /\ \E other \in Others : Edited([data[settings] EXCEPT !.other = other])
  /\ UNCHANGED mine

EditUrls ==
  /\ Quiet
  /\ (IF IsDirect THEN "urls" ELSE "revert") \in may
  /\ \E base \in Urls \cup {None}, env \in Urls \cup {None} :
       /\ Edited([data[settings] EXCEPT !.base = base, !.env = env])
       /\ mine' = [base |-> base, env |-> env]

RemoveBackup ==
  /\ "backup" \in may /\ Quiet
  /\ backup # None
  /\ backup' = None
  /\ UNCHANGED <<files, noted, user, at>>

-----------------------------------------------------------------------------
Connect(p) ==
  Look(p) \/ Apply(p) \/ Backup(p) \/ Copy(p) \/ Copied(p) \/ Note(p) \/ Noted(p)

Disconnect(p) ==
  \/ Leave(p) \/ Find(p) \/ Restore(p) \/ Structured(p) \/ Clean(p) \/ Unback(p) \/ Unnote(p)

Write(p) == Open(p) \/ Fill(p) \/ Rename(p)

Fault(p) == IoFails(p) \/ WriteFails(p) \/ NoteFails(p) \/ Crash(p)

User == EditOther \/ EditUrls \/ RemoveBackup

Next ==
  \/ \E p \in Commands : Begin(p) \/ Connect(p) \/ Disconnect(p) \/ Write(p) \/ Fault(p)
  \/ User

Spec == Init /\ [][Next]_vars

-----------------------------------------------------------------------------
\* The settings as they are, while there are any.
Now == data[settings]

\* Whenever the settings do not route through Toche, they hold the URLs that the
\* user chose last: before, during and after any number of connects and
\* disconnects, wherever they fail or are killed; or, if none does, whichever
\* URLs the user chooses between two connections.  The environment URL, which
\* is noted, does so even when the user has removed the backup.
UrlsAreMine ==
  settings # None /\ IsDirect =>
    /\ \/ may \subseteq {"other", "midway"} \cup ConnectFaultKinds
       \/ may \subseteq {"other", "midway", "urls"}
       => UrlsOf(Now) = mine
    /\ may \subseteq {"other", "midway", "urls", "backup"} => UrlsOf(Now).env = mine.env

\* A disconnect that reports success has left nothing that routes through Toche.
DisconnectedIsDirect ==
  [][\A p \in Commands :
       at'[p].outcome = "disconnected" /\ at[p].outcome # "disconnected" => IsDirect']_vars

\* What the user changes elsewhere in the settings while no command runs,
\* connected or not, only the user changes: a disconnect does not put the rest
\* of its backup back, and no command loses an edit.
OtherIsKept ==
  [][settings # None /\ settings' # None /\ Now'.other # Now.other
       => edits' # edits \/ "midway" \in may]_vars

-----------------------------------------------------------------------------
\* What the documents and the tests say beyond this.

\* The backup preserves the original upstream (CHANGELOG.md:214): it never
\* routes through Toche.
BackupIsUpstream == backup \in Doc => ~Points(backup)

\* An edit in the middle of a command is kept too: the command writes the whole
\* document back as it read it, and the edit is gone (integrations/mod.rs:93).
EveryEditIsKept ==
  [][settings # None /\ settings' # None /\ Now'.other # Now.other => edits' # edits]_vars

\* Disconnect gives the direct configuration back (README.md:199): it does not
\* fail on its own.
DisconnectWorks ==
  \A p \in Commands : at[p].what = "disconnect" => at[p].outcome # "failed"
=============================================================================
