---------------------------- MODULE CodexConnect ----------------------------
(***************************************************************************)
(* `toche connect codex` and `toche disconnect codex`                       *)
(* (integrations/codex/config.rs, discovery.rs): the openai_base_url that   *)
(* Toche owns in ~/.codex/config.toml, the backup beside it and the URL     *)
(* that is noted in the configuration directory; beside the launches, whose *)
(* runtimes answer the question whether the gateway is ready.               *)
(*                                                                         *)
(* One command runs at a time, and config.toml is replaced in one step:     *)
(* ClientConnect has the same writes operation by operation.                *)
(***************************************************************************)
EXTENDS ManagedLaunch

CONSTANTS
  Addresses,    \* the user's own URLs
  Rest,         \* values of everything else in config.toml
  MaxCommands,  \* how many commands the user runs
  MaxChanges    \* how often the user changes config.toml

ASSUME CodexAssumption ==
  /\ MaxCommands \in Nat /\ MaxChanges \in Nat
  /\ "toche" \notin Addresses \cup {None}

\* What the program tells apart in config.toml: openai_base_url, the base_url of
\* some table, whether the gateway's address is anywhere else in the text,
\* whether the text is TOML, and the rest.
Toml ==
  [top : Addresses \cup {"toche", "blank", None}, table : Addresses \cup {None},
   mention : BOOLEAN, whole : BOOLEAN, rest : Rest \cup {None}]

ASSUME TomlAssumption == None \notin Toml

EmptyToml == [top |-> None, table |-> None, mention |-> FALSE, whole |-> TRUE, rest |-> None]

CodexStages ==
  {"idle", "ready", "read", "backup", "note", "write", "leave", "restore",
   "structured", "forget", "unnote"}

CodexTypeOK ==
  codex \in [conf : Toml \cup {None}, backup : Toml \cup {None},
             note : Addresses \cup {"blank", None}, pc : CodexStages,
             doc : Toml, url : Addresses \cup {"blank", None},
             outcome : {None, "already", "connected", "notconnected",
                        "disconnected", "failed", "dead"},
             top : Addresses \cup {None}, table : Addresses \cup {None},
             commands : 0 .. MaxCommands, changes : 0 .. MaxChanges]

CodexInit ==
  /\ \E top \in Addresses \cup {None}, table \in Addresses \cup {None}, there \in BOOLEAN :
       /\ ~there => top = None /\ table = None
       /\ cast.codex = None => ~there
       /\ codex = [conf |-> IF there THEN [EmptyToml EXCEPT !.top = top, !.table = table]
                            ELSE None,
                   backup |-> None, note |-> None, pc |-> "idle", doc |-> EmptyToml,
                   url |-> None, outcome |-> None, top |-> top, table |-> table,
                   commands |-> 0, changes |-> 0]

-----------------------------------------------------------------------------
Does(kind) == cast.codex # None /\ kind \in cast.codex

CodexAt(pc) == codex.pc = pc

\* A command ends, and nothing but its outcome is left of it.
CodexEnds(c, outcome) ==
  codex' = [c EXCEPT !.pc = "idle", !.doc = EmptyToml, !.url = None, !.outcome = outcome]

\* points_to_toche: the address is anywhere in the text.
PointsToToche(doc) == doc.top = "toche" \/ doc.mention

\* codex_upstream_url_from_toml: the first of the lines that set a URL; keys of
\* tables come after all others.
UpstreamUrl(doc) == IF doc.top # None THEN doc.top ELSE doc.table

CodexBegins ==
  /\ cast.codex # None /\ CodexAt("idle") /\ codex.commands < MaxCommands
  /\ \E pc \in {"ready", "leave"} :
       codex' = [codex EXCEPT !.pc = pc, !.commands = @ + 1, !.outcome = None]
  /\ UNCHANGED <<launchVars, cast>>

\* ready(): the runtime that answers reads the configuration again.
Ready ==
  /\ port["8743"] # None /\ port["8743"].kind = "runtime"
  /\ disk.valid /\ disk.default

\* connect_codex asks, and gives up unless the gateway says that it is ready.
AskReady ==
  /\ CodexAt("ready") /\ ~Mute
  /\ IF Ready THEN codex' = [codex EXCEPT !.pc = "read"] ELSE CodexEnds(codex, "failed")
  /\ UNCHANGED <<launchVars, cast>>

\* connect and apply_owned_fragment read the file.
ReadConfig ==
  LET doc == IF codex.conf = None THEN EmptyToml ELSE codex.conf IN
  /\ CodexAt("read")
  /\ IF PointsToToche(doc) THEN CodexEnds(codex, "already")
     ELSE codex' = [codex EXCEPT !.pc = "backup", !.doc = doc, !.url = UpstreamUrl(doc)]
  /\ UNCHANGED <<launchVars, cast>>

\* A backup is made unless there is one.
MakeBackup ==
  /\ CodexAt("backup")
  /\ codex' = [codex EXCEPT !.pc = "note",
                            !.backup = IF @ = None THEN codex.conf ELSE @]
  /\ UNCHANGED <<launchVars, cast>>

\* Whatever part of it is there is a backup to the next command: nothing, which
\* is TOML, or a piece that is not.
TearBackup ==
  /\ Does("tear") /\ CodexAt("backup")
  /\ codex.backup = None /\ codex.conf # None
  /\ \E whole \in BOOLEAN :
       CodexEnds([codex EXCEPT !.backup = [EmptyToml EXCEPT !.whole = whole]], "failed")
  /\ UNCHANGED <<launchVars, cast>>

\* The URL is noted, if there is one, and a failure ignored.
NoteUrl ==
  /\ CodexAt("note")
  /\ \E note \in IF codex.url = None THEN {codex.note}
                 ELSE {codex.url} \cup (IF Does("io") THEN {codex.note, "blank"} ELSE {}) :
       codex' = [codex EXCEPT !.pc = "write", !.note = note]
  /\ UNCHANGED <<launchVars, cast>>

\* The file is parsed, changed and replaced; without an original URL the
\* outcome is the same as if nothing had been done.
WriteConfig ==
  /\ CodexAt("write")
  /\ IF ~codex.doc.whole THEN CodexEnds(codex, "failed")
     ELSE CodexEnds([codex EXCEPT !.conf = [codex.doc EXCEPT !.top = "toche"]],
                    IF codex.url = None THEN "already" ELSE "connected")
  /\ UNCHANGED <<launchVars, cast>>

-----------------------------------------------------------------------------
\* remove_owned_fragment reads the file and looks for a backup.
LeaveCodex ==
  /\ CodexAt("leave")
  /\ IF codex.conf = None \/ (codex.conf # None /\ ~PointsToToche(codex.conf))
     THEN CodexEnds(codex, "notconnected")
     ELSE codex' = [codex EXCEPT !.doc = codex.conf,
                      !.pc = IF codex.backup = None THEN "structured" ELSE "restore"]
  /\ UNCHANGED <<launchVars, cast>>

\* Mutant of RestoreConfig: the whole backup is put back.
RestoreBackup ==
  /\ CodexAt("restore")
  /\ IF ~codex.doc.whole \/ ~codex.backup.whole THEN CodexEnds(codex, "failed")
     ELSE codex' = [codex EXCEPT !.pc = "forget", !.conf = codex.backup]
  /\ UNCHANGED <<launchVars, cast>>

\* Mutant of RestoreConfig: the backup is gone before it is known that the
\* file can be written.
RestoreOnce ==
  /\ CodexAt("restore")
  /\ codex' = [codex EXCEPT !.pc = "structured", !.backup = None]
  /\ UNCHANGED <<launchVars, cast>>

\* With a backup: its URL, in the file as it is.
RestoreConfig ==
  /\ CodexAt("restore")
  /\ IF ~codex.doc.whole \/ ~codex.backup.whole THEN CodexEnds(codex, "failed")
     ELSE codex' = [codex EXCEPT !.pc = "forget",
                                 !.conf = [codex.doc EXCEPT !.top = codex.backup.top]]
  /\ UNCHANGED <<launchVars, cast>>

\* Without one: the noted URL, if the file's is Toche's.
StructuredRemove ==
  /\ CodexAt("structured")
  /\ IF ~codex.doc.whole THEN CodexEnds(codex, "failed")
     ELSE \E saved \in {codex.note} \cup (IF Does("io") THEN {None} ELSE {}) :
            codex' = [codex EXCEPT !.pc = "unnote",
                        !.conf = [codex.doc EXCEPT !.top = IF @ = "toche" THEN saved ELSE @]]
  /\ UNCHANGED <<launchVars, cast>>

\* The backup is removed, if that can be done, ...
ForgetBackup ==
  /\ CodexAt("forget")
  /\ \E backup \in {None} \cup (IF Does("io") THEN {codex.backup} ELSE {}) :
       codex' = [codex EXCEPT !.pc = "unnote", !.backup = backup]
  /\ UNCHANGED <<launchVars, cast>>

\* ... and so is the note.
RemoveNote ==
  /\ CodexAt("unnote")
  /\ \E note \in {None} \cup (IF Does("io") THEN {codex.note} ELSE {}) :
       CodexEnds([codex EXCEPT !.note = note], "disconnected")
  /\ UNCHANGED <<launchVars, cast>>

-----------------------------------------------------------------------------
\* A read, the copy before it has begun, or the replacement of the file fails.
CodexFails ==
  /\ Does("io")
  /\ codex.pc \in {"read", "backup", "write", "leave", "restore", "structured"}
  /\ CodexEnds(codex, "failed")
  /\ UNCHANGED <<launchVars, cast>>

CodexKilled ==
  /\ Does("crash") /\ ~CodexAt("idle")
  /\ CodexEnds(codex, "dead")
  /\ UNCHANGED <<launchVars, cast>>

Changed(c) ==
  /\ CodexAt("idle") /\ codex.changes < MaxChanges
  /\ codex' = [c EXCEPT !.changes = @ + 1]
  /\ UNCHANGED <<launchVars, cast>>

ChangeRest ==
  /\ Does("other") /\ codex.conf # None
  /\ \E rest \in Rest, mention \in BOOLEAN :
       Changed([codex EXCEPT !.conf.rest = rest, !.conf.mention = mention])

BreakToml ==
  /\ Does("break") /\ codex.conf # None
  /\ Changed([codex EXCEPT !.conf.whole = ~@])

ChangeUrls ==
  /\ Does("urls") /\ (codex.conf # None => codex.conf.top # "toche")
  /\ \E top \in Addresses \cup {None}, table \in Addresses \cup {None} :
       LET doc == IF codex.conf = None THEN EmptyToml ELSE codex.conf IN
       Changed([codex EXCEPT !.conf = [doc EXCEPT !.top = top, !.table = table],
                             !.top = top, !.table = table])

RemoveFile ==
  /\ Does("urls") /\ codex.conf # None /\ codex.conf.top # "toche"
  /\ Changed([codex EXCEPT !.conf = None, !.top = None, !.table = None])

DropBackup ==
  /\ Does("backup") /\ codex.backup # None
  /\ Changed([codex EXCEPT !.backup = None])

-----------------------------------------------------------------------------
ConnectCodex ==
  CodexBegins \/ AskReady \/ ReadConfig \/ MakeBackup \/ TearBackup \/ NoteUrl \/ WriteConfig

DisconnectCodex ==
  LeaveCodex \/ RestoreConfig \/ StructuredRemove \/ ForgetBackup \/ RemoveNote

CodexUser == ChangeRest \/ BreakToml \/ ChangeUrls \/ RemoveFile \/ DropBackup

CodexNext == ConnectCodex \/ DisconnectCodex \/ CodexFails \/ CodexKilled \/ CodexUser

ClientsInit == LaunchInit /\ CodexInit

ClientsNext == LaunchNext \/ CodexNext

ClientsSpec == ClientsInit /\ [][ClientsNext]_clientsVars /\ LaunchFairness

-----------------------------------------------------------------------------
(***************************************************************************)
(* Properties.                                                             *)
(***************************************************************************)
ClientsTypeOK == LaunchTypeOK /\ CodexTypeOK

\* Whenever config.toml does not route through Toche it has the URL that the
\* user chose last, however often Codex is connected and disconnected and
\* wherever a command fails or is killed - short of the copy of the backup -,
\* or whichever URLs the user chooses between connections.  A user who removes
\* the backup gets the noted URL, which may be that of a table.
CodexGivesBack ==
  /\ \/ \A kind \in {"urls", "backup", "tear"} : ~Does(kind)
     \/ \A kind \in {"crash", "io", "backup", "tear"} : ~Does(kind)
     \/ \A kind \in {"crash", "io", "break", "tear"} : ~Does(kind)
  /\ codex.conf # None /\ codex.conf.top # "toche"
  => \/ codex.conf.top = codex.top
     \/ Does("backup") /\ codex.top = None /\ codex.conf.top = codex.table

\* The commands own one key: whatever becomes of them and of the backup, a torn
\* one included, they change nothing else in the file and never remove it.
CodexOwnsOneKey ==
  [][codex.conf # None /\ codex'.changes = codex.changes
       => codex'.conf # None
          /\ [codex'.conf EXCEPT !.top = None] = [codex.conf EXCEPT !.top = None]]_clientsVars

-----------------------------------------------------------------------------
\* "Run toche disconnect codex to restore direct client configuration"
\* (README.md:309), after a command that was killed while it copied the backup.
CodexAlwaysGivesBack ==
  codex.conf # None /\ codex.conf.top # "toche" => codex.conf.top = codex.top

\* The readiness probe "verifies the gateway can actually serve traffic"
\* (server.rs:152): requests are served with the integration that the runtime
\* found when it started.
ReadyServes == Ready => server[port["8743"].by].default
=============================================================================
