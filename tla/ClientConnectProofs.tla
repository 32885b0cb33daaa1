------------------------ MODULE ClientConnectProofs -------------------------
(***************************************************************************)
(* Proofs about connect and disconnect of Claude Code, for any number of   *)
(* commands, URLs and edits, and any scenarios: types however many         *)
(* commands run at the same time, the rest for commands that do not        *)
(* overlap (two that do, refute BackupIsUpstream).                         *)
(***************************************************************************)
EXTENDS ClientConnect, TLAPS, FiniteSetTheorems

(***************************************************************************)
(* What the actions do to the process that takes them.                     *)
(***************************************************************************)
\* What a process has when it gets to where it needs it.
LocalOK(p) ==
  /\ at[p].pc \in {"backup", "copy", "copied", "open", "fill", "find", "restore", "structured"}
       => at[p].want \in Doc
  /\ at[p].pc \in {"copied", "fill"} => at[p].fd \in Nodes
  /\ at[p].pc = "noted" => at[p].url \in Urls
  /\ at[p].pc \in {"copy", "clean"} => settings # None

TypeInv == TypeOK /\ \A p \in Commands : LocalOK(p)

Outcomes == {None, "already", "connected", "notconnected", "disconnected", "failed"}

Becomes(p, l) == at' = [at EXCEPT ![p] = l]

\* No process but p moves.
Only(p) ==
  /\ at' \in [Commands -> Local]
  /\ \A q \in Commands : q # p => at'[q] = at[q]

\* A process becomes what the action makes of it.
LEMMA BecomesIs ==
  ASSUME TypeOK, NEW p \in Commands, NEW l \in Local, Becomes(p, l)
  PROVE  Only(p) /\ at'[p] = l
BY DEF TypeOK, Becomes, Only

\* It goes on and keeps its locals, ...
LEMMA GoIs ==
  ASSUME TypeOK, NEW p \in Commands, NEW pc \in Steps, Go(p, pc)
  PROVE  /\ Only(p)
         /\ at'[p].pc = pc /\ at'[p].what = at[p].what /\ at'[p].want = at[p].want
         /\ at'[p].url = at[p].url /\ at'[p].fd = at[p].fd
         /\ at'[p].after = at[p].after /\ at'[p].outcome = at[p].outcome
<1> DEFINE l == [at[p] EXCEPT !.pc = pc]
<1>1. at[p] \in Local BY DEF TypeOK
<1>2. /\ l \in Local /\ l.pc = pc /\ l.what = at[p].what /\ l.want = at[p].want
      /\ l.url = at[p].url /\ l.fd = at[p].fd /\ l.after = at[p].after
      /\ l.outcome = at[p].outcome
  BY <1>1 DEF Local
<1>3. Becomes(p, l) BY DEF Go, Becomes
<1> HIDE DEF l
<1> QED BY <1>2, <1>3, BecomesIs

\* ... or ends and has only its outcome.
LEMMA EndIs ==
  ASSUME TypeOK, NEW p \in Commands, NEW outcome \in Outcomes, End(p, outcome)
  PROVE  /\ Only(p)
         /\ at'[p].pc = "done" /\ at'[p].what = at[p].what /\ at'[p].outcome = outcome
<1> DEFINE l == [Fresh("done") EXCEPT !.what = at[p].what, !.outcome = outcome]
<1>1. at[p] \in Local BY DEF TypeOK
<1>2. l \in Local BY <1>1 DEF Local, Fresh, Outcomes, Steps, Ended
<1>3. l.pc = "done" /\ l.what = at[p].what /\ l.outcome = outcome BY DEF Fresh
<1>4. Becomes(p, l) BY DEF End, Becomes
<1> HIDE DEF l
<1> QED BY <1>2, <1>3, <1>4, BecomesIs

\* A command starts with the locals it has.
LEMMA BeginIs ==
  ASSUME TypeOK, NEW p \in Commands, Begin(p)
  PROVE  /\ Only(p)
         /\ \/ at'[p].pc = "look" /\ at'[p].what = "connect"
            \/ at'[p].pc = "leave" /\ at'[p].what = "disconnect"
         /\ at'[p].url = at[p].url /\ at'[p].after = at[p].after
         /\ at'[p].outcome = at[p].outcome
<1>1. PICK what \in {"connect", "disconnect"} :
        Becomes(p, [at[p] EXCEPT !.pc = IF what = "connect" THEN "look" ELSE "leave",
                                 !.what = what])
  BY DEF Begin, Becomes
<1> DEFINE l == [at[p] EXCEPT !.pc = IF what = "connect" THEN "look" ELSE "leave",
                              !.what = what]
<1>2. at[p] \in Local BY DEF TypeOK
<1>3. l \in Local BY <1>2 DEF Local, Steps
<1>4. /\ l.pc = (IF what = "connect" THEN "look" ELSE "leave")
      /\ l.what = what /\ l.url = at[p].url /\ l.after = at[p].after
      /\ l.outcome = at[p].outcome
  BY <1>2 DEF Local
<1> HIDE DEF l
<1>5. Only(p) /\ at'[p] = l
  BY <1>1, <1>3, BecomesIs DEF l
<1> QED BY <1>4, <1>5

\* What a connect writes is a document that routes through Toche wholly.
LEMMA AppliedIs ==
  \A doc \in Doc : /\ Applied(doc) \in Doc
                   /\ Applied(doc).other = doc.other
                   /\ Applied(doc).base = Toche /\ Applied(doc).env = Toche
BY DEF Doc, Applied

\* What is planned is of the settings that were read.
LEMMA ApplyIs ==
  ASSUME TypeOK, NEW p \in Commands, Apply(p)
  PROVE  /\ Only(p)
         /\ \/ at'[p].pc = "done" /\ at'[p].what = at[p].what
               /\ at'[p].outcome \in {"failed", "already"}
               /\ (at'[p].outcome = "already" => settings # None /\ Points(Now))
            \/ /\ at'[p].pc = "backup" /\ at'[p].what = at[p].what
               /\ at'[p].after = at[p].after /\ at'[p].outcome = at[p].outcome
               /\ at'[p].want \in Doc /\ at'[p].want.base = Toche /\ at'[p].want.env = Toche
               /\ \/ settings = None /\ at'[p].url = at[p].url
                  \/ /\ settings # None /\ Now \in Doc /\ ~Points(Now)
                     /\ at'[p].want.other = Now.other
                     /\ at'[p].url = IF Now.env \in Urls THEN Now.env ELSE None
<1>1. at[p] \in Local BY DEF TypeOK
<1>2. CASE settings = None
  <2> DEFINE doc == [base |-> Toche, env |-> Toche, other |-> None]
  <2>1. doc \in Doc /\ doc.base = Toche /\ doc.env = Toche BY DEF Doc
  <2> HIDE DEF doc
  <2> DEFINE l == [at[p] EXCEPT !.pc = "backup", !.want = doc]
  <2>2. Becomes(p, l) BY <1>2 DEF Apply, Becomes, doc
  <2>3. /\ l \in Local /\ l.pc = "backup" /\ l.want = doc /\ l.what = at[p].what
        /\ l.url = at[p].url /\ l.after = at[p].after /\ l.outcome = at[p].outcome
    BY <1>1, <2>1 DEF Local, Steps
  <2> HIDE DEF l
  <2>4. Only(p) /\ at'[p] = l BY <2>2, <2>3, BecomesIs
  <2> QED BY <1>2, <2>1, <2>3, <2>4
<1>3. CASE settings # None /\ (data[settings] = Torn \/ Points(data[settings]))
  <2>1. PICK o \in {"failed", "already"} : End(p, o) /\ (o = "already" => Points(Now))
    BY <1>3 DEF Apply, Now
  <2>2. o \in Outcomes BY DEF Outcomes
  <2> QED BY <1>3, <2>1, <2>2, EndIs DEF Only
<1>4. CASE settings # None /\ data[settings] # Torn /\ ~Points(data[settings])
  <2>1. Now \in Doc BY <1>4 DEF TypeOK, Now
  <2> DEFINE doc == Applied(Now)
  <2>2. doc \in Doc /\ doc.base = Toche /\ doc.env = Toche /\ doc.other = Now.other
    BY <2>1, AppliedIs
  <2> DEFINE url == IF Now.env \in Urls THEN Now.env ELSE None
  <2>3. url \in Urls \cup {None} OBVIOUS
  <2> DEFINE l == [at[p] EXCEPT !.pc = "backup", !.want = doc, !.url = url]
  <2>4. Becomes(p, l) BY <1>4 DEF Apply, Becomes, Now
  <2> HIDE DEF doc, url
  <2>5. /\ l \in Local /\ l.pc = "backup" /\ l.want = doc /\ l.what = at[p].what
        /\ l.url = url /\ l.after = at[p].after /\ l.outcome = at[p].outcome
    BY <1>1, <2>2, <2>3 DEF Local, Steps
  <2> HIDE DEF l
  <2>6. Only(p) /\ at'[p] = l BY <2>4, <2>5, BecomesIs
  <2> QED BY <1>4, <2>1, <2>2, <2>5, <2>6 DEF Now, url
<1> QED BY <1>2, <1>3, <1>4

\* A process that has been killed.
LEMMA CrashIs ==
  ASSUME TypeOK, NEW p \in Commands, Crash(p)
  PROVE  Only(p) /\ at'[p].pc = "dead" /\ at'[p].outcome = None
<1> DEFINE l == [Fresh("dead") EXCEPT !.what = at[p].what]
<1>1. at[p] \in Local BY DEF TypeOK
<1>2. l \in Local BY <1>1 DEF Local, Fresh, Steps, Ended
<1>3. l.pc = "dead" /\ l.outcome = None BY DEF Fresh
<1>4. Becomes(p, l) BY DEF Crash, Becomes
<1> HIDE DEF l
<1> QED BY <1>2, <1>3, <1>4, BecomesIs

\* Who copies has the settings open.
LEMMA CopyIs ==
  ASSUME TypeInv, NEW p \in Commands, Copy(p)
  PROVE  /\ Only(p) /\ settings # None
         /\ at'[p].pc = "copied" /\ at'[p].fd = settings
         /\ at'[p].want = at[p].want /\ at'[p].url = at[p].url
         /\ at'[p].after = at[p].after /\ at'[p].outcome = at[p].outcome
<1>1. at[p] \in Local /\ TypeOK BY DEF TypeInv, TypeOK
<1>2. settings # None BY DEF TypeInv, LocalOK, Copy, At
<1> DEFINE l == [at[p] EXCEPT !.pc = "copied", !.fd = settings]
<1>3. Becomes(p, l) BY DEF Copy, Becomes
<1>4. /\ l \in Local /\ l.pc = "copied" /\ l.fd = settings /\ l.want = at[p].want
      /\ l.url = at[p].url /\ l.after = at[p].after /\ l.outcome = at[p].outcome
  BY <1>1, <1>2 DEF Local, Steps, TypeOK
<1> HIDE DEF l
<1> QED BY <1>1, <1>2, <1>3, <1>4, BecomesIs

\* A write begins on an inode that is not the settings', empty.
LEMMA OpenIs ==
  ASSUME TypeInv, NEW p \in Commands, Open(p)
  PROVE  /\ Only(p)
         /\ at'[p].pc = "fill" /\ at'[p].fd = tmp'
         /\ at'[p].want = at[p].want /\ at'[p].url = at[p].url
         /\ at'[p].after = at[p].after /\ at'[p].outcome = at[p].outcome
         /\ tmp' \in Nodes /\ data' = [data EXCEPT ![tmp'] = Torn]
         /\ tmp' = tmp \/ tmp' \in Free
         /\ settings' = settings
<1>1. at[p] \in Local /\ TypeOK BY DEF TypeInv, TypeOK
<1>2. PICK n \in (IF tmp = None THEN Free ELSE {tmp}) :
        /\ tmp' = n
        /\ data' = [data EXCEPT ![n] = Torn]
        /\ Becomes(p, [at[p] EXCEPT !.pc = "fill", !.fd = n])
  BY DEF Open, Becomes
<1>3. n \in Nodes BY <1>1 DEF TypeOK, Free
<1> DEFINE l == [at[p] EXCEPT !.pc = "fill", !.fd = n]
<1>4. /\ l \in Local /\ l.pc = "fill" /\ l.fd = n /\ l.want = at[p].want
      /\ l.url = at[p].url /\ l.after = at[p].after /\ l.outcome = at[p].outcome
  BY <1>1, <1>3 DEF Local, Steps
<1> HIDE DEF l
<1>5. Only(p) /\ at'[p] = l BY <1>1, <1>2, <1>4, BecomesIs DEF l
<1>6. settings' = settings BY DEF Open
<1> QED BY <1>2, <1>3, <1>4, <1>5, <1>6

\* A disconnect goes on with settings that route through Toche.
LEMMA LeaveIs ==
  ASSUME TypeInv, NEW p \in Commands, Leave(p)
  PROVE  /\ Only(p)
         /\ \/ at'[p].pc = "done" /\ at'[p].outcome \in {"failed", "notconnected"}
            \/ /\ at'[p].pc = "find" /\ at'[p].want = Now
               /\ at'[p].after = at[p].after /\ at'[p].outcome = at[p].outcome
               /\ settings # None /\ Now \in Doc /\ Points(Now)
<1>1. at[p] \in Local /\ TypeOK BY DEF TypeInv, TypeOK
<1>2. CASE settings # None /\ Now # Torn /\ Points(Now)
  <2>1. Now \in Doc BY <1>1, <1>2 DEF TypeOK, Now
  <2> DEFINE l == [at[p] EXCEPT !.pc = "find", !.want = Now]
  <2>2. Becomes(p, l) BY <1>2 DEF Leave, Becomes, Now
  <2>3. /\ l \in Local /\ l.pc = "find" /\ l.want = Now
        /\ l.after = at[p].after /\ l.outcome = at[p].outcome
    BY <1>1, <2>1 DEF Local, Steps
  <2> HIDE DEF l
  <2> QED BY <1>1, <1>2, <2>1, <2>2, <2>3, BecomesIs
<1>3. CASE ~(settings # None /\ Now # Torn /\ Points(Now))
  <2>1. PICK o \in {"failed", "notconnected"} : End(p, o)
    BY <1>3 DEF Leave, Now
  <2>2. o \in Outcomes BY DEF Outcomes
  <2> QED BY <1>1, <2>1, <2>2, EndIs DEF Only
<1> QED BY <1>2, <1>3

\* A restored document routes through Toche only if its backup does.
LEMMA RestoredIs ==
  ASSUME NEW doc \in Doc, backup \in Doc
  PROVE  /\ Restored(doc) \in Doc /\ Restored(doc).other = doc.other
         /\ ~Points(backup) => ~Points(Restored(doc))
         /\ doc.env # None => UrlsOf(Restored(doc)) = UrlsOf(backup)
BY ConnectAssumption DEF Doc, Restored, Points, UrlsOf

\* The backup is used only if it is whole.
LEMMA RestoreIs ==
  ASSUME TypeInv, NEW p \in Commands, Restore(p)
  PROVE  /\ Only(p)
         /\ \/ at'[p].pc = "done" /\ at'[p].outcome = "failed"
            \/ /\ at'[p].pc = "open" /\ at'[p].after = "unback"
               /\ at'[p].want = Restored(at[p].want) /\ at'[p].want \in Doc
               /\ at[p].want \in Doc /\ backup \in Doc /\ at'[p].outcome = at[p].outcome
<1>1. at[p] \in Local /\ TypeOK BY DEF TypeInv, TypeOK
<1>2. CASE backup \in {None, Torn}
  <2>1. End(p, "failed") BY <1>2 DEF Restore
  <2>2. "failed" \in Outcomes BY DEF Outcomes
  <2> QED BY <1>1, <2>1, <2>2, EndIs DEF Only
<1>3. CASE backup \notin {None, Torn}
  <2>1. backup \in Doc BY <1>1, <1>3 DEF TypeOK
  <2>2. at[p].want \in Doc BY DEF TypeInv, LocalOK, Restore, At
  <2> DEFINE doc == Restored(at[p].want)
  <2>3. doc \in Doc BY <2>1, <2>2, RestoredIs
  <2> DEFINE l == [at[p] EXCEPT !.pc = "open", !.after = "unback", !.want = doc]
  <2>4. Becomes(p, l) BY <1>3 DEF Restore, Becomes
  <2> HIDE DEF doc
  <2>5. /\ l \in Local /\ l.pc = "open" /\ l.after = "unback" /\ l.want = doc
        /\ l.outcome = at[p].outcome
    BY <1>1, <2>3 DEF Local, Steps
  <2> HIDE DEF l
  <2> QED BY <1>1, <2>1, <2>2, <2>3, <2>4, <2>5, BecomesIs DEF doc
<1> QED BY <1>2, <1>3

\* Without the backup the URLs are still removed.
LEMMA StructuredIs ==
  ASSUME TypeInv, NEW p \in Commands, Structured(p)
  PROVE  /\ Only(p)
         /\ at'[p].pc = "open" /\ at'[p].after \in {"clean", "unnote"}
         /\ at'[p].outcome = at[p].outcome
         /\ at[p].want \in Doc /\ at'[p].want \in Doc
         /\ at'[p].want.other = at[p].want.other
         /\ ~Points(at'[p].want)
         /\ at'[p].want.base = None
         /\ \E saved \in {noted} \cup (IF "io" \in may THEN {None} ELSE {}) :
              at'[p].want.env = EnvLeft(at[p].want, saved)
<1>1. at[p] \in Local /\ TypeOK BY DEF TypeInv, TypeOK
<1>2. at[p].want \in Doc BY DEF TypeInv, LocalOK, Structured, At
<1> DEFINE doc(saved) == [at[p].want EXCEPT !.base = None, !.env = EnvLeft(at[p].want, saved)]
           after(saved) == IF at[p].want.env = Toche /\ EnvLeft(at[p].want, saved) = Bare
                           THEN "clean" ELSE "unnote"
<1>3. PICK saved \in {noted} \cup (IF "io" \in may THEN {None} ELSE {}) :
        Becomes(p, [at[p] EXCEPT !.pc = "open", !.after = after(saved), !.want = doc(saved)])
  BY DEF Structured, Becomes
<1>4. saved \in Urls \cup {None, Blank} BY <1>1 DEF TypeOK
<1>5. /\ EnvLeft(at[p].want, saved) \in Urls \cup {Toche, Blank, Bare, None}
      /\ EnvLeft(at[p].want, saved) # Toche
  BY <1>2, <1>4, ConnectAssumption DEF EnvLeft, Doc
<1>6. /\ doc(saved) \in Doc /\ doc(saved).other = at[p].want.other
      /\ doc(saved).base = None /\ doc(saved).env = EnvLeft(at[p].want, saved)
  BY <1>2, <1>5 DEF Doc
<1>7. ~Points(doc(saved))
  BY <1>5, <1>6, ConnectAssumption DEF Points
<1>8. after(saved) \in {"clean", "unnote"} OBVIOUS
<1> DEFINE l == [at[p] EXCEPT !.pc = "open", !.after = after(saved), !.want = doc(saved)]
<1> HIDE DEF doc, after
<1>9. /\ l \in Local /\ l.pc = "open" /\ l.after = after(saved) /\ l.want = doc(saved)
      /\ l.outcome = at[p].outcome
  BY <1>1, <1>6, <1>8 DEF Local, Steps
<1> HIDE DEF l
<1>10. Only(p) /\ at'[p] = l BY <1>1, <1>3, <1>9, BecomesIs DEF l
<1> QED BY <1>2, <1>3, <1>6, <1>7, <1>8, <1>9, <1>10

\* Nothing but an empty env object is removed.
LEMMA CleanIs ==
  ASSUME TypeInv, NEW p \in Commands, Clean(p)
  PROVE  /\ Only(p) /\ settings # None
         /\ \/ at'[p].pc = "done" /\ at'[p].outcome = "failed"
            \/ /\ at'[p].pc = "open" /\ at'[p].after = "unnote"
               /\ at'[p].outcome = at[p].outcome
               /\ Now \in Doc /\ at'[p].want \in Doc
               /\ at'[p].want.other = Now.other /\ at'[p].want.base = Now.base
               /\ at'[p].want.env = (IF Now.env = Bare THEN None ELSE Now.env)
<1>1. at[p] \in Local /\ TypeOK BY DEF TypeInv, TypeOK
<1>2. settings # None BY DEF TypeInv, LocalOK, Clean, At
<1>3. CASE Now = Torn
  <2>1. End(p, "failed") BY <1>3 DEF Clean, Now
  <2>2. "failed" \in Outcomes BY DEF Outcomes
  <2> QED BY <1>1, <1>2, <2>1, <2>2, EndIs DEF Only
<1>4. CASE Now # Torn
  <2>1. Now \in Doc BY <1>1, <1>2, <1>4 DEF TypeOK, Now
  <2> DEFINE doc == [Now EXCEPT !.env = IF @ = Bare THEN None ELSE @]
  <2>2. /\ doc \in Doc /\ doc.other = Now.other /\ doc.base = Now.base
        /\ doc.env = (IF Now.env = Bare THEN None ELSE Now.env)
    BY <2>1 DEF Doc
  <2> DEFINE l == [at[p] EXCEPT !.pc = "open", !.after = "unnote", !.want = doc]
  <2>3. Becomes(p, l) BY <1>4 DEF Clean, Becomes, Now
  <2> HIDE DEF doc
  <2>4. /\ l \in Local /\ l.pc = "open" /\ l.after = "unnote" /\ l.want = doc
        /\ l.outcome = at[p].outcome
    BY <1>1, <2>2 DEF Local, Steps
  <2> HIDE DEF l
  <2> QED BY <1>1, <1>2, <2>1, <2>2, <2>3, <2>4, BecomesIs
<1> QED BY <1>3, <1>4

(***************************************************************************)
(* Types.                                                                  *)
(***************************************************************************)
\* While files are only renamed, the settings do not go away.
LEMMA OthersOK ==
  ASSUME TypeInv, NEW p \in Commands, Only(p), LocalOK(p)', settings # None => settings' # None
  PROVE  \A q \in Commands : LocalOK(q)'
<1> SUFFICES ASSUME NEW q \in Commands, q # p PROVE LocalOK(q)'
  OBVIOUS
<1>1. at'[q] = at[q] /\ LocalOK(q) BY DEF Only, TypeInv
<1> QED BY <1>1 DEF LocalOK

Stays == UNCHANGED <<files, backup, noted, user>>

\* A step that moves one process and writes no file.
LEMMA StaysType ==
  ASSUME TypeInv, NEW p \in Commands, Only(p), Stays, LocalOK(p)'
  PROVE  TypeInv'
<1>1. settings' = settings /\ TypeOK' BY DEF Stays, files, user, TypeInv, TypeOK, Only
<1> QED BY <1>1, OthersOK DEF TypeInv

\* A process that ends has nothing to keep.
LEMMA EndedOK ==
  ASSUME NEW p \in Commands, at'[p].pc \in {"done", "dead", "look", "leave"}
  PROVE  LocalOK(p)'
BY DEF LocalOK

\* The types are kept by every action.
LEMMA LookType == ASSUME TypeInv, NEW p \in Commands, Look(p) PROVE TypeInv'
<1>1. TypeOK BY DEF TypeInv
<1>2. Stays BY DEF Look, Stays
<1>3. CASE Go(p, "apply")
  <2>1. "apply" \in Steps BY DEF Steps
  <2>2. Only(p) /\ at'[p].pc = "apply" BY <1>1, <1>3, <2>1, GoIs DEF Only
  <2> QED BY <1>2, <2>2, StaysType DEF LocalOK
<1>4. CASE \E o \in Outcomes : End(p, o)
  <2>1. Only(p) /\ at'[p].pc = "done" BY <1>1, <1>4, EndIs DEF Only
  <2> QED BY <1>2, <2>1, StaysType, EndedOK
<1> QED BY <1>3, <1>4 DEF Look, Outcomes

LEMMA ConnectType == ASSUME TypeInv, NEW p \in Commands, Connect(p) PROVE TypeInv'
<1>1. TypeOK BY DEF TypeInv
<1>2. CASE Look(p) BY <1>2, LookType
<1>3. CASE Apply(p)
  <2>1. Stays BY <1>3 DEF Apply, Stays
  <2>2. Only(p) /\ LocalOK(p)' BY <1>1, <1>3, ApplyIs DEF LocalOK
  <2> QED BY <2>1, <2>2, StaysType
<1>4. CASE Backup(p)
  <2>1. Stays BY <1>4 DEF Backup, Stays
  <2>2. at[p].want \in Doc BY <1>4 DEF TypeInv, LocalOK, Backup, At
  <2>3. CASE settings # None /\ backup = None
    <3>1. Go(p, "copy") /\ "copy" \in Steps BY <1>4, <2>3 DEF Backup, Steps
    <3>2. Only(p) /\ at'[p].pc = "copy" /\ at'[p].want = at[p].want /\ settings' = settings
      BY <1>1, <2>1, <3>1, GoIs DEF Only, Stays, files
    <3> QED BY <2>1, <2>2, <2>3, <3>2, StaysType DEF LocalOK
  <2>4. CASE ~(settings # None /\ backup = None)
    <3>1. Go(p, "open") /\ "open" \in Steps BY <1>4, <2>4 DEF Backup, Steps
    <3>2. Only(p) /\ at'[p].pc = "open" /\ at'[p].want = at[p].want
      BY <1>1, <3>1, GoIs DEF Only
    <3> QED BY <2>1, <2>2, <3>2, StaysType DEF LocalOK
  <2> QED BY <2>3, <2>4
<1>5. CASE Copy(p)
  <2>1. /\ at[p].want \in Doc BY <1>5 DEF TypeInv, LocalOK, Copy, At
  <2>2. settings' = settings /\ Only(p) BY <1>5, CopyIs DEF Copy, files
  <2>3. LocalOK(p)' BY <1>1, <1>5, <2>1, CopyIs DEF LocalOK, TypeOK
  <2>4. TypeOK' BY <1>1, <1>5, <2>2 DEF Copy, TypeOK, Only, files, user
  <2> QED BY <2>2, <2>3, <2>4, OthersOK DEF TypeInv
<1>6. CASE Copied(p)
  <2>1. at[p].want \in Doc /\ at[p].fd \in Nodes BY <1>6 DEF TypeInv, LocalOK, Copied, At
  <2>2. Go(p, "open") /\ "open" \in Steps BY <1>6 DEF Copied, Steps
  <2>3. Only(p) /\ at'[p].pc = "open" /\ at'[p].want = at[p].want BY <1>1, <2>2, GoIs DEF Only
  <2>4. LocalOK(p)' BY <2>1, <2>3 DEF LocalOK
  <2>5. settings' = settings /\ TypeOK'
    BY <1>1, <1>6, <2>1, <2>3 DEF Copied, TypeOK, Only, files, user
  <2> QED BY <2>3, <2>4, <2>5, OthersOK DEF TypeInv
<1>7. CASE Note(p)
  <2>1. CASE at[p].url = None
    <3>1. Stays /\ End(p, "already") /\ "already" \in Outcomes
      BY <1>7, <2>1 DEF Note, Stays, Outcomes
    <3>2. Only(p) /\ at'[p].pc = "done" BY <1>1, <3>1, EndIs DEF Only
    <3> QED BY <3>1, <3>2, StaysType, EndedOK
  <2>2. CASE at[p].url # None
    <3>1. Go(p, "noted") /\ "noted" \in Steps BY <1>7, <2>2 DEF Note, Steps
    <3>2. Only(p) /\ at'[p].pc = "noted" /\ at'[p].url = at[p].url BY <1>1, <3>1, GoIs DEF Only
    <3>3. at[p].url \in Urls BY <1>1, <2>2 DEF TypeOK, Local
    <3>4. LocalOK(p)' BY <3>2, <3>3 DEF LocalOK
    <3>5. settings' = settings /\ TypeOK'
      BY <1>1, <1>7, <2>2, <3>2 DEF Note, TypeOK, Only, files, user
    <3> QED BY <3>2, <3>4, <3>5, OthersOK DEF TypeInv
  <2> QED BY <2>1, <2>2
<1>8. CASE Noted(p)
  <2>1. End(p, "connected") /\ "connected" \in Outcomes BY <1>8 DEF Noted, Outcomes
  <2>2. Only(p) /\ at'[p].pc = "done" BY <1>1, <2>1, EndIs DEF Only
  <2>3. at[p].url \in Urls BY <1>8 DEF TypeInv, LocalOK, Noted, At
  <2>4. settings' = settings /\ TypeOK'
    BY <1>1, <1>8, <2>2, <2>3 DEF Noted, TypeOK, Only, files, user
  <2> QED BY <2>2, <2>4, OthersOK, EndedOK DEF TypeInv
<1> QED BY <1>2, <1>3, <1>4, <1>5, <1>6, <1>7, <1>8 DEF Connect

LEMMA DisconnectType == ASSUME TypeInv, NEW p \in Commands, Disconnect(p) PROVE TypeInv'
<1>1. TypeOK BY DEF TypeInv
<1>2. CASE Leave(p)
  <2>1. Stays BY <1>2 DEF Leave, Stays
  <2>2. Only(p) /\ LocalOK(p)' BY <1>2, LeaveIs DEF LocalOK
  <2> QED BY <2>1, <2>2, StaysType
<1>3. CASE Find(p)
  <2>1. Stays BY <1>3 DEF Find, Stays
  <2>2. at[p].want \in Doc BY <1>3 DEF TypeInv, LocalOK, Find, At
  <2>3. PICK pc \in {"structured", "restore"} : Go(p, pc) BY <1>3 DEF Find
  <2>4. pc \in Steps BY DEF Steps
  <2>5. Only(p) /\ at'[p].pc = pc /\ at'[p].want = at[p].want
    BY <1>1, <2>3, <2>4, GoIs DEF Only
  <2> QED BY <2>1, <2>2, <2>5, StaysType DEF LocalOK
<1>4. CASE Restore(p)
  <2>1. Stays BY <1>4 DEF Restore, Stays
  <2>2. Only(p) /\ LocalOK(p)' BY <1>4, RestoreIs DEF LocalOK
  <2> QED BY <2>1, <2>2, StaysType
<1>5. CASE Structured(p)
  <2>1. Stays BY <1>5 DEF Structured, Stays
  <2>2. Only(p) /\ LocalOK(p)' BY <1>5, StructuredIs DEF LocalOK
  <2> QED BY <2>1, <2>2, StaysType
<1>6. CASE Clean(p)
  <2>1. Stays BY <1>6 DEF Clean, Stays
  <2>2. Only(p) /\ LocalOK(p)' BY <1>6, CleanIs DEF LocalOK
  <2> QED BY <2>1, <2>2, StaysType
<1>7. CASE Unback(p)
  <2>1. Only(p) /\ LocalOK(p)'
    <3>1. CASE backup = None
      <4>1. End(p, "failed") /\ "failed" \in Outcomes BY <1>7, <3>1 DEF Unback, Outcomes
      <4> QED BY <1>1, <4>1, EndIs, EndedOK DEF Only
    <3>2. CASE backup # None
      <4>1. Go(p, "unnote") /\ "unnote" \in Steps BY <1>7, <3>2 DEF Unback, Steps
      <4>2. Only(p) /\ at'[p].pc = "unnote" BY <1>1, <4>1, GoIs DEF Only
      <4> QED BY <4>2 DEF LocalOK
    <3> QED BY <3>1, <3>2
  <2>2. settings' = settings /\ TypeOK'
    BY <1>1, <1>7, <2>1 DEF Unback, TypeOK, Only, files, user
  <2> QED BY <2>1, <2>2, OthersOK DEF TypeInv
<1>8. CASE Unnote(p)
  <2>1. End(p, "disconnected") /\ "disconnected" \in Outcomes BY <1>8 DEF Unnote, Outcomes
  <2>2. Only(p) /\ at'[p].pc = "done" BY <1>1, <2>1, EndIs DEF Only
  <2>3. noted' \in {None, noted} BY <1>8 DEF Unnote
  <2>4. settings' = settings /\ TypeOK'
    BY <1>1, <1>8, <2>2, <2>3 DEF Unnote, TypeOK, Only, files, user
  <2> QED BY <2>2, <2>4, OthersOK, EndedOK DEF TypeInv
<1> QED BY <1>2, <1>3, <1>4, <1>5, <1>6, <1>7, <1>8 DEF Disconnect

LEMMA WriteType == ASSUME TypeInv, NEW p \in Commands, Write(p) PROVE TypeInv'
<1>1. TypeOK /\ at[p] \in Local BY DEF TypeInv, TypeOK
<1>2. CASE Open(p)
  <2>1. at[p].want \in Doc BY <1>2 DEF TypeInv, LocalOK, Open, At
  <2>2. Only(p) /\ LocalOK(p)' BY <1>2, <2>1, OpenIs DEF LocalOK
  <2>3. data' \in [Nodes -> Doc \cup {Torn}] BY <1>1, <1>2, OpenIs DEF TypeOK
  <2>4. tmp' \in Nodes /\ settings' = settings BY <1>2, OpenIs
  <2>5. TypeOK' BY <1>1, <1>2, <2>2, <2>3, <2>4 DEF Open, TypeOK, Only, user
  <2> QED BY <2>2, <2>4, <2>5, OthersOK DEF TypeInv
<1>3. CASE Fill(p)
  <2>1. at[p].want \in Doc /\ at[p].fd \in Nodes BY <1>3 DEF TypeInv, LocalOK, Fill, At
  <2>2. Go(p, "rename") /\ "rename" \in Steps BY <1>3 DEF Fill, Steps
  <2>3. Only(p) /\ at'[p].pc = "rename" BY <1>1, <2>2, GoIs DEF Only
  <2>4. PICK doc \in Doc \cup {Torn} : data' = [data EXCEPT ![at[p].fd] = doc]
    BY <1>3, <2>1 DEF Fill
  <2>5. data' \in [Nodes -> Doc \cup {Torn}] BY <1>1, <2>4 DEF TypeOK
  <2>6. settings' = settings /\ TypeOK' BY <1>1, <1>3, <2>3, <2>5 DEF Fill, TypeOK, Only, user
  <2> QED BY <2>3, <2>6, OthersOK DEF TypeInv, LocalOK
<1>4. CASE Rename(p)
  <2>1. CASE tmp = None
    <3>1. Stays /\ End(p, "failed") /\ "failed" \in Outcomes
      BY <1>4, <2>1 DEF Rename, Stays, Outcomes
    <3> QED BY <1>1, <3>1, EndIs, EndedOK, StaysType DEF Only
  <2>2. CASE tmp # None
    <3>1. at[p].after \in {"note", "unback", "clean", "unnote"} BY <1>1 DEF Local
    <3>2. at[p].after \in Steps BY <3>1 DEF Steps
    <3>3. Go(p, at[p].after) /\ settings' = tmp BY <1>4, <2>2 DEF Rename
    <3>4. Only(p) /\ at'[p].pc = at[p].after BY <1>1, <3>2, <3>3, GoIs DEF Only
    <3>5. LocalOK(p)' BY <2>2, <3>1, <3>3, <3>4 DEF LocalOK
    <3>6. TypeOK' BY <1>1, <1>4, <2>2, <3>4 DEF Rename, TypeOK, Only, user
    <3> QED BY <2>2, <3>3, <3>4, <3>5, <3>6, OthersOK DEF TypeInv
  <2> QED BY <2>1, <2>2
<1> QED BY <1>2, <1>3, <1>4 DEF Write

LEMMA FaultType == ASSUME TypeInv, NEW p \in Commands, Fault(p) PROVE TypeInv'
<1>1. TypeOK /\ at[p] \in Local BY DEF TypeInv, TypeOK
<1>2. "failed" \in Outcomes /\ "connected" \in Outcomes BY DEF Outcomes
<1>3. CASE IoFails(p)
  <2>1. Stays /\ End(p, "failed") BY <1>3 DEF IoFails, Stays
  <2> QED BY <1>1, <1>2, <2>1, EndIs, EndedOK, StaysType DEF Only
<1>4. CASE WriteFails(p)
  <2>1. End(p, "failed") BY <1>4 DEF WriteFails
  <2>2. Only(p) /\ at'[p].pc = "done" BY <1>1, <1>2, <2>1, EndIs DEF Only
  <2>3. settings' = settings /\ data' \in [Nodes -> Doc \cup {Torn}]
    BY <1>1, <1>4 DEF WriteFails, TypeOK
  <2>4. TypeOK' BY <1>1, <1>4, <2>2, <2>3 DEF WriteFails, TypeOK, Only, user
  <2> QED BY <2>2, <2>3, <2>4, OthersOK, EndedOK DEF TypeInv
<1>5. CASE NoteFails(p)
  <2>1. Stays /\ End(p, "connected") BY <1>5 DEF NoteFails, Stays
  <2> QED BY <1>1, <1>2, <2>1, EndIs, EndedOK, StaysType DEF Only
<1>6. CASE Crash(p)
  <2>1. Stays BY <1>6 DEF Crash, Stays
  <2> QED BY <1>1, <1>6, <2>1, CrashIs, EndedOK, StaysType
<1> QED BY <1>3, <1>4, <1>5, <1>6 DEF Fault

\* An edit of the settings, in place.
LEMMA EditedIs ==
  ASSUME TypeInv, NEW doc \in Doc, Edited(doc)
  PROVE  /\ settings \in Nodes /\ settings # None /\ Now \in Doc
         /\ data' = [data EXCEPT ![settings] = doc]
         /\ data' \in [Nodes -> Doc \cup {Torn}]
         /\ Now' = doc
         /\ edits' \in 0 .. MaxEdits /\ edits' # edits
         /\ UNCHANGED <<settings, tmp, backup, noted, at, may>>
BY ConnectAssumption DEF TypeInv, TypeOK, Edited, Now

LEMMA UserType == ASSUME TypeInv, User PROVE TypeInv'
<1>1. TypeOK BY DEF TypeInv
<1>2. CASE EditOther
  <2>1. settings \in Nodes /\ Now \in Doc BY <1>1, <1>2 DEF EditOther, Edited, TypeOK, Now
  <2>2. PICK other \in Others : Edited([Now EXCEPT !.other = other])
    BY <1>2 DEF EditOther, Now
  <2>3. [Now EXCEPT !.other = other] \in Doc BY <2>1 DEF Doc
  <2>4. TypeOK' BY <1>1, <1>2, <2>2, <2>3, EditedIs DEF TypeOK, EditOther
  <2>5. at' = at /\ settings' = settings BY <2>2, <2>3, EditedIs
  <2> QED BY <2>4, <2>5 DEF TypeInv, LocalOK
<1>3. CASE EditUrls
  <2>1. settings \in Nodes /\ Now \in Doc BY <1>1, <1>3 DEF EditUrls, Edited, TypeOK, Now
  <2>2. PICK base \in Urls \cup {None}, env \in Urls \cup {None} :
          /\ Edited([Now EXCEPT !.base = base, !.env = env])
          /\ mine' = [base |-> base, env |-> env]
    BY <1>3 DEF EditUrls, Now
  <2>3. [Now EXCEPT !.base = base, !.env = env] \in Doc BY <2>1 DEF Doc
  <2>4. mine' \in [base : Urls \cup {None}, env : Urls \cup {None}] BY <2>2
  <2>5. TypeOK' BY <1>1, <2>2, <2>3, <2>4, EditedIs DEF TypeOK
  <2>6. at' = at /\ settings' = settings BY <2>2, <2>3, EditedIs
  <2> QED BY <2>5, <2>6 DEF TypeInv, LocalOK
<1>4. CASE RemoveBackup
  BY <1>1, <1>4 DEF RemoveBackup, TypeInv, TypeOK, LocalOK, files, user
<1> QED BY <1>2, <1>3, <1>4 DEF User

LEMMA BeginType == ASSUME TypeInv, NEW p \in Commands, Begin(p) PROVE TypeInv'
<1>1. Stays BY DEF Begin, Stays
<1> QED BY <1>1, BeginIs, EndedOK, StaysType DEF TypeInv

\* They hold at the start, ...
LEMMA InitType == Init => TypeInv
<1> SUFFICES ASSUME Init PROVE TypeInv
  OBVIOUS
<1>1. Fresh("idle") \in Local /\ Fresh("idle").pc = "idle" BY DEF Fresh, Local, Steps
<1>2. at \in [Commands -> Local] /\ \A p \in Commands : at[p].pc = "idle"
  BY <1>1 DEF Init
<1>3. /\ settings \in Nodes \cup {None} /\ data \in [Nodes -> Doc \cup {Torn}]
      /\ mine \in [base : Urls \cup {None}, env : Urls \cup {None}]
  <2>1. CASE settings = None /\ data = [n \in Nodes |-> Torn] /\ mine = [base |-> None, env |-> None]
    BY <2>1
  <2>2. ASSUME NEW n \in Nodes, NEW doc \in Doc,
               {Toche, Blank} \cap {doc.base, doc.env} = {},
               settings = n, data = [x \in Nodes |-> IF x = n THEN doc ELSE Torn],
               mine = UrlsOf(doc)
        PROVE  /\ settings \in Nodes \cup {None} /\ data \in [Nodes -> Doc \cup {Torn}]
               /\ mine \in [base : Urls \cup {None}, env : Urls \cup {None}]
    BY <2>2, ConnectAssumption DEF Doc, UrlsOf
  <2> QED BY <2>1, <2>2 DEF Init
<1>4. TypeOK BY <1>2, <1>3, ConnectAssumption DEF Init, TypeOK
<1> QED BY <1>2, <1>4 DEF TypeInv, LocalOK

\* ... and in every step.
LEMMA NextType == TypeInv /\ [Next]_vars => TypeInv'
<1> SUFFICES ASSUME TypeInv, [Next]_vars PROVE TypeInv'
  OBVIOUS
<1>1. CASE UNCHANGED vars
  BY <1>1 DEF vars, TypeInv, TypeOK, LocalOK
<1>2. CASE Next
  BY <1>2, BeginType, ConnectType, DisconnectType, WriteType, FaultType, UserType DEF Next
<1> QED BY <1>1, <1>2

\* Type correctness, however many commands run at the same time.
THEOREM ConnectTypes == Spec => []TypeOK
<1>1. TypeInv => TypeOK BY DEF TypeInv
<1> QED BY InitType, NextType, <1>1, PTL DEF Spec

(***************************************************************************)
(* One command at a time: files, backup and the rest of the settings.      *)
(***************************************************************************)
Writing == {"open", "fill", "rename"}

\* A connect, from reading the settings to replacing them.
Connecting(p) ==
  \/ at[p].pc \in {"backup", "copy", "copied"}
  \/ at[p].pc \in Writing /\ at[p].after = "note"

\* A disconnect that has read the settings, that writes them, that has written them.
Parting(p) == at[p].pc \in {"find", "restore", "structured"}

Leaving(p) == at[p].pc \in Writing /\ at[p].after # "note"

Left(p) == at[p].pc \in {"clean", "unback", "unnote"}

\* No two commands run.
Alone == \A p, q \in Commands : Running(p) /\ Running(q) => p = q

\* The files: nobody else writes settings.tmp, so the settings are never torn,
\* and the backup is of settings that did not route through Toche.
FilesOK ==
  /\ settings # None => Now # Torn
  /\ tmp # None => tmp # settings
  /\ BackupIsUpstream

\* What a process relies on while no other command runs: the file it writes is
\* its own, and the settings are as it found them.
StepOK(p) ==
  /\ at[p].pc \in {"idle", "look", "apply", "backup", "copy", "copied"} => at[p].after = "note"
  /\ at[p].pc = "copied" => at[p].fd = settings
  /\ at[p].pc = "fill" => at[p].fd = tmp /\ data[tmp] = Torn
  /\ at[p].pc = "rename" => tmp # None /\ data[tmp] = at[p].want /\ at[p].want \in Doc
  /\ Connecting(p) => IsDirect
  /\ Parting(p) \/ Leaving(p) \/ Left(p) => settings # None
  /\ Leaving(p) => ~Points(at[p].want)
  /\ Left(p) => ~Points(Now)

\* What is to be written holds the rest of the settings as it is now.
Intact(p) ==
  settings # None /\ (Connecting(p) \/ Parting(p) \/ Leaving(p))
    => at[p].want.other = Now.other \/ "midway" \in may

\* The inductive invariant of commands that do not overlap.
SoleInv ==
  /\ TypeInv /\ Alone /\ FilesOK
  /\ \A p \in Commands : StepOK(p) /\ Intact(p)

\* The two action properties, as facts about a step.
DirectWhenDone ==
  \A p \in Commands :
    at'[p].outcome = "disconnected" /\ at[p].outcome # "disconnected" => IsDirect'

OtherStays ==
  settings # None /\ settings' # None /\ Now'.other # Now.other
    => edits' # edits \/ "midway" \in may

\* What is at stake when p moves and nobody else runs.
Sound(p) ==
  /\ Only(p)
  /\ FilesOK' /\ StepOK(p)' /\ Intact(p)'
  /\ at'[p].outcome = "disconnected" /\ at[p].outcome # "disconnected" => IsDirect'
  /\ OtherStays

\* Whoever does not run has nothing to lose.
LEMMA OneMoves ==
  ASSUME SoleInv, TypeInv', NEW p \in Commands, Sound(p),
         \A q \in Commands : q # p => ~Running(q)
  PROVE  SoleInv' /\ DirectWhenDone /\ OtherStays
<1>1. \A q \in Commands : q # p => at'[q] = at[q] /\ at[q].pc \in Ended \cup {"idle"}
  BY DEF Sound, Only, Running
<1>2. Alone' BY <1>1 DEF Alone, Running
<1>3. ASSUME NEW q \in Commands, q # p PROVE StepOK(q)' /\ Intact(q)'
  <2>1. at'[q] = at[q] /\ at[q].pc \in {"done", "dead", "idle"} BY <1>1, <1>3 DEF Ended
  <2>2. StepOK(q) BY DEF SoleInv
  <2> QED BY <2>1, <2>2 DEF StepOK, Intact, Connecting, Parting, Leaving, Left, Writing
<1>4. DirectWhenDone BY <1>1 DEF DirectWhenDone, Sound
<1> QED BY <1>2, <1>3, <1>4 DEF SoleInv, Sound

\* A command starts only when none runs.
LEMMA BeginsAlone ==
  ASSUME AtOnce = 1, NEW p \in Commands, Begin(p)
  PROVE  \A q \in Commands : ~Running(q)
<1> DEFINE R == {q \in Commands : Running(q)}
<1>1. IsFiniteSet(R) BY ConnectAssumption, FS_Subset
<1>2. Cardinality(R) < 1 BY DEF Begin
<1>3. Cardinality(R) \in Nat BY <1>1, FS_CardinalityType
<1>4. R = {} BY <1>1, <1>2, <1>3, FS_EmptySet
<1> QED BY <1>4

\* A step that writes no file and leaves p where it plans nothing.
LEMMA RestSound ==
  ASSUME SoleInv, NEW p \in Commands, Only(p), UNCHANGED <<files, may>>,
         backup' = backup \/ backup' = Torn \/ backup' = None,
         at'[p].pc \in {"done", "dead", "look", "leave", "apply", "note", "noted"},
         at'[p].pc \in {"look", "apply"} => at'[p].after = "note",
         at'[p].outcome = "disconnected" /\ at[p].outcome # "disconnected" => IsDirect'
  PROVE  Sound(p)
<1>1. FilesOK' BY ConnectAssumption DEF SoleInv, FilesOK, BackupIsUpstream, files, Now, Points
<1>2. StepOK(p)' /\ Intact(p)' BY DEF StepOK, Intact, Connecting, Parting, Leaving, Left, Writing
<1>3. OtherStays BY DEF OtherStays, files, Now
<1> QED BY <1>1, <1>2, <1>3 DEF Sound

\* A step that writes no file at all.
LEMMA StaysSound ==
  ASSUME SoleInv, NEW p \in Commands, Only(p), UNCHANGED <<files, backup, may>>,
         at'[p].outcome = at[p].outcome,
         StepOK(p)', Intact(p)'
  PROVE  Sound(p)
<1>1. FilesOK' BY DEF SoleInv, FilesOK, BackupIsUpstream, files, Now, Points
<1>2. OtherStays BY DEF OtherStays, files, Now
<1> QED BY <1>1, <1>2 DEF Sound

\* Every action of a process alone is sound.
LEMMA ConnectSound == ASSUME SoleInv, NEW p \in Commands, Connect(p) PROVE Sound(p)
<1> USE DEF At
<1>1. TypeInv /\ TypeOK /\ StepOK(p) /\ Intact(p) /\ at[p] \in Local BY DEF SoleInv, TypeInv, TypeOK
<1>2. CASE Look(p)
  <2>1. UNCHANGED <<files, backup, may>> BY <1>2 DEF Look, user
  <2>2. CASE Go(p, "apply")
    <3>1. "apply" \in Steps BY DEF Steps
    <3>2. Only(p) /\ at'[p].pc = "apply" /\ at'[p].after = "note" /\ at'[p].outcome = at[p].outcome
      BY <1>1, <1>2, <2>2, <3>1, GoIs DEF Only, StepOK, Look
    <3> QED BY <2>1, <3>2, RestSound
  <2>3. CASE \E o \in {"already", "failed"} : End(p, o)
    <3>1. Only(p) /\ at'[p].pc = "done" /\ at'[p].outcome # "disconnected"
      BY <1>1, <2>3, EndIs DEF Only, Outcomes
    <3> QED BY <2>1, <3>1, RestSound
  <2> QED BY <1>2, <2>2, <2>3 DEF Look
<1>3. CASE Apply(p)
  <2>1. UNCHANGED <<files, backup, may>> BY <1>3 DEF Apply, user
  <2>2. at[p].after = "note" BY <1>1, <1>3 DEF Apply, StepOK
  <2>3. CASE at'[p].pc = "done"
    <3>1. Only(p) /\ at'[p].outcome # "disconnected" BY <1>1, <1>3, <2>3, ApplyIs
    <3> QED BY <2>1, <2>3, <3>1, RestSound
  <2>4. CASE at'[p].pc = "backup"
    <3>1. Only(p) /\ at'[p].outcome = at[p].outcome /\ at'[p].after = "note"
      BY <1>1, <1>3, <2>2, <2>4, ApplyIs
    <3>2. settings = None \/ (Now \in Doc /\ ~Points(Now) /\ at'[p].want.other = Now.other)
      BY <1>1, <1>3, <2>4, ApplyIs
    <3>3. Now' = Now /\ settings' = settings BY <2>1 DEF files, Now
    <3>4. StepOK(p)'
      BY <2>4, <3>1, <3>2, <3>3, ConnectAssumption DEF StepOK, IsDirect, Now, Parting, Leaving, Left, Writing, Points
    <3>5. Intact(p)' BY <3>2, <3>3 DEF Intact
    <3> QED BY <2>1, <3>1, <3>4, <3>5, StaysSound
  <2> QED BY <1>1, <1>3, <2>3, <2>4, ApplyIs
<1>4. CASE Backup(p)
  <2>1. UNCHANGED <<files, backup, may>> BY <1>4 DEF Backup, user
  <2>2. PICK pc \in {"copy", "open"} : Go(p, pc) BY <1>4 DEF Backup
  <2>3. pc \in Steps BY DEF Steps
  <2>4. /\ Only(p) /\ at'[p].pc = pc /\ at'[p].after = at[p].after
        /\ at'[p].outcome = at[p].outcome /\ at'[p].want = at[p].want
    BY <1>1, <2>2, <2>3, GoIs DEF Only
  <2>5. at[p].after = "note" /\ Connecting(p) /\ IsDirect BY <1>1, <1>4 DEF StepOK, Backup, Connecting
  <2>6. StepOK(p)'
    BY <2>1, <2>4, <2>5 DEF StepOK, IsDirect, files, Parting, Leaving, Left, Writing
  <2>7. Intact(p)' BY <1>1, <2>1, <2>4, <2>5 DEF Intact, files, Now
  <2> QED BY <2>1, <2>4, <2>6, <2>7, StaysSound
<1>5. CASE Copy(p)
  <2>1. /\ Only(p) /\ at'[p].pc = "copied" /\ at'[p].fd = settings /\ at'[p].want = at[p].want
        /\ at'[p].after = at[p].after /\ at'[p].outcome = at[p].outcome
    BY <1>1, <1>5, CopyIs
  <2>2. UNCHANGED <<files, may>> /\ backup' = Torn BY <1>5 DEF Copy, user
  <2>3. at[p].after = "note" /\ Connecting(p) /\ IsDirect BY <1>1, <1>5 DEF StepOK, Copy, Connecting
  <2>4. StepOK(p)'
    BY <2>1, <2>2, <2>3 DEF StepOK, IsDirect, files, Parting, Leaving, Left, Writing
  <2>5. Intact(p)' BY <1>1, <2>1, <2>2, <2>3 DEF Intact, files, Now
  <2>6. FilesOK' BY <2>2, ConnectAssumption DEF SoleInv, FilesOK, BackupIsUpstream, files, Now
  <2> QED BY <2>1, <2>2, <2>4, <2>5, <2>6 DEF Sound, OtherStays, files, Now
<1>6. CASE Copied(p)
  <2>1. Go(p, "open") /\ "open" \in Steps BY <1>6 DEF Copied, Steps
  <2>2. /\ Only(p) /\ at'[p].pc = "open" /\ at'[p].want = at[p].want
        /\ at'[p].after = at[p].after /\ at'[p].outcome = at[p].outcome
    BY <1>1, <2>1, GoIs DEF Only
  <2>3. /\ at[p].after = "note" /\ Connecting(p) /\ IsDirect
        /\ at[p].fd = settings /\ at[p].fd \in Nodes
    BY <1>1, <1>6 DEF StepOK, Copied, Connecting, SoleInv, TypeInv, LocalOK
  <2>4. UNCHANGED <<files, may>> /\ backup' = Now BY <1>6, <2>3 DEF Copied, Now, user
  <2>5. StepOK(p)'
    BY <2>2, <2>3, <2>4 DEF StepOK, IsDirect, files, Parting, Leaving, Left, Writing
  <2>6. Intact(p)' BY <1>1, <2>2, <2>3, <2>4 DEF Intact, files, Now
  <2>7. settings # None BY <2>3, ConnectAssumption
  <2>8. FilesOK'
    BY <2>3, <2>4, <2>7 DEF SoleInv, FilesOK, BackupIsUpstream, files, Now, IsDirect, Points
  <2> QED BY <2>2, <2>4, <2>5, <2>6, <2>8 DEF Sound, OtherStays, files, Now
<1>7. CASE Note(p)
  <2>1. UNCHANGED <<files, backup, may>> BY <1>7 DEF Note, user
  <2>2. CASE at[p].url = None
    <3>1. End(p, "already") /\ "already" \in Outcomes BY <1>7, <2>2 DEF Note, Outcomes
    <3>2. Only(p) /\ at'[p].pc = "done" /\ at'[p].outcome = "already" BY <1>1, <3>1, EndIs DEF Only
    <3> QED BY <2>1, <3>2, RestSound
  <2>3. CASE at[p].url # None
    <3>1. Go(p, "noted") /\ "noted" \in Steps BY <1>7, <2>3 DEF Note, Steps
    <3>2. Only(p) /\ at'[p].pc = "noted" /\ at'[p].outcome = at[p].outcome
      BY <1>1, <3>1, GoIs DEF Only
    <3> QED BY <2>1, <3>2, RestSound
  <2> QED BY <2>2, <2>3
<1>8. CASE Noted(p)
  <2>1. UNCHANGED <<files, backup, may>> BY <1>8 DEF Noted, user
  <2>2. End(p, "connected") /\ "connected" \in Outcomes BY <1>8 DEF Noted, Outcomes
  <2>3. Only(p) /\ at'[p].pc = "done" /\ at'[p].outcome = "connected" BY <1>1, <2>2, EndIs DEF Only
  <2> QED BY <2>1, <2>3, RestSound
<1> QED BY <1>2, <1>3, <1>4, <1>5, <1>6, <1>7, <1>8 DEF Connect

LEMMA DisconnectSound == ASSUME SoleInv, NEW p \in Commands, Disconnect(p) PROVE Sound(p)
<1> USE DEF At
<1>1. TypeInv /\ TypeOK /\ StepOK(p) /\ Intact(p) /\ at[p] \in Local BY DEF SoleInv, TypeInv, TypeOK
<1>2. CASE Leave(p)
  <2>1. UNCHANGED <<files, backup, may>> BY <1>2 DEF Leave, user
  <2>2. CASE at'[p].pc = "done"
    <3>1. Only(p) /\ at'[p].outcome # "disconnected" BY <1>1, <1>2, <2>2, LeaveIs
    <3> QED BY <2>1, <2>2, <3>1, RestSound
  <2>3. CASE at'[p].pc = "find"
    <3>1. Only(p) /\ at'[p].outcome = at[p].outcome /\ settings # None /\ at'[p].want = Now
      BY <1>1, <1>2, <2>3, LeaveIs
    <3>2. StepOK(p)'
      BY <2>1, <2>3, <3>1 DEF StepOK, files, Connecting, Leaving, Left, Writing
    <3>3. Intact(p)' BY <2>1, <3>1 DEF Intact, files, Now
    <3> QED BY <2>1, <3>1, <3>2, <3>3, StaysSound
  <2> QED BY <1>1, <1>2, <2>2, <2>3, LeaveIs
<1>3. CASE Find(p)
  <2>1. UNCHANGED <<files, backup, may>> BY <1>3 DEF Find, user
  <2>2. PICK pc \in {"structured", "restore"} : Go(p, pc) BY <1>3 DEF Find
  <2>3. pc \in Steps BY DEF Steps
  <2>4. Only(p) /\ at'[p].pc = pc /\ at'[p].outcome = at[p].outcome /\ at'[p].want = at[p].want
    BY <1>1, <2>2, <2>3, GoIs DEF Only
  <2>5. Parting(p) /\ settings # None BY <1>1, <1>3 DEF StepOK, Parting, Find
  <2>6. StepOK(p)' BY <2>1, <2>4, <2>5 DEF StepOK, files, Connecting, Leaving, Left, Writing
  <2>7. Intact(p)' BY <1>1, <2>1, <2>4, <2>5 DEF Intact, files, Now
  <2> QED BY <2>1, <2>4, <2>6, <2>7, StaysSound
<1>4. CASE Restore(p)
  <2>1. UNCHANGED <<files, backup, may>> BY <1>4 DEF Restore, user
  <2>2. CASE at'[p].pc = "done"
    <3>1. Only(p) /\ at'[p].outcome # "disconnected" BY <1>1, <1>4, <2>2, RestoreIs
    <3> QED BY <2>1, <2>2, <3>1, RestSound
  <2>3. CASE at'[p].pc = "open"
    <3>1. /\ Only(p) /\ at'[p].outcome = at[p].outcome /\ at'[p].after = "unback"
          /\ at'[p].want = Restored(at[p].want) /\ at[p].want \in Doc /\ backup \in Doc
      BY <1>1, <1>4, <2>3, RestoreIs
    <3>2. Parting(p) /\ settings # None BY <1>1, <1>4 DEF StepOK, Parting, Restore
    <3>3. ~Points(backup) BY <3>1 DEF SoleInv, FilesOK, BackupIsUpstream
    <3>4. at'[p].want.other = at[p].want.other /\ ~Points(at'[p].want)
      BY <3>1, <3>3, RestoredIs
    <3>5. StepOK(p)'
      BY <2>1, <2>3, <3>1, <3>2, <3>4 DEF StepOK, files, Connecting, Left, Writing, Points
    <3>6. Intact(p)' BY <1>1, <2>1, <3>2, <3>4 DEF Intact, files, Now
    <3> QED BY <2>1, <3>1, <3>5, <3>6, StaysSound
  <2> QED BY <1>1, <1>4, <2>2, <2>3, RestoreIs
<1>5. CASE Structured(p)
  <2>1. UNCHANGED <<files, backup, may>> BY <1>5 DEF Structured, user
  <2>2. /\ Only(p) /\ at'[p].pc = "open" /\ at'[p].after \in {"clean", "unnote"}
        /\ at'[p].outcome = at[p].outcome
        /\ at'[p].want.other = at[p].want.other /\ ~Points(at'[p].want)
    BY <1>1, <1>5, StructuredIs
  <2>3. Parting(p) /\ settings # None BY <1>1, <1>5 DEF StepOK, Parting, Structured
  <2>4. StepOK(p)'
    BY <2>1, <2>2, <2>3 DEF StepOK, files, Connecting, Left, Writing, Points
  <2>5. Intact(p)' BY <1>1, <2>1, <2>2, <2>3 DEF Intact, files, Now
  <2> QED BY <2>1, <2>2, <2>4, <2>5, StaysSound
<1>6. CASE Clean(p)
  <2>1. UNCHANGED <<files, backup, may>> BY <1>6 DEF Clean, user
  <2>2. CASE at'[p].pc = "done"
    <3>1. Only(p) /\ at'[p].outcome # "disconnected" BY <1>1, <1>6, <2>2, CleanIs
    <3> QED BY <2>1, <2>2, <3>1, RestSound
  <2>3. CASE at'[p].pc = "open"
    <3>1. /\ Only(p) /\ at'[p].outcome = at[p].outcome /\ at'[p].after = "unnote"
          /\ at'[p].want.other = Now.other /\ at'[p].want.base = Now.base
          /\ at'[p].want.env = (IF Now.env = Bare THEN None ELSE Now.env)
          /\ settings # None
      BY <1>1, <1>6, <2>3, CleanIs
    <3>2. ~Points(Now) BY <1>1, <1>6 DEF StepOK, Left, Clean
    <3>3. ~Points(at'[p].want) BY <3>1, <3>2, ConnectAssumption DEF Points
    <3>4. StepOK(p)'
      BY <2>1, <2>3, <3>1, <3>3 DEF StepOK, files, Connecting, Parting, Left, Writing, Points
    <3>5. Intact(p)' BY <2>1, <3>1 DEF Intact, files, Now
    <3> QED BY <2>1, <3>1, <3>4, <3>5, StaysSound
  <2> QED BY <1>1, <1>6, <2>2, <2>3, CleanIs
<1>7. CASE Unback(p)
  <2>1. UNCHANGED <<files, may>> /\ backup' = None BY <1>7 DEF Unback, user
  <2>2. CASE backup = None
    <3>1. End(p, "failed") /\ "failed" \in Outcomes BY <1>7, <2>2 DEF Unback, Outcomes
    <3>2. Only(p) /\ at'[p].pc = "done" /\ at'[p].outcome = "failed" BY <1>1, <3>1, EndIs DEF Only
    <3> QED BY <2>1, <3>2, RestSound
  <2>3. CASE backup # None
    <3>1. Go(p, "unnote") /\ "unnote" \in Steps BY <1>7, <2>3 DEF Unback, Steps
    <3>2. Only(p) /\ at'[p].pc = "unnote" /\ at'[p].outcome = at[p].outcome
      BY <1>1, <3>1, GoIs DEF Only
    <3>3. Left(p) /\ settings # None /\ ~Points(Now) BY <1>1, <1>7 DEF StepOK, Left, Unback
    <3>4. StepOK(p)'
      BY <2>1, <3>2, <3>3 DEF StepOK, files, Connecting, Parting, Leaving, Writing, Now, Points
    <3>5. Intact(p)' BY <3>2 DEF Intact, Connecting, Parting, Leaving, Writing
    <3>6. FilesOK' BY <2>1, ConnectAssumption DEF SoleInv, FilesOK, BackupIsUpstream, files, Now
    <3> QED BY <2>1, <3>2, <3>4, <3>5, <3>6 DEF Sound, OtherStays, files, Now
  <2> QED BY <2>2, <2>3
<1>8. CASE Unnote(p)
  <2>1. UNCHANGED <<files, backup, may>> BY <1>8 DEF Unnote, user
  <2>2. End(p, "disconnected") /\ "disconnected" \in Outcomes BY <1>8 DEF Unnote, Outcomes
  <2>3. Only(p) /\ at'[p].pc = "done" BY <1>1, <2>2, EndIs DEF Only
  <2>4. settings # None /\ ~Points(Now) /\ Now # Torn
    BY <1>1, <1>8 DEF StepOK, Left, Unnote, SoleInv, FilesOK
  <2>5. IsDirect' BY <2>1, <2>4 DEF IsDirect, files, Now, Points
  <2> QED BY <2>1, <2>3, <2>5, RestSound
<1> QED BY <1>2, <1>3, <1>4, <1>5, <1>6, <1>7, <1>8 DEF Disconnect

LEMMA WriteSound == ASSUME SoleInv, NEW p \in Commands, Write(p) PROVE Sound(p)
<1> USE DEF At
<1>1. /\ TypeInv /\ TypeOK /\ FilesOK /\ StepOK(p) /\ Intact(p) /\ LocalOK(p) /\ at[p] \in Local
      /\ settings \in Nodes \cup {None} /\ tmp \in Nodes \cup {None}
      /\ data \in [Nodes -> Doc \cup {Torn}]
  BY DEF SoleInv, TypeInv, TypeOK
<1>2. CASE Open(p)
  <2>1. /\ Only(p)
        /\ at'[p].pc = "fill" /\ at'[p].fd = tmp'
        /\ at'[p].want = at[p].want /\ at'[p].after = at[p].after /\ at'[p].outcome = at[p].outcome
        /\ tmp' \in Nodes /\ data' = [data EXCEPT ![tmp'] = Torn]
        /\ tmp' = tmp \/ tmp' \in Free
        /\ settings' = settings
    BY <1>1, <1>2, OpenIs
  <2>2. tmp' # settings BY <1>1, <2>1, ConnectAssumption DEF FilesOK, Free
  <2>3. data'[tmp'] = Torn BY <1>1, <2>1
  <2>4. settings # None => Now' = Now BY <1>1, <2>1, <2>2 DEF Now
  <2>5. backup' = backup /\ may' = may BY <1>2 DEF Open, user
  <2>6. FilesOK' BY <1>1, <2>1, <2>2, <2>4, <2>5 DEF FilesOK, BackupIsUpstream, Points
  <2>7. IsDirect => IsDirect' BY <2>1, <2>4 DEF IsDirect, Now, Points
  <2>8. StepOK(p)'
    BY <1>1, <1>2, <2>1, <2>3, <2>4, <2>7
       DEF StepOK, Open, Connecting, Parting, Leaving, Left, Writing, Points
  <2>9. Intact(p)'
    BY <1>1, <1>2, <2>1, <2>4, <2>5 DEF Intact, Open, Connecting, Parting, Leaving, Writing
  <2> QED BY <2>1, <2>4, <2>6, <2>8, <2>9 DEF Sound, OtherStays
<1>3. CASE Fill(p)
  <2>1. /\ at[p].fd = tmp /\ data[tmp] = Torn /\ tmp \in Nodes /\ at[p].want \in Doc
    BY <1>1, <1>3 DEF Fill, StepOK, LocalOK
  <2>2. tmp # settings BY <1>1, <2>1, ConnectAssumption DEF FilesOK
  <2>3. Go(p, "rename") /\ "rename" \in Steps BY <1>3 DEF Fill, Steps
  <2>4. /\ Only(p) /\ at'[p].pc = "rename" /\ at'[p].want = at[p].want
        /\ at'[p].after = at[p].after /\ at'[p].outcome = at[p].outcome
    BY <1>1, <2>3, GoIs DEF Only
  <2>5. data' = [data EXCEPT ![tmp] = at[p].want] BY <1>3, <2>1 DEF Fill
  <2>6. settings' = settings /\ tmp' = tmp /\ backup' = backup /\ may' = may BY <1>3 DEF Fill, user
  <2>7. settings # None => Now' = Now BY <1>1, <2>1, <2>2, <2>5, <2>6 DEF Now
  <2>8. FilesOK' BY <1>1, <2>6, <2>7 DEF FilesOK, BackupIsUpstream, Points
  <2>9. IsDirect => IsDirect' BY <2>6, <2>7 DEF IsDirect, Now, Points
  <2>10. data'[tmp] = at[p].want /\ tmp # None BY <1>1, <2>1, <2>5, ConnectAssumption
  <2>11. StepOK(p)'
    BY <1>1, <1>3, <2>1, <2>4, <2>6, <2>9, <2>10
       DEF StepOK, Fill, Connecting, Parting, Leaving, Left, Writing, Points
  <2>12. Intact(p)'
    BY <1>1, <1>3, <2>4, <2>6, <2>7 DEF Intact, Fill, Connecting, Parting, Leaving, Writing
  <2> QED BY <2>4, <2>6, <2>7, <2>8, <2>11, <2>12 DEF Sound, OtherStays
<1>4. CASE Rename(p)
  <2>1. tmp \in Nodes /\ tmp # None /\ data[tmp] = at[p].want /\ at[p].want \in Doc
    BY <1>1, <1>4 DEF Rename, StepOK
  <2>2. at[p].after \in {"note", "unback", "clean", "unnote"} /\ at[p].after \in Steps
    BY <1>1 DEF Local, Steps
  <2>3. /\ Go(p, at[p].after) /\ settings' = tmp /\ tmp' = None /\ data' = data
        /\ backup' = backup /\ may' = may
    BY <1>4, <2>1 DEF Rename, user
  <2>4. Only(p) /\ at'[p].pc = at[p].after /\ at'[p].outcome = at[p].outcome
    BY <1>1, <2>2, <2>3, GoIs DEF Only
  <2>5. Now' = at[p].want BY <2>1, <2>3 DEF Now
  <2>6. FilesOK' BY <1>1, <2>1, <2>3, <2>5, ConnectAssumption DEF FilesOK, BackupIsUpstream, Points
  <2>7. Left(p)' => Leaving(p) /\ ~Points(at[p].want)
    BY <1>1, <1>4, <2>2, <2>4 DEF Rename, StepOK, Leaving, Left, Writing
  <2>8. StepOK(p)'
    BY <2>1, <2>2, <2>3, <2>4, <2>5, <2>7
       DEF StepOK, Connecting, Parting, Leaving, Left, Writing, Points
  <2>9. Intact(p)' BY <2>2, <2>4 DEF Intact, Connecting, Parting, Leaving, Writing
  <2>10. OtherStays
    BY <1>1, <1>4, <2>5 DEF OtherStays, Intact, Rename, Connecting, Leaving, Writing
  <2> QED BY <2>4, <2>6, <2>8, <2>9, <2>10 DEF Sound
<1> QED BY <1>2, <1>3, <1>4 DEF Write

LEMMA FaultSound == ASSUME SoleInv, NEW p \in Commands, Fault(p) PROVE Sound(p)
<1> USE DEF At
<1>1. /\ TypeInv /\ TypeOK /\ FilesOK /\ StepOK(p) /\ LocalOK(p) /\ at[p] \in Local
      /\ settings \in Nodes \cup {None} /\ tmp \in Nodes \cup {None}
      /\ data \in [Nodes -> Doc \cup {Torn}]
  BY DEF SoleInv, TypeInv, TypeOK
<1>2. "failed" \in Outcomes /\ "connected" \in Outcomes BY DEF Outcomes
<1>3. CASE IoFails(p) \/ NoteFails(p)
  <2>1. UNCHANGED <<files, backup, may>> BY <1>3 DEF IoFails, NoteFails, user
  <2>2. PICK o \in {"failed", "connected"} : End(p, o) BY <1>3 DEF IoFails, NoteFails
  <2>3. Only(p) /\ at'[p].pc = "done" /\ at'[p].outcome = o BY <1>1, <1>2, <2>2, EndIs DEF Only
  <2> QED BY <2>1, <2>3, RestSound
<1>4. CASE Crash(p)
  <2>1. UNCHANGED <<files, backup, may>> BY <1>4 DEF Crash, user
  <2>2. Only(p) /\ at'[p].pc = "dead" /\ at'[p].outcome = None BY <1>1, <1>4, CrashIs
  <2>3. at'[p].outcome = "disconnected" /\ at[p].outcome # "disconnected" => IsDirect'
    BY <2>2, ConnectAssumption
  <2> QED BY <2>1, <2>2, <2>3, RestSound
<1>5. CASE WriteFails(p)
  <2>1. End(p, "failed") BY <1>5 DEF WriteFails
  <2>2. Only(p) /\ at'[p].pc = "done" /\ at'[p].outcome = "failed" BY <1>1, <1>2, <2>1, EndIs DEF Only
  <2>3. at[p].fd = tmp /\ tmp \in Nodes BY <1>1, <1>5 DEF WriteFails, StepOK, LocalOK
  <2>4. tmp # settings BY <1>1, <2>3, ConnectAssumption DEF FilesOK
  <2>5. /\ data' = [data EXCEPT ![tmp] = Torn]
        /\ settings' = settings /\ tmp' = tmp /\ backup' = backup /\ may' = may
    BY <1>5, <2>3 DEF WriteFails, user
  <2>6. settings # None => Now' = Now BY <1>1, <2>3, <2>4, <2>5 DEF Now
  <2>7. FilesOK' BY <1>1, <2>5, <2>6 DEF FilesOK, BackupIsUpstream, Points
  <2>8. StepOK(p)' /\ Intact(p)'
    BY <2>2 DEF StepOK, Intact, Connecting, Parting, Leaving, Left, Writing
  <2> QED BY <2>2, <2>6, <2>7, <2>8 DEF Sound, OtherStays
<1> QED BY <1>3, <1>4, <1>5 DEF Fault

LEMMA BeginSound ==
  ASSUME SoleInv, AtOnce = 1, NEW p \in Commands, Begin(p) PROVE Sound(p)
<1>1. TypeOK /\ StepOK(p) BY DEF SoleInv, TypeInv
<1>2. UNCHANGED <<files, backup, may>> BY DEF Begin, user
<1>3. at[p].after = "note" BY <1>1 DEF Begin, StepOK, At
<1> QED BY <1>1, <1>2, <1>3, BeginIs, RestSound

\* The user edits while no command runs, or midway something else than the URLs.
LEMMA UserSole == ASSUME SoleInv, User PROVE SoleInv' /\ DirectWhenDone /\ OtherStays
<1>1. /\ TypeInv /\ TypeOK /\ FilesOK
      /\ tmp \in Nodes \cup {None} /\ data \in [Nodes -> Doc \cup {Torn}]
  BY DEF SoleInv, TypeInv, TypeOK
<1>2. TypeInv' BY <1>1, UserType
<1>3. at' = at BY DEF User, EditOther, EditUrls, RemoveBackup, Edited
<1>4. Alone' BY <1>3 DEF SoleInv, Alone, Running
<1>5. DirectWhenDone BY <1>3 DEF DirectWhenDone
<1>6. ASSUME Quiet, NEW p \in Commands PROVE StepOK(p)' /\ Intact(p)'
  <2>1. at'[p] = at[p] /\ at[p].pc \in {"done", "dead", "idle"} BY <1>3, <1>6 DEF Quiet, Running, Ended
  <2>2. StepOK(p) BY DEF SoleInv
  <2> QED BY <2>1, <2>2 DEF StepOK, Intact, Connecting, Parting, Leaving, Left, Writing
<1>7. ASSUME NEW doc \in Doc, Edited(doc)
      PROVE  FilesOK' /\ OtherStays
  <2>1. /\ settings \in Nodes /\ settings # None /\ Now' = doc /\ edits' # edits
        /\ UNCHANGED <<settings, tmp, backup>>
    BY <1>1, <1>7, EditedIs
  <2> QED BY <1>1, <2>1, ConnectAssumption DEF FilesOK, BackupIsUpstream, Points, OtherStays
<1>8. CASE EditOther
  <2>1. settings \in Nodes /\ Now \in Doc BY <1>1, <1>8 DEF EditOther, Edited, TypeOK, Now
  <2>2. PICK other \in Others : Edited([Now EXCEPT !.other = other])
    BY <1>8 DEF EditOther, Now
  <2> DEFINE doc == [Now EXCEPT !.other = other]
  <2>3. doc \in Doc /\ doc.base = Now.base /\ doc.env = Now.env BY <2>1 DEF Doc
  <2> HIDE DEF doc
  <2>4. /\ settings # None /\ Now' = doc
        /\ data' = [data EXCEPT ![settings] = doc]
        /\ UNCHANGED <<settings, tmp, at, may>>
    BY <1>1, <2>2, <2>3, EditedIs DEF doc
  <2>5. FilesOK' /\ OtherStays BY <1>7, <2>2, <2>3 DEF doc
  <2>6. CASE Quiet BY <1>2, <1>4, <1>5, <1>6, <2>5, <2>6 DEF SoleInv
  <2>7. CASE ~Quiet
    <3>1. "midway" \in may BY <1>8, <2>7 DEF EditOther
    <3>2. Points(Now)' = Points(Now) BY <2>3, <2>4 DEF Points
    <3>3. Now' # Torn BY <2>3, <2>4, ConnectAssumption
    <3>4. ASSUME NEW p \in Commands PROVE StepOK(p)' /\ Intact(p)'
      <4>1. StepOK(p) BY DEF SoleInv
      <4>2. IsDirect => IsDirect' BY <2>4, <3>2, <3>3 DEF IsDirect, Now
      <4>3. tmp # None => data'[tmp] = data[tmp] BY <1>1, <2>1, <2>4 DEF FilesOK
      <4>4. at[p].pc = "fill" => tmp # None
        BY <4>1, <1>1, ConnectAssumption DEF StepOK, TypeInv, LocalOK
      <4>5. StepOK(p)'
        BY <2>4, <3>2, <4>1, <4>2, <4>3, <4>4 DEF StepOK, Connecting, Parting, Leaving, Left, Points
      <4> QED BY <2>4, <3>1, <4>5 DEF Intact
    <3> QED BY <1>2, <1>4, <1>5, <2>5, <3>4 DEF SoleInv
  <2> QED BY <2>6, <2>7
<1>9. CASE EditUrls
  <2>1. settings \in Nodes /\ Now \in Doc BY <1>1, <1>9 DEF EditUrls, Edited, TypeOK, Now
  <2>2. PICK base \in Urls \cup {None}, env \in Urls \cup {None} :
          Edited([Now EXCEPT !.base = base, !.env = env])
    BY <1>9 DEF EditUrls, Now
  <2>3. [Now EXCEPT !.base = base, !.env = env] \in Doc BY <2>1 DEF Doc
  <2>4. FilesOK' /\ OtherStays BY <1>7, <2>2, <2>3
  <2>5. Quiet BY <1>9 DEF EditUrls
  <2> QED BY <1>2, <1>4, <1>5, <1>6, <2>4, <2>5 DEF SoleInv
<1>10. CASE RemoveBackup
  <2>1. UNCHANGED files /\ backup' = None /\ Quiet BY <1>10 DEF RemoveBackup
  <2>2. FilesOK' /\ OtherStays
    BY <1>1, <2>1, ConnectAssumption DEF FilesOK, BackupIsUpstream, files, Now, OtherStays
  <2> QED BY <1>2, <1>4, <1>5, <1>6, <2>1, <2>2 DEF SoleInv
<1> QED BY <1>8, <1>9, <1>10 DEF User

\* The invariant holds at the start, ...
LEMMA InitSole == Init => SoleInv
<1> SUFFICES ASSUME Init PROVE SoleInv
  OBVIOUS
<1>1. TypeInv BY InitType
<1>2. \A p \in Commands : at[p].pc = "idle" /\ at[p].after = "note" BY DEF Init, Fresh
<1>3. Alone BY <1>2 DEF Alone, Running
<1>4. \A p \in Commands : StepOK(p) /\ Intact(p)
  BY <1>2 DEF StepOK, Intact, Connecting, Parting, Leaving, Left, Writing
<1>5. settings # None => Now # Torn
  <2>1. ASSUME NEW n \in Nodes, NEW doc \in Doc,
               settings = n, data = [x \in Nodes |-> IF x = n THEN doc ELSE Torn]
        PROVE  Now # Torn
    BY <2>1, ConnectAssumption DEF Now
  <2> QED BY <2>1 DEF Init
<1>6. FilesOK BY <1>5, ConnectAssumption DEF Init, FilesOK, BackupIsUpstream
<1> QED BY <1>1, <1>3, <1>4, <1>6 DEF SoleInv

\* Only a process that runs moves.
LEMMA StepsRun ==
  ASSUME NEW p \in Commands, Connect(p) \/ Disconnect(p) \/ Write(p) \/ Fault(p)
  PROVE  Running(p)
<1> USE DEF At, Running, Ended
<1>1. CASE Connect(p)
  BY <1>1 DEF Connect, Look, Apply, Backup, Copy, Copied, Note, Noted
<1>2. CASE Disconnect(p)
  BY <1>2 DEF Disconnect, Leave, Find, Restore, Structured, Clean, Unback, Unnote
<1>3. CASE Write(p) BY <1>3 DEF Write, Open, Fill, Rename
<1>4. CASE Fault(p) BY <1>4 DEF Fault, IoFails, WriteFails, NoteFails, Crash
<1> QED BY <1>1, <1>2, <1>3, <1>4

\* ... and is kept by every step, with the two facts.
LEMMA NextSole ==
  ASSUME AtOnce = 1, SoleInv, [Next]_vars
  PROVE  SoleInv' /\ (UNCHANGED vars \/ (DirectWhenDone /\ OtherStays))
<1>1. TypeInv' BY NextType DEF SoleInv
<1>2. CASE UNCHANGED vars
  <2>1. SoleInv' = SoleInv
    BY <1>2 DEF vars, SoleInv, TypeInv, TypeOK, LocalOK, Alone, Running, FilesOK,
                BackupIsUpstream, StepOK, Intact, Connecting, Parting, Leaving, Left, IsDirect,
                Points, Now
  <2> QED BY <1>2, <2>1
<1>3. ASSUME NEW p \in Commands, Begin(p) PROVE SoleInv' /\ DirectWhenDone /\ OtherStays
  <2>1. \A q \in Commands : ~Running(q) BY <1>3, BeginsAlone
  <2>2. Sound(p) BY <1>3, BeginSound
  <2> QED BY <1>1, <2>1, <2>2, OneMoves
<1>4. ASSUME NEW p \in Commands, Connect(p) \/ Disconnect(p) \/ Write(p) \/ Fault(p)
      PROVE  SoleInv' /\ DirectWhenDone /\ OtherStays
  <2>1. Running(p) BY <1>4, StepsRun
  <2>2. \A q \in Commands : q # p => ~Running(q) BY <2>1 DEF SoleInv, Alone
  <2>3. Sound(p) BY <1>4, ConnectSound, DisconnectSound, WriteSound, FaultSound
  <2> QED BY <1>1, <2>2, <2>3, OneMoves
<1> QED BY <1>2, <1>3, <1>4, UserSole DEF Next

\* While commands do not overlap, a disconnect that reports success has left
\* nothing that routes through Toche, wherever others failed or were killed.
THEOREM DisconnectIsDirect == AtOnce = 1 => (Spec => DisconnectedIsDirect)
<1> SUFFICES ASSUME AtOnce = 1 PROVE Spec => DisconnectedIsDirect
  OBVIOUS
<1>1. SoleInv /\ [Next]_vars => SoleInv' BY NextSole
<1>2. SoleInv /\ [Next]_vars =>
        [\A p \in Commands :
           at'[p].outcome = "disconnected" /\ at[p].outcome # "disconnected" => IsDirect']_vars
  BY NextSole DEF DirectWhenDone, vars
<1> QED BY InitSole, <1>1, <1>2, PTL DEF Spec, DisconnectedIsDirect

\* While commands do not overlap, the rest of the settings is changed by the user
\* only, or an edit was made in the middle of a command.
THEOREM NoEditIsLost == AtOnce = 1 => (Spec => OtherIsKept)
<1> SUFFICES ASSUME AtOnce = 1 PROVE Spec => OtherIsKept
  OBVIOUS
<1>1. SoleInv /\ [Next]_vars => SoleInv' BY NextSole
<1>2. SoleInv /\ [Next]_vars =>
        [settings # None /\ settings' # None /\ Now'.other # Now.other
           => edits' # edits \/ "midway" \in may]_vars
  BY NextSole DEF OtherStays, vars
<1> QED BY InitSole, <1>1, <1>2, PTL DEF Spec, OtherIsKept

\* While commands do not overlap, the backup never routes through Toche, with any
\* failures, kills and edits: what two overlapping connects refute.
THEOREM BackupsAreUpstream == AtOnce = 1 => (Spec => []BackupIsUpstream)
<1> SUFFICES ASSUME AtOnce = 1 PROVE Spec => []BackupIsUpstream
  OBVIOUS
<1>1. SoleInv /\ [Next]_vars => SoleInv' BY NextSole
<1>2. SoleInv => BackupIsUpstream BY DEF SoleInv, FilesOK
<1> QED BY InitSole, <1>1, <1>2, PTL DEF Spec

(***************************************************************************)
(* One command at a time: the URLs.                                        *)
(***************************************************************************)

\* What may happen: failures, and no edit of the URLs; edits of the URLs, and
\* no failure; and that, while the backup may be removed.
Failing == may \subseteq {"other", "midway"} \cup ConnectFaultKinds
Editing == may \subseteq {"other", "midway", "urls"}
Removing == may \subseteq {"other", "midway", "urls", "backup"}

\* The document holds the URLs that the user chose, as far as that is promised.
Mine(doc) ==
  /\ Failing \/ Editing => UrlsOf(doc) = mine
  /\ Removing => UrlsOf(doc).env = mine.env

\* It routes through Toche wholly.
Both(doc) == Failing \/ Removing => doc.base = Toche /\ doc.env = Toche

NoUrls ==
  /\ Failing \/ Editing => mine = [base |-> None, env |-> None]
  /\ Removing => mine.env = None

Routed == settings # None /\ Points(Now)

\* Where a backup may lie beside settings that do not route through Toche, and
\* where the note is still to be written.
Holding(p) == at[p].pc \in {"copied", "open", "fill", "rename", "unback"}

Noting(p) == at[p].pc \in {"note", "noted"}

\* The settings, the backup or the note have the user's URLs.
SavedOK ==
  /\ settings = None => NoUrls
  /\ settings # None => IF Points(Now) THEN Both(Now) ELSE Mine(Now)
  /\ backup \in Doc => Mine(backup)
  /\ Failing => noted \in {None, Blank, mine.env} /\ (mine.env = None => noted = None)
  /\ (Failing \/ Editing) /\ Routed /\ backup = None => NoUrls

\* The backup and the note exist while they are needed, unless a process fails.
BackupWhile(b) == Removing /\ backup # None => Routed \/ b
NoteWhile(b) == Removing /\ noted # None => Routed \/ b
NoteIs(b) == Removing /\ Routed /\ ~b => noted = mine.env

\* What a process is about to write, and what it has noted, is the user's.
UrlsStep(p) ==
  /\ at[p].pc \in {"idle", "look", "apply"} => at[p].url = None
  /\ Connecting(p) \/ Noting(p) => (Failing \/ Removing => at[p].url = mine.env)
  /\ Connecting(p) => Both(at[p].want)
  /\ Connecting(p) /\ at[p].pc \in Writing /\ (Failing \/ Editing) /\ backup = None
       => settings = None
  /\ at[p].pc = "note" /\ Removing => noted = None
  /\ Noting(p) /\ Removing => Routed
  /\ Parting(p) => Both(at[p].want) /\ Routed
  /\ at[p].pc = "structured" /\ (Failing \/ Removing) => backup = None
  /\ Leaving(p) => Mine(at[p].want)
  /\ Leaving(p) /\ Removing => (at[p].after = "unback" <=> backup # None)
  /\ at[p].pc = "unback" /\ Removing => backup # None
  /\ at[p].pc \in {"clean", "unnote"} /\ Removing => backup = None

\* Inductive together with SoleInv.
UrlsInv ==
  /\ SavedOK
  /\ BackupWhile(\E p \in Commands : Holding(p))
  /\ NoteWhile(\E p \in Commands : Left(p) \/ Leaving(p))
  /\ NoteIs(\E p \in Commands : Noting(p))
  /\ \A p \in Commands : UrlsStep(p)

\* The same, when only p runs.
UrlsOK(p) ==
  /\ SavedOK
  /\ BackupWhile(Holding(p))
  /\ NoteWhile(Left(p) \/ Leaving(p))
  /\ NoteIs(Noting(p))
  /\ UrlsStep(p)

\* Where only p runs, UrlsInv is UrlsOK(p), before a step ...
LEMMA UrlsOfOne ==
  ASSUME UrlsInv, NEW p \in Commands, \A q \in Commands : q # p => ~Running(q)
  PROVE  UrlsOK(p)
<1>1. ASSUME NEW q \in Commands, q # p
      PROVE  ~Holding(q) /\ ~Left(q) /\ ~Leaving(q) /\ ~Noting(q)
  BY <1>1 DEF Running, Ended, Holding, Left, Leaving, Noting, Writing
<1>2. /\ (\E q \in Commands : Holding(q)) => Holding(p)
      /\ (\E q \in Commands : Left(q) \/ Leaving(q)) => Left(p) \/ Leaving(p)
      /\ (\E q \in Commands : Noting(q)) => Noting(p)
  BY <1>1
<1> QED BY <1>2 DEF UrlsInv, UrlsOK, BackupWhile, NoteWhile, NoteIs

\* ... and after it.
LEMMA UrlsOfAll ==
  ASSUME UrlsInv, NEW p \in Commands, \A q \in Commands : q # p => ~Running(q),
         Only(p), UrlsOK(p)'
  PROVE  UrlsInv'
<1>1. ASSUME NEW q \in Commands, q # p PROVE UrlsStep(q)'
  <2>1. at'[q] = at[q] /\ at[q].pc \in {"done", "dead", "idle"}
    BY <1>1 DEF Only, Running, Ended
  <2>2. UrlsStep(q) BY DEF UrlsInv
  <2> QED BY <2>1, <2>2 DEF UrlsStep, Connecting, Noting, Parting, Leaving, Writing
<1>2. BackupWhile(\E q \in Commands : Holding(q))' BY DEF UrlsOK, BackupWhile
<1>3. NoteWhile(\E q \in Commands : Left(q) \/ Leaving(q))' BY DEF UrlsOK, NoteWhile
<1>4. NoteIs(\E q \in Commands : Noting(q))' BY DEF UrlsOK, NoteIs
<1> QED BY <1>1, <1>2, <1>3, <1>4 DEF UrlsInv, UrlsOK

\* What is saved stays so with the files.
LEMMA SavedStays ==
  ASSUME SavedOK, UNCHANGED <<settings, backup, noted, mine, may>>, settings # None => Now' = Now
  PROVE  SavedOK' /\ Routed' = Routed
BY DEF SavedOK, Routed, NoUrls, Both, Mine, Failing, Editing, Removing, UrlsOf, Points

\* A step that writes nothing must keep what the backup and the note wait for.
LEMMA UrlsStay ==
  ASSUME NEW p \in Commands, UrlsOK(p), Stays, UrlsStep(p)',
         Removing =>
           /\ Holding(p) /\ ~Routed /\ backup # None => Holding(p)'
           /\ (Left(p) \/ Leaving(p)) /\ ~Routed => (Left(p) \/ Leaving(p))'
           /\ Noting(p) => Noting(p)' \/ noted = mine.env
  PROVE  UrlsOK(p)'
<1>1. UNCHANGED <<settings, backup, noted, mine, may>> /\ Now' = Now
  BY DEF Stays, files, user, Now
<1>2. SavedOK' /\ Routed' = Routed BY <1>1, SavedStays DEF UrlsOK
<1>3. Removing' = Removing BY <1>1 DEF Removing
<1> QED BY <1>1, <1>2, <1>3 DEF UrlsOK, BackupWhile, NoteWhile, NoteIs

\* A process that ends plans nothing.
LEMMA EndsUrls ==
  ASSUME NEW p \in Commands, at'[p].pc \in {"done", "dead", "leave"}
  PROVE  /\ UrlsStep(p)'
         /\ ~Holding(p)' /\ ~Left(p)' /\ ~Leaving(p)' /\ ~Noting(p)'
BY DEF UrlsStep, Connecting, Noting, Parting, Leaving, Left, Holding, Writing

\* Every action of a process alone keeps the URLs the user's.
LEMMA ConnectUrls ==
  ASSUME SoleInv, NEW p \in Commands, UrlsOK(p), Connect(p) PROVE UrlsOK(p)'
<1> USE DEF At
<1>1. /\ TypeInv /\ TypeOK /\ StepOK(p) /\ LocalOK(p) /\ at[p] \in Local
      /\ mine \in [base : Urls \cup {None}, env : Urls \cup {None}]
      /\ SavedOK /\ UrlsStep(p)
  BY DEF SoleInv, TypeInv, TypeOK, UrlsOK
<1>2. CASE Look(p)
  <2>1. Stays BY <1>2 DEF Look, Stays
  <2>2. ~Holding(p) /\ ~Left(p) /\ ~Leaving(p) /\ ~Noting(p)
    BY <1>2 DEF Look, Holding, Left, Leaving, Noting, Writing
  <2>3. CASE Go(p, "apply")
    <3>1. "apply" \in Steps BY DEF Steps
    <3>2. at'[p].pc = "apply" /\ at'[p].url = None BY <1>1, <1>2, <2>3, <3>1, GoIs DEF Look, UrlsStep
    <3>3. UrlsStep(p)' BY <3>2 DEF UrlsStep, Connecting, Noting, Parting, Leaving, Writing
    <3> QED BY <2>1, <2>2, <3>3, UrlsStay
  <2>4. CASE \E o \in {"already", "failed"} : End(p, o)
    <3>1. at'[p].pc = "done" BY <1>1, <2>4, EndIs DEF Outcomes
    <3> QED BY <2>1, <2>2, <3>1, EndsUrls, UrlsStay
  <2> QED BY <1>2, <2>3, <2>4 DEF Look
<1>3. CASE Apply(p)
  <2>1. Stays BY <1>3 DEF Apply, Stays
  <2>2. ~Holding(p) /\ ~Left(p) /\ ~Leaving(p) /\ ~Noting(p)
    BY <1>3 DEF Apply, Holding, Left, Leaving, Noting, Writing
  <2>3. CASE at'[p].pc = "done" BY <2>1, <2>2, <2>3, EndsUrls, UrlsStay
  <2>4. CASE at'[p].pc = "backup"
    <3>1. /\ at'[p].want.base = Toche /\ at'[p].want.env = Toche
          /\ \/ settings = None /\ at'[p].url = at[p].url
             \/ /\ settings # None /\ Now \in Doc /\ ~Points(Now)
                /\ at'[p].url = IF Now.env \in Urls THEN Now.env ELSE None
      BY <1>1, <1>3, <2>4, ApplyIs
    <3>2. Failing \/ Removing => at'[p].url = mine.env
      <4>1. CASE settings = None
        <5>1. at'[p].url = None BY <1>1, <1>3, <3>1, <4>1 DEF Apply, UrlsStep
        <5> QED BY <1>1, <4>1, <5>1 DEF SavedOK, NoUrls
      <4>2. CASE settings # None
        <5>1. Mine(Now) /\ Now \in Doc /\ ~Points(Now) BY <1>1, <3>1, <4>2 DEF SavedOK
        <5>2. Failing \/ Removing => (IF Now.env = Bare THEN None ELSE Now.env) = mine.env
          BY <5>1 DEF Mine, UrlsOf
        <5> QED BY <1>1, <3>1, <4>2, <5>2, ConnectAssumption
      <4> QED BY <4>1, <4>2
    <3>3. mine' = mine /\ may' = may BY <2>1 DEF Stays, user
    <3>4. Both(at'[p].want) BY <3>1 DEF Both
    <3>5. UrlsStep(p)'
      BY <2>4, <3>2, <3>3, <3>4
         DEF UrlsStep, Connecting, Noting, Parting, Leaving, Writing, Both, Failing, Removing
    <3> QED BY <2>1, <2>2, <3>5, UrlsStay
  <2> QED BY <1>1, <1>3, <2>3, <2>4, ApplyIs
<1>4. CASE Backup(p)
  <2>1. Stays BY <1>4 DEF Backup, Stays
  <2>2. ~Holding(p) /\ ~Left(p) /\ ~Leaving(p) /\ ~Noting(p) /\ Connecting(p) /\ at[p].after = "note"
    BY <1>1, <1>4 DEF Backup, Holding, Left, Leaving, Noting, Writing, Connecting, StepOK
  <2>3. PICK pc \in {"copy", "open"} :
          Go(p, pc) /\ (pc = "open" => settings = None \/ backup # None)
    BY <1>4 DEF Backup
  <2>4. pc \in Steps BY DEF Steps
  <2>5. /\ at'[p].pc = pc /\ at'[p].url = at[p].url /\ at'[p].want = at[p].want
        /\ at'[p].after = "note"
    BY <1>1, <2>2, <2>3, <2>4, GoIs
  <2>6. UNCHANGED <<settings, backup, mine, may>> BY <2>1 DEF Stays, files, user
  <2>7. UrlsStep(p)'
    BY <1>1, <2>2, <2>3, <2>5, <2>6
       DEF UrlsStep, Connecting, Noting, Parting, Leaving, Writing, Both, Failing, Editing, Removing
  <2> QED BY <2>1, <2>2, <2>7, UrlsStay
<1>5. CASE Copy(p)
  <2>1. /\ at'[p].pc = "copied" /\ at'[p].want = at[p].want /\ at'[p].url = at[p].url
    BY <1>1, <1>5, CopyIs
  <2>2. backup' = Torn /\ UNCHANGED <<settings, data, noted, mine, may>>
    BY <1>5 DEF Copy, files, user
  <2>3. ~Left(p) /\ ~Leaving(p) /\ ~Noting(p) /\ Connecting(p) /\ Holding(p)'
    BY <1>5, <2>1 DEF Copy, Left, Leaving, Noting, Writing, Connecting, Holding
  <2>4. UrlsStep(p)'
    BY <1>1, <2>1, <2>2, <2>3
       DEF UrlsStep, Connecting, Noting, Parting, Leaving, Writing, Both, Failing, Editing, Removing
  <2>5. SavedOK' /\ Routed' = Routed
    BY <1>1, <2>2, ConnectAssumption
       DEF SavedOK, Routed, NoUrls, Both, Mine, Failing, Editing, Removing, UrlsOf, Points, Now
  <2> QED BY <2>2, <2>3, <2>4, <2>5 DEF UrlsOK, BackupWhile, NoteWhile, NoteIs, Removing
<1>6. CASE Copied(p)
  <2>1. Go(p, "open") /\ "open" \in Steps BY <1>6 DEF Copied, Steps
  <2>2. /\ at'[p].pc = "open" /\ at'[p].want = at[p].want /\ at'[p].url = at[p].url
        /\ at'[p].after = at[p].after
    BY <1>1, <2>1, GoIs
  <2>3. /\ at[p].after = "note" /\ Connecting(p) /\ IsDirect
        /\ at[p].fd = settings /\ at[p].fd \in Nodes
    BY <1>1, <1>6 DEF StepOK, Copied, Connecting, LocalOK
  <2>4. backup' = Now /\ UNCHANGED <<settings, data, noted, mine, may>>
    BY <1>6, <2>3 DEF Copied, Now, files, user
  <2>5. settings # None BY <2>3, ConnectAssumption
  <2>6. ~Points(Now) /\ Now # Torn BY <2>3, <2>5 DEF IsDirect, Now
  <2>7. Now \in Doc BY <1>1, <2>3, <2>6 DEF TypeOK, Now
  <2>8. Now # None BY <2>7, ConnectAssumption
  <2>9. UrlsStep(p)'
    BY <1>1, <2>2, <2>3, <2>4, <2>8
       DEF UrlsStep, Connecting, Noting, Parting, Leaving, Writing, Both, Failing, Editing, Removing
  <2>10. SavedOK' /\ Routed' = Routed
    BY <1>1, <2>4, <2>5, <2>6, <2>8
       DEF SavedOK, Routed, NoUrls, Both, Mine, Failing, Editing, Removing, UrlsOf, Points, Now
  <2>11. ~Left(p) /\ ~Leaving(p) /\ ~Noting(p) /\ Holding(p)'
    BY <1>6, <2>2 DEF Copied, Left, Leaving, Noting, Writing, Holding
  <2> QED BY <2>4, <2>9, <2>10, <2>11 DEF UrlsOK, BackupWhile, NoteWhile, NoteIs, Removing
<1>7. CASE Note(p)
  <2>1. Noting(p) /\ ~Holding(p) /\ ~Left(p) /\ ~Leaving(p)
    BY <1>7 DEF Note, Noting, Holding, Left, Leaving, Writing
  <2>2. CASE at[p].url = None
    <3>1. End(p, "already") /\ "already" \in Outcomes /\ Stays
      BY <1>7, <2>2 DEF Note, Outcomes, Stays
    <3>2. at'[p].pc = "done" BY <1>1, <3>1, EndIs
    <3>3. Removing => noted = mine.env BY <1>1, <1>7, <2>1, <2>2 DEF UrlsStep, Note
    <3> QED BY <2>1, <3>1, <3>2, <3>3, EndsUrls, UrlsStay
  <2>3. CASE at[p].url # None
    <3>1. Go(p, "noted") /\ "noted" \in Steps BY <1>7, <2>3 DEF Note, Steps
    <3>2. at'[p].pc = "noted" /\ at'[p].url = at[p].url BY <1>1, <3>1, GoIs
    <3>3. noted' = Blank /\ UNCHANGED <<settings, data, backup, mine, may>>
      BY <1>7, <2>3 DEF Note, files, user
    <3>4. Failing \/ Removing => at[p].url = mine.env BY <1>1, <2>1 DEF UrlsStep
    <3>5. Removing => Routed BY <1>1, <2>1 DEF UrlsStep
    <3>6. SavedOK' /\ Routed' = Routed
      BY <1>1, <2>3, <3>3, <3>4
         DEF SavedOK, Routed, NoUrls, Both, Mine, Failing, Editing, Removing, UrlsOf, Points, Now
    <3>7. UrlsStep(p)'
      BY <3>2, <3>3, <3>4, <3>5, <3>6
         DEF UrlsStep, Connecting, Noting, Parting, Leaving, Writing, Failing, Removing
    <3>8. Noting(p)' BY <3>2 DEF Noting
    <3> QED BY <2>1, <3>3, <3>5, <3>6, <3>7, <3>8 DEF UrlsOK, BackupWhile, NoteWhile, NoteIs, Removing
  <2> QED BY <2>2, <2>3
<1>8. CASE Noted(p)
  <2>1. Noting(p) /\ ~Holding(p) /\ ~Left(p) /\ ~Leaving(p)
    BY <1>8 DEF Noted, Noting, Holding, Left, Leaving, Writing
  <2>2. End(p, "connected") /\ "connected" \in Outcomes BY <1>8 DEF Noted, Outcomes
  <2>3. at'[p].pc = "done" BY <1>1, <2>2, EndIs
  <2>4. noted' = at[p].url /\ at[p].url \in Urls /\ UNCHANGED <<settings, data, backup, mine, may>>
    BY <1>1, <1>8 DEF Noted, files, user, LocalOK
  <2>5. Failing \/ Removing => at[p].url = mine.env BY <1>1, <2>1 DEF UrlsStep
  <2>6. Removing => Routed BY <1>1, <2>1 DEF UrlsStep
  <2>7. None \notin Urls BY ConnectAssumption
  <2>8. SavedOK' /\ Routed' = Routed
    BY <1>1, <2>4, <2>5, <2>7
       DEF SavedOK, Routed, NoUrls, Both, Mine, Failing, Editing, Removing, UrlsOf, Points, Now
  <2> QED BY <2>1, <2>3, <2>4, <2>5, <2>6, <2>8, EndsUrls
          DEF UrlsOK, BackupWhile, NoteWhile, NoteIs, Failing, Removing
<1> QED BY <1>2, <1>3, <1>4, <1>5, <1>6, <1>7, <1>8 DEF Connect

LEMMA DisconnectUrls ==
  ASSUME SoleInv, NEW p \in Commands, UrlsOK(p), Disconnect(p) PROVE UrlsOK(p)'
<1> USE DEF At
<1>1. /\ TypeInv /\ TypeOK /\ FilesOK /\ StepOK(p) /\ LocalOK(p) /\ at[p] \in Local
      /\ mine \in [base : Urls \cup {None}, env : Urls \cup {None}]
      /\ SavedOK /\ UrlsStep(p)
  BY DEF SoleInv, TypeInv, TypeOK, UrlsOK
<1>2. CASE Leave(p)
  <2>1. Stays BY <1>2 DEF Leave, Stays
  <2>2. ~Holding(p) /\ ~Left(p) /\ ~Leaving(p) /\ ~Noting(p)
    BY <1>2 DEF Leave, Holding, Left, Leaving, Noting, Writing
  <2>3. CASE at'[p].pc = "done" BY <2>1, <2>2, <2>3, EndsUrls, UrlsStay
  <2>4. CASE at'[p].pc = "find"
    <3>1. at'[p].want = Now /\ settings # None /\ Points(Now) BY <1>1, <1>2, <2>4, LeaveIs
    <3>2. Both(Now) BY <1>1, <3>1 DEF SavedOK
    <3>3. UNCHANGED <<settings, data, backup, mine, may>> BY <2>1 DEF Stays, files, user
    <3>4. UrlsStep(p)'
      BY <2>4, <3>1, <3>2, <3>3
         DEF UrlsStep, Connecting, Noting, Parting, Leaving, Writing, Both, Failing, Removing,
             Routed, Now, Points
    <3> QED BY <2>1, <2>2, <3>4, UrlsStay
  <2> QED BY <1>1, <1>2, <2>3, <2>4, LeaveIs
<1>3. CASE Find(p)
  <2>1. Stays BY <1>3 DEF Find, Stays
  <2>2. ~Holding(p) /\ ~Left(p) /\ ~Leaving(p) /\ ~Noting(p) /\ Parting(p)
    BY <1>3 DEF Find, Holding, Left, Leaving, Noting, Writing, Parting
  <2>3. PICK pc \in {"structured", "restore"} :
          Go(p, pc) /\ (pc = "structured" => backup = None)
    BY <1>3 DEF Find
  <2>4. pc \in Steps BY DEF Steps
  <2>5. at'[p].pc = pc /\ at'[p].want = at[p].want BY <1>1, <2>3, <2>4, GoIs
  <2>6. UNCHANGED <<settings, data, backup, mine, may>> BY <2>1 DEF Stays, files, user
  <2>7. UrlsStep(p)'
    BY <1>1, <2>2, <2>3, <2>5, <2>6
       DEF UrlsStep, Connecting, Noting, Parting, Leaving, Writing, Both, Failing, Removing,
           Routed, Now, Points
  <2> QED BY <2>1, <2>2, <2>7, UrlsStay
<1>4. CASE Restore(p)
  <2>1. Stays BY <1>4 DEF Restore, Stays
  <2>2. ~Holding(p) /\ ~Left(p) /\ ~Leaving(p) /\ ~Noting(p) /\ Parting(p)
    BY <1>4 DEF Restore, Holding, Left, Leaving, Noting, Writing, Parting
  <2>3. CASE at'[p].pc = "done" BY <2>1, <2>2, <2>3, EndsUrls, UrlsStay
  <2>4. CASE at'[p].pc = "open"
    <3>1. /\ at'[p].after = "unback"
          /\ at'[p].want = Restored(at[p].want) /\ at[p].want \in Doc /\ backup \in Doc
      BY <1>1, <1>4, <2>4, RestoreIs
    <3>2. Mine(backup) /\ Both(at[p].want) BY <1>1, <2>2, <3>1 DEF SavedOK, UrlsStep
    <3>3. Failing \/ Removing => UrlsOf(at'[p].want) = UrlsOf(backup)
      BY <3>1, <3>2, RestoredIs, ConnectAssumption DEF Both
    <3>4. Editing => Removing BY DEF Editing, Removing
    <3>5. Mine(at'[p].want) BY <3>2, <3>3, <3>4 DEF Mine
    <3>6. UNCHANGED <<settings, data, backup, mine, may>> BY <2>1 DEF Stays, files, user
    <3>7. backup # None BY <3>1, ConnectAssumption
    <3>8. UrlsStep(p)'
      BY <2>4, <3>1, <3>5, <3>6, <3>7
         DEF UrlsStep, Connecting, Noting, Parting, Leaving, Writing, Mine, Failing, Editing, Removing
    <3> QED BY <2>1, <2>2, <3>8, UrlsStay
  <2> QED BY <1>1, <1>4, <2>3, <2>4, RestoreIs
<1>5. CASE Structured(p)
  <2>1. Stays BY <1>5 DEF Structured, Stays
  <2>2. ~Holding(p) /\ ~Left(p) /\ ~Leaving(p) /\ ~Noting(p) /\ Parting(p)
    BY <1>5 DEF Structured, Holding, Left, Leaving, Noting, Writing, Parting
  <2>3. /\ at'[p].pc = "open" /\ at'[p].after \in {"clean", "unnote"}
        /\ at[p].want \in Doc /\ at'[p].want.base = None
    BY <1>1, <1>5, StructuredIs
  <2>4. PICK saved \in {noted} \cup (IF "io" \in may THEN {None} ELSE {}) :
          at'[p].want.env = EnvLeft(at[p].want, saved)
    BY <1>1, <1>5, StructuredIs
  <2>5. /\ Both(at[p].want) /\ Routed
        /\ Failing \/ Removing => backup = None
    BY <1>1, <1>5, <2>2 DEF UrlsStep, Structured
  <2>6. UrlsOf(at'[p].want) = [base |-> None, env |-> IF at'[p].want.env = Bare THEN None ELSE at'[p].want.env]
    BY <2>3 DEF UrlsOf
  <2>7. Bare \notin Urls \cup {None} BY ConnectAssumption
  <2>8. Failing => Mine(at'[p].want)
    <3> SUFFICES ASSUME Failing PROVE Mine(at'[p].want)
      OBVIOUS
    <3>1. mine = [base |-> None, env |-> None] BY <1>1, <2>5 DEF SavedOK, NoUrls
    <3>2. saved = None BY <1>1, <2>4, <3>1 DEF SavedOK
    <3>3. at'[p].want.env = Bare BY <2>4, <2>5, <3>2 DEF EnvLeft, Both
    <3> QED BY <2>6, <3>1, <3>3 DEF Mine
  <2>9. Removing => Mine(at'[p].want)
    <3> SUFFICES ASSUME Removing PROVE Mine(at'[p].want)
      OBVIOUS
    <3>1. noted = mine.env BY <2>2, <2>5 DEF UrlsOK, NoteIs
    <3>2. "io" \notin may BY DEF Removing
    <3>3. at'[p].want.env = IF mine.env = None THEN Bare ELSE mine.env
      BY <2>4, <2>5, <3>1, <3>2 DEF EnvLeft, Both
    <3>4. mine.env \in Urls \cup {None} BY <1>1
    <3>5. UrlsOf(at'[p].want) = [base |-> None, env |-> mine.env] BY <2>6, <2>7, <3>3, <3>4
    <3>6. Failing \/ Editing => mine = [base |-> None, env |-> None] BY <1>1, <2>5 DEF SavedOK, NoUrls
    <3> QED BY <3>5, <3>6 DEF Mine
  <2>10. Mine(at'[p].want) BY <2>8, <2>9 DEF Mine, Editing, Removing
  <2>11. UNCHANGED <<settings, data, backup, mine, may>> BY <2>1 DEF Stays, files, user
  <2>12. UrlsStep(p)'
    BY <2>3, <2>5, <2>10, <2>11
       DEF UrlsStep, Connecting, Noting, Parting, Leaving, Writing, Mine, Failing, Editing, Removing
  <2> QED BY <2>1, <2>2, <2>12, UrlsStay
<1>6. CASE Clean(p)
  <2>1. Stays BY <1>6 DEF Clean, Stays
  <2>2. ~Holding(p) /\ Left(p) /\ ~Noting(p) BY <1>6 DEF Clean, Holding, Left, Noting
  <2>3. settings # None /\ Now # Torn /\ ~Points(Now) BY <1>1, <2>2 DEF StepOK, FilesOK
  <2>4. at'[p].pc = "open"
    <3>1. at' = [at EXCEPT ![p].pc = "open", ![p].after = "unnote",
                           ![p].want = [Now EXCEPT !.env = IF @ = Bare THEN None ELSE @]]
      BY <1>6, <2>3 DEF Clean, Now
    <3>2. at \in [Commands -> Local] BY <1>1 DEF TypeOK
    <3> QED BY <3>1, <3>2 DEF Local
  <2>5. /\ at'[p].pc = "open" /\ at'[p].after = "unnote"
        /\ at'[p].want.base = Now.base
        /\ at'[p].want.env = (IF Now.env = Bare THEN None ELSE Now.env)
    BY <1>1, <1>6, <2>4, CleanIs
  <2>6. Mine(Now) /\ (Removing => backup = None)
    BY <1>1, <1>6, <2>3 DEF SavedOK, UrlsStep, Clean
  <2>7. UrlsOf(at'[p].want) = UrlsOf(Now) BY <2>5, ConnectAssumption DEF UrlsOf
  <2>8. Mine(at'[p].want) BY <2>6, <2>7 DEF Mine
  <2>9. UNCHANGED <<settings, data, backup, mine, may>> BY <2>1 DEF Stays, files, user
  <2>10. UrlsStep(p)'
    BY <2>5, <2>6, <2>8, <2>9
       DEF UrlsStep, Connecting, Noting, Parting, Leaving, Writing, Mine, Failing, Editing, Removing
  <2>11. Leaving(p)' BY <2>5 DEF Leaving, Writing
  <2> QED BY <2>1, <2>2, <2>10, <2>11, UrlsStay
<1>7. CASE Unback(p)
  <2>1. backup' = None /\ UNCHANGED <<settings, data, noted, mine, may>>
    BY <1>7 DEF Unback, files, user
  <2>2. ~Noting(p) /\ Left(p) BY <1>7 DEF Unback, Noting, Left
  <2>3. settings # None /\ ~Points(Now) BY <1>1, <2>2 DEF StepOK
  <2>4. SavedOK' /\ Routed' = Routed
    BY <1>1, <2>1, <2>3, ConnectAssumption
       DEF SavedOK, Routed, NoUrls, Both, Mine, Failing, Editing, Removing, UrlsOf, Points, Now
  <2>5. CASE backup = None
    <3>1. End(p, "failed") /\ "failed" \in Outcomes BY <1>7, <2>5 DEF Unback, Outcomes
    <3>2. at'[p].pc = "done" BY <1>1, <3>1, EndIs
    <3>3. ~Removing BY <1>1, <1>7, <2>5 DEF UrlsStep, Unback
    <3> QED BY <2>1, <2>4, <3>2, <3>3, EndsUrls DEF UrlsOK, BackupWhile, NoteWhile, NoteIs, Removing
  <2>6. CASE backup # None
    <3>1. Go(p, "unnote") /\ "unnote" \in Steps BY <1>7, <2>6 DEF Unback, Steps
    <3>2. at'[p].pc = "unnote" BY <1>1, <3>1, GoIs
    <3>3. UrlsStep(p)' BY <2>1, <3>2 DEF UrlsStep, Connecting, Noting, Parting, Leaving, Writing
    <3>4. Left(p)' BY <3>2 DEF Left
    <3> QED BY <2>1, <2>3, <2>4, <3>3, <3>4
            DEF UrlsOK, BackupWhile, NoteWhile, NoteIs, Removing, Routed
  <2> QED BY <2>5, <2>6
<1>8. CASE Unnote(p)
  <2>1. End(p, "disconnected") /\ "disconnected" \in Outcomes BY <1>8 DEF Unnote, Outcomes
  <2>2. at'[p].pc = "done" BY <1>1, <2>1, EndIs
  <2>3. /\ noted' \in {None} \cup (IF "io" \in may THEN {noted} ELSE {})
        /\ UNCHANGED <<settings, data, backup, mine, may>>
    BY <1>8 DEF Unnote, files, user
  <2>4. Left(p) BY <1>8 DEF Unnote, Left
  <2>5. settings # None /\ ~Points(Now) BY <1>1, <2>4 DEF StepOK
  <2>6. Removing => noted' = None /\ backup = None
    BY <1>1, <1>8, <2>3 DEF Removing, UrlsStep, Unnote
  <2>7. SavedOK' /\ Routed' = Routed
    BY <1>1, <2>3
       DEF SavedOK, Routed, NoUrls, Both, Mine, Failing, Editing, Removing, UrlsOf, Points, Now
  <2> QED BY <2>2, <2>3, <2>5, <2>6, <2>7, EndsUrls
          DEF UrlsOK, BackupWhile, NoteWhile, NoteIs, Removing, Routed
<1> QED BY <1>2, <1>3, <1>4, <1>5, <1>6, <1>7, <1>8 DEF Disconnect

LEMMA WriteUrls ==
  ASSUME SoleInv, NEW p \in Commands, UrlsOK(p), Write(p) PROVE UrlsOK(p)'
<1> USE DEF At
<1>1. /\ TypeInv /\ TypeOK /\ FilesOK /\ StepOK(p) /\ LocalOK(p) /\ at[p] \in Local
      /\ settings \in Nodes \cup {None} /\ tmp \in Nodes \cup {None}
      /\ data \in [Nodes -> Doc \cup {Torn}]
      /\ SavedOK /\ UrlsStep(p)
  BY DEF SoleInv, TypeInv, TypeOK, UrlsOK
<1>2. ASSUME UNCHANGED <<settings, backup, noted, mine, may>>, settings # None => Now' = Now,
             at[p].pc \in Writing, at'[p].pc \in {"fill", "rename"},
             at'[p].want = at[p].want, at'[p].url = at[p].url, at'[p].after = at[p].after
      PROVE  UrlsOK(p)'
  <2>1. SavedOK' /\ Routed' = Routed BY <1>1, <1>2, SavedStays
  <2>2. Holding(p)' /\ Leaving(p)' = Leaving(p) /\ ~Left(p) /\ ~Noting(p)
    BY <1>2 DEF Holding, Leaving, Left, Noting, Writing
  <2>3. UrlsStep(p)'
    BY <1>1, <1>2, <2>1
       DEF UrlsStep, Connecting, Noting, Parting, Leaving, Writing, Both, Mine, Failing, Editing, Removing
  <2> QED BY <1>2, <2>1, <2>2, <2>3 DEF UrlsOK, BackupWhile, NoteWhile, NoteIs, Removing
<1>3. CASE Open(p)
  <2>1. /\ at'[p].pc = "fill" /\ at'[p].want = at[p].want /\ at'[p].url = at[p].url
        /\ at'[p].after = at[p].after
        /\ tmp' \in Nodes /\ data' = [data EXCEPT ![tmp'] = Torn]
        /\ tmp' = tmp \/ tmp' \in Free
        /\ settings' = settings
    BY <1>1, <1>3, OpenIs
  <2>2. tmp' # settings BY <1>1, <2>1, ConnectAssumption DEF FilesOK, Free
  <2>3. settings # None => Now' = Now BY <1>1, <2>1, <2>2 DEF Now
  <2>4. UNCHANGED <<backup, noted, mine, may>> /\ at[p].pc \in Writing
    BY <1>3 DEF Open, user, Writing
  <2> QED BY <1>2, <2>1, <2>3, <2>4
<1>4. CASE Fill(p)
  <2>1. at[p].fd = tmp /\ tmp \in Nodes BY <1>1, <1>4 DEF Fill, StepOK, LocalOK
  <2>2. tmp # settings BY <1>1, <2>1, ConnectAssumption DEF FilesOK
  <2>3. Go(p, "rename") /\ "rename" \in Steps BY <1>4 DEF Fill, Steps
  <2>4. /\ at'[p].pc = "rename" /\ at'[p].want = at[p].want /\ at'[p].url = at[p].url
        /\ at'[p].after = at[p].after
    BY <1>1, <2>3, GoIs
  <2>5. PICK doc : data' = [data EXCEPT ![tmp] = doc] BY <1>4, <2>1 DEF Fill
  <2>6. UNCHANGED <<settings, backup, noted, mine, may>> /\ at[p].pc \in Writing
    BY <1>4 DEF Fill, user, Writing
  <2>7. settings # None => Now' = Now BY <1>1, <2>1, <2>2, <2>5, <2>6 DEF Now
  <2> QED BY <1>2, <2>4, <2>6, <2>7
<1>5. CASE Rename(p)
  <2>1. tmp \in Nodes /\ tmp # None /\ data[tmp] = at[p].want
    BY <1>1, <1>5 DEF Rename, StepOK
  <2>2. at[p].after \in {"note", "unback", "clean", "unnote"} /\ at[p].after \in Steps
    BY <1>1 DEF Local, Steps
  <2>3. /\ Go(p, at[p].after) /\ settings' = tmp /\ data' = data
        /\ UNCHANGED <<backup, noted, mine, may>>
    BY <1>5, <2>1 DEF Rename, user
  <2>4. at'[p].pc = at[p].after /\ at'[p].url = at[p].url BY <1>1, <2>2, <2>3, GoIs
  <2>5. settings' # None /\ Now' = at[p].want BY <2>1, <2>3 DEF Now
  <2>6. CASE at[p].after = "note"
    <3>1. Connecting(p) /\ ~Left(p) /\ ~Leaving(p) BY <1>5, <2>6 DEF Rename, Connecting, Left, Leaving, Writing
    <3>2. IsDirect /\ Both(at[p].want) BY <1>1, <3>1 DEF StepOK, UrlsStep
    <3>3. ~Routed BY <3>2 DEF Routed, IsDirect, Now
    <3>4. /\ (Failing \/ Editing) /\ backup = None => settings = None
          /\ Failing \/ Removing => at[p].url = mine.env
      BY <1>1, <1>5, <3>1 DEF UrlsStep, Rename, Writing
    <3>5. Removing => noted = None BY <3>1, <3>3 DEF UrlsOK, NoteWhile
    <3>6. Failing \/ Removing => Points(at[p].want) BY <3>2 DEF Both, Points
    <3>7. Editing => Removing BY DEF Editing, Removing
    <3>8. /\ Failing' = Failing /\ Editing' = Editing /\ Removing' = Removing
          /\ NoUrls' = NoUrls
          /\ \A doc \in {at[p].want, backup} : Mine(doc)' = Mine(doc) /\ Both(doc)' = Both(doc)
      BY <2>3 DEF Failing, Editing, Removing, NoUrls, Mine, Both, UrlsOf
    <3>9. Routed' = Points(at[p].want) BY <2>5 DEF Routed, Points
    <3>10. ~Points(at[p].want) => Mine(at[p].want) BY <3>6, <3>7 DEF Mine
    <3>11. Mine(backup)' = Mine(backup) /\ Both(Now)' = Both(at[p].want) /\ Mine(Now)' = Mine(at[p].want)
      BY <2>3, <2>5 DEF Failing, Editing, Removing, Mine, Both, UrlsOf
    <3>12. SavedOK'
      <4>1. settings' = None => NoUrls' BY <2>5
      <4>2. Points(Now)' = Points(at[p].want) BY <2>5 DEF Points
      <4>3. settings' # None => IF Points(Now)' THEN Both(Now)' ELSE Mine(Now)'
        BY <3>2, <3>10, <3>11, <4>2
      <4>4. backup' \in Doc => Mine(backup)' BY <1>1, <2>3, <3>11 DEF SavedOK
      <4>5. Failing' => noted' \in {None, Blank, mine'.env} /\ (mine'.env = None => noted' = None)
        BY <1>1, <2>3, <3>8 DEF SavedOK
      <4>6. (Failing' \/ Editing') /\ Routed' /\ backup' = None => NoUrls'
        BY <1>1, <2>3, <3>4, <3>8 DEF SavedOK
      <4> QED BY <4>1, <4>3, <4>4, <4>5, <4>6 DEF SavedOK
    <3>13. UrlsStep(p)'
      BY <2>3, <2>4, <2>6, <3>4, <3>5, <3>6, <3>8, <3>9
         DEF UrlsStep, Connecting, Noting, Parting, Leaving, Writing
    <3>14. Noting(p)' BY <2>4, <2>6 DEF Noting
    <3> QED BY <3>6, <3>8, <3>9, <3>12, <3>13, <3>14 DEF UrlsOK, BackupWhile, NoteWhile, NoteIs
  <2>7. CASE at[p].after # "note"
    <3>1. Leaving(p) /\ at[p].after \in {"unback", "clean", "unnote"}
      BY <1>5, <2>2, <2>7 DEF Rename, Leaving, Writing
    <3>2. ~Points(at[p].want) /\ Mine(at[p].want) BY <1>1, <3>1 DEF StepOK, UrlsStep
    <3>3. Removing => (at[p].after = "unback" <=> backup # None) BY <1>1, <3>1 DEF UrlsStep
    <3>4. /\ Failing' = Failing /\ Editing' = Editing /\ Removing' = Removing /\ NoUrls' = NoUrls
          /\ Mine(backup)' = Mine(backup) /\ Mine(Now)' = Mine(at[p].want)
      BY <2>3, <2>5 DEF Failing, Editing, Removing, NoUrls, Mine, UrlsOf
    <3>5. Points(Now)' = Points(at[p].want) /\ ~Routed' BY <2>5, <3>2 DEF Routed, Points
    <3>6. SavedOK'
      BY <1>1, <2>3, <2>5, <3>2, <3>4, <3>5 DEF SavedOK
    <3>7. UrlsStep(p)'
      BY <2>3, <2>4, <3>1, <3>3, <3>4
         DEF UrlsStep, Connecting, Noting, Parting, Leaving, Writing
    <3>8. Left(p)' /\ (at[p].after = "unback" => Holding(p)') BY <2>4, <3>1 DEF Left, Holding
    <3> QED BY <2>3, <3>3, <3>4, <3>5, <3>6, <3>7, <3>8 DEF UrlsOK, BackupWhile, NoteWhile, NoteIs
  <2> QED BY <2>6, <2>7
<1> QED BY <1>3, <1>4, <1>5 DEF Write

LEMMA FaultUrls ==
  ASSUME SoleInv, NEW p \in Commands, UrlsOK(p), Fault(p) PROVE UrlsOK(p)'
<1> USE DEF At
<1>1. /\ TypeInv /\ TypeOK /\ FilesOK /\ StepOK(p) /\ LocalOK(p) /\ at[p] \in Local
      /\ settings \in Nodes \cup {None} /\ tmp \in Nodes \cup {None}
      /\ data \in [Nodes -> Doc \cup {Torn}]
      /\ SavedOK
  BY DEF SoleInv, TypeInv, TypeOK, UrlsOK
<1>2. "failed" \in Outcomes /\ "connected" \in Outcomes BY DEF Outcomes
<1>3. UNCHANGED <<settings, backup, noted, mine, may>>
  BY DEF Fault, IoFails, NoteFails, WriteFails, Crash, files, user
<1>4. ~Removing BY DEF Fault, IoFails, NoteFails, WriteFails, Crash, Removing
<1>5. settings # None => Now' = Now
  <2>1. CASE IoFails(p) \/ NoteFails(p) \/ Crash(p)
    BY <2>1 DEF IoFails, NoteFails, Crash, files, Now
  <2>2. CASE WriteFails(p)
    <3>1. at[p].fd = tmp /\ tmp \in Nodes /\ tmp # settings
      BY <1>1, <2>2, ConnectAssumption DEF WriteFails, StepOK, LocalOK, FilesOK
    <3>2. data' = [data EXCEPT ![tmp] = Torn] /\ settings' = settings
      BY <2>2, <3>1 DEF WriteFails
    <3> QED BY <1>1, <3>1, <3>2 DEF Now
  <2> QED BY <2>1, <2>2 DEF Fault
<1>6. at'[p].pc \in {"done", "dead"}
  <2>1. CASE \E o \in {"failed", "connected"} : End(p, o) BY <1>1, <1>2, <2>1, EndIs
  <2>2. CASE Crash(p) BY <1>1, <2>2, CrashIs
  <2> QED BY <2>1, <2>2 DEF Fault, IoFails, NoteFails, WriteFails
<1>7. SavedOK' BY <1>1, <1>3, <1>5, SavedStays
<1> QED BY <1>3, <1>4, <1>6, <1>7, EndsUrls
        DEF UrlsOK, BackupWhile, NoteWhile, NoteIs, Removing

LEMMA BeginUrls ==
  ASSUME SoleInv, NEW p \in Commands, UrlsOK(p), Begin(p) PROVE UrlsOK(p)'
<1>1. TypeOK /\ UrlsStep(p) BY DEF SoleInv, TypeInv, UrlsOK
<1>2. Stays BY DEF Begin, Stays
<1>3. at[p].pc = "idle" /\ at[p].url = None BY <1>1 DEF Begin, At, UrlsStep
<1>4. at'[p].pc \in {"look", "leave"} /\ at'[p].url = None BY <1>1, <1>3, BeginIs
<1>5. UrlsStep(p)' BY <1>4 DEF UrlsStep, Connecting, Noting, Parting, Leaving, Writing
<1>6. ~Holding(p) /\ ~Left(p) /\ ~Leaving(p) /\ ~Noting(p)
  BY <1>3 DEF Holding, Left, Leaving, Noting, Writing
<1> QED BY <1>2, <1>5, <1>6, UrlsStay

\* So do the user's edits.
LEMMA UserUrls == ASSUME SoleInv, UrlsInv, User PROVE UrlsInv'
<1>1. /\ TypeInv /\ TypeOK /\ FilesOK /\ SavedOK
      /\ data \in [Nodes -> Doc \cup {Torn}]
  BY DEF SoleInv, TypeInv, TypeOK, UrlsInv
<1>2. at' = at /\ noted' = noted /\ settings' = settings /\ may' = may
  BY DEF User, EditOther, EditUrls, RemoveBackup, Edited, files, user
<1>3. Failing' = Failing /\ Editing' = Editing /\ Removing' = Removing
  BY <1>2 DEF Failing, Editing, Removing
<1>4. ASSUME Quiet, NEW p \in Commands
      PROVE  /\ ~Holding(p) /\ ~Left(p) /\ ~Leaving(p) /\ ~Noting(p)
             /\ UrlsStep(p)'
  <2>1. at'[p] = at[p] /\ at[p].pc \in {"done", "dead", "idle"} BY <1>2, <1>4 DEF Quiet, Running, Ended
  <2>2. UrlsStep(p) BY DEF UrlsInv
  <2> QED BY <2>1, <2>2 DEF UrlsStep, Connecting, Noting, Parting, Leaving, Left, Holding, Writing
<1>5. CASE EditOther
  <2>1. settings \in Nodes /\ Now \in Doc BY <1>1, <1>5 DEF EditOther, Edited, TypeOK, Now
  <2>2. PICK other \in Others : Edited([Now EXCEPT !.other = other])
    BY <1>5 DEF EditOther, Now
  <2> DEFINE doc == [Now EXCEPT !.other = other]
  <2>3. doc \in Doc /\ doc.base = Now.base /\ doc.env = Now.env BY <2>1 DEF Doc
  <2> HIDE DEF doc
  <2>4. Now' = doc /\ backup' = backup /\ mine' = mine
    BY <1>1, <1>5, <2>2, <2>3, EditedIs DEF doc, EditOther
  <2>5. Points(Now)' = Points(Now) /\ UrlsOf(Now)' = UrlsOf(Now) BY <2>3, <2>4 DEF Points, UrlsOf
  <2>6. /\ Mine(Now)' = Mine(Now) /\ Both(Now)' = Both(Now) /\ Mine(backup)' = Mine(backup)
        /\ NoUrls' = NoUrls /\ Routed' = Routed
    <3>1. Mine(Now)' = Mine(Now) BY <1>3, <2>4, <2>5 DEF Mine
    <3>2. Both(Now)' = Both(Now) BY <1>3, <2>3, <2>4 DEF Both
    <3>3. Mine(backup)' = Mine(backup) BY <1>3, <2>4 DEF Mine, UrlsOf
    <3>4. NoUrls' = NoUrls BY <1>3, <2>4 DEF NoUrls
    <3>5. Routed' = Routed BY <1>2, <2>5 DEF Routed
    <3> QED BY <3>1, <3>2, <3>3, <3>4, <3>5
  <2>7. SavedOK' BY <1>1, <1>2, <1>3, <2>4, <2>5, <2>6 DEF SavedOK
  <2>8. ASSUME NEW p \in Commands PROVE UrlsStep(p)'
    <3>1. UrlsStep(p) BY DEF UrlsInv
    <3> QED BY <1>2, <1>3, <2>4, <2>6, <3>1
            DEF UrlsStep, Connecting, Noting, Parting, Leaving, Both, Mine, UrlsOf
  <2> QED BY <1>2, <1>3, <2>4, <2>6, <2>7, <2>8
          DEF UrlsInv, BackupWhile, NoteWhile, NoteIs, Holding, Left, Leaving, Noting
<1>6. CASE EditUrls
  <2>1. settings \in Nodes /\ settings # None /\ Now \in Doc
    BY <1>1, <1>6 DEF EditUrls, Edited, TypeOK, Now
  <2>2. PICK base \in Urls \cup {None}, env \in Urls \cup {None} :
          /\ Edited([Now EXCEPT !.base = base, !.env = env])
          /\ mine' = [base |-> base, env |-> env]
    BY <1>6 DEF EditUrls, Now
  <2> DEFINE doc == [Now EXCEPT !.base = base, !.env = env]
  <2>3. doc \in Doc /\ doc.base = base /\ doc.env = env BY <2>1 DEF Doc
  <2> HIDE DEF doc
  <2>4. Now' = doc /\ backup' = backup BY <1>1, <2>2, <2>3, EditedIs DEF doc
  <2>5. {base, env} \cap {Toche, Bare} = {} BY ConnectAssumption
  <2>6. ~Points(Now)' /\ UrlsOf(Now)' = mine'
    BY <2>2, <2>3, <2>4, <2>5 DEF Points, UrlsOf
  <2>7. ~Routed' /\ Mine(Now)' BY <2>6 DEF Routed, Mine
  <2>8. Quiet BY <1>6 DEF EditUrls
  <2>9. ~Failing
    BY <1>6 DEF EditUrls, Failing, ConnectFaultKinds
  <2>10. Editing => Removing BY DEF Editing, Removing
  <2>11. Removing => backup = None /\ noted = None
    <3> SUFFICES ASSUME Removing PROVE backup = None /\ noted = None
      OBVIOUS
    <3>1. IsDirect BY <1>6 DEF EditUrls, Removing
    <3>2. ~Routed BY <3>1 DEF IsDirect, Routed, Now
    <3> QED BY <1>4, <2>8, <3>2 DEF UrlsInv, BackupWhile, NoteWhile
  <2>12. backup' \in Doc => Mine(backup)'
    BY <1>3, <2>4, <2>9, <2>10, <2>11, ConnectAssumption DEF Mine
  <2>13. SavedOK' BY <1>2, <1>3, <2>1, <2>6, <2>7, <2>9, <2>12 DEF SavedOK
  <2> QED BY <1>2, <1>3, <1>4, <2>4, <2>7, <2>8, <2>11, <2>13
          DEF UrlsInv, BackupWhile, NoteWhile, NoteIs
<1>7. CASE RemoveBackup
  <2>1. backup' = None /\ Quiet /\ UNCHANGED <<data, mine>> /\ "backup" \in may
    BY <1>7 DEF RemoveBackup, files, user
  <2>2. ~Failing /\ ~Editing BY <2>1 DEF Failing, Editing, ConnectFaultKinds
  <2>3. Now' = Now BY <1>2, <2>1 DEF Now
  <2>4. Routed' = Routed BY <1>2, <2>3 DEF Routed, Points
  <2>5. SavedOK'
    BY <1>1, <1>2, <1>3, <2>1, <2>2, <2>3, ConnectAssumption DEF SavedOK, NoUrls, Both, Mine, UrlsOf, Points
  <2>6. \A p \in Commands : UrlsStep(p)' /\ ~Noting(p)' /\ ~Noting(p) /\ ~Left(p) /\ ~Leaving(p)
    BY <1>2, <1>4, <2>1 DEF Noting
  <2> QED BY <1>2, <1>3, <2>1, <2>4, <2>5, <2>6
          DEF UrlsInv, BackupWhile, NoteWhile, NoteIs
<1> QED BY <1>5, <1>6, <1>7 DEF User

\* The URLs are the user's at the start, ...
LEMMA InitUrls == Init => UrlsInv
<1> SUFFICES ASSUME Init PROVE UrlsInv
  OBVIOUS
<1>1. \A p \in Commands : at[p].pc = "idle" /\ at[p].url = None BY DEF Init, Fresh
<1>2. \A p \in Commands : UrlsStep(p)
  BY <1>1 DEF UrlsStep, Connecting, Noting, Parting, Leaving, Writing
<1>3. backup = None /\ noted = None BY DEF Init
<1>4. ~Routed /\ SavedOK
  <2>1. CASE settings = None /\ mine = [base |-> None, env |-> None]
    BY <1>3, <2>1, ConnectAssumption DEF SavedOK, NoUrls, Routed
  <2>2. ASSUME NEW n \in Nodes, NEW doc \in Doc,
               {Toche, Blank} \cap {doc.base, doc.env} = {},
               settings = n, data = [x \in Nodes |-> IF x = n THEN doc ELSE Torn],
               mine = UrlsOf(doc)
        PROVE  ~Routed /\ SavedOK
    <3>1. Now = doc /\ settings # None BY <2>2, ConnectAssumption DEF Now
    <3>2. ~Points(Now) /\ Mine(Now) BY <2>2, <3>1 DEF Points, Mine
    <3> QED BY <1>3, <3>1, <3>2, ConnectAssumption DEF SavedOK, Routed
  <2> QED BY <2>1, <2>2 DEF Init
<1> QED BY <1>1, <1>2, <1>3, <1>4 DEF UrlsInv, BackupWhile, NoteWhile, NoteIs

\* ... and stay so in every step.
LEMMA NextUrls ==
  ASSUME AtOnce = 1, SoleInv, UrlsInv, [Next]_vars PROVE UrlsInv'
<1>1. CASE UNCHANGED vars
  BY <1>1 DEF vars, UrlsInv, SavedOK, BackupWhile, NoteWhile, NoteIs, UrlsStep, Connecting, Noting,
              Parting, Leaving, Left, Holding, Routed, NoUrls, Both, Mine, Failing, Editing,
              Removing, UrlsOf, Points, Now
<1>2. ASSUME NEW p \in Commands, Begin(p) PROVE UrlsInv'
  <2>1. \A q \in Commands : ~Running(q) BY <1>2, BeginsAlone
  <2>2. Only(p) BY <1>2, BeginIs DEF SoleInv, TypeInv
  <2>3. UrlsOK(p)' BY <1>2, <2>1, UrlsOfOne, BeginUrls
  <2> QED BY <2>1, <2>2, <2>3, UrlsOfAll
<1>3. ASSUME NEW p \in Commands, Connect(p) \/ Disconnect(p) \/ Write(p) \/ Fault(p)
      PROVE  UrlsInv'
  <2>1. Running(p) BY <1>3, StepsRun
  <2>2. \A q \in Commands : q # p => ~Running(q) BY <2>1 DEF SoleInv, Alone
  <2>3. Only(p) BY <1>3, ConnectSound, DisconnectSound, WriteSound, FaultSound DEF Sound
  <2>4. UrlsOK(p)
    BY <2>2, UrlsOfOne
  <2>5. UrlsOK(p)' BY <1>3, <2>4, ConnectUrls, DisconnectUrls, WriteUrls, FaultUrls
  <2> QED BY <2>2, <2>3, <2>5, UrlsOfAll
<1> QED BY <1>1, <1>2, <1>3, UserUrls DEF Next

\* While commands do not overlap, settings that do not route through Toche hold
\* the URLs that the user chose last.
THEOREM UrlsStayMine == AtOnce = 1 => (Spec => []UrlsAreMine)
<1> SUFFICES ASSUME AtOnce = 1 PROVE Spec => []UrlsAreMine
  OBVIOUS
<1>1. Init => SoleInv /\ UrlsInv BY InitSole, InitUrls
<1>2. SoleInv /\ UrlsInv /\ [Next]_vars => (SoleInv /\ UrlsInv)' BY NextSole, NextUrls
<1>3. SoleInv /\ UrlsInv => UrlsAreMine
  <2> SUFFICES ASSUME SoleInv, UrlsInv, settings # None, IsDirect PROVE UrlsAreMine
    BY DEF UrlsAreMine
  <2>1. Mine(Now) BY DEF UrlsInv, SavedOK, IsDirect, Now
  <2> QED BY <2>1 DEF UrlsAreMine, Mine, Failing, Editing, Removing
<1> QED BY <1>1, <1>2, <1>3, PTL DEF Spec
=============================================================================
