----------------------------- MODULE SafeCache ------------------------------
(***************************************************************************)
(* The persistent safe cache: the table safe_cache, the registries         *)
(* cas_known and cas_cache_refs, and the content-addressed blob directory  *)
(* they describe (safe_cache/cache_db.rs, reduce/storage.rs), as the       *)
(* gateway handlers, the reducer and the command line use them.            *)
(*                                                                         *)
(* Every SQL statement is a transaction of its own, every file system call *)
(* a step of its own, and nothing locks the two together: the handlers of  *)
(* the gateway process and the commands run by other processes interleave  *)
(* between any two of them.  Only what decides about rows, registries and  *)
(* blobs is kept: hit counts, the table cache_rejects and the ledger's     *)
(* retention change nothing here.                                          *)
(***************************************************************************)
EXTENDS Naturals, FiniteSets

CONSTANTS
  Workers,      \* handlers that may be under way at the same time
  Slots,        \* (project, request fingerprint): the key of safe_cache
  Outputs,      \* SHA-256 digests of raw tool outputs
  Answers,      \* SHA-256 digests of responses; the two may overlap
  Workspaces,   \* workspace fingerprints
  Edits,        \* pairs of them: how an edit may change the fingerprint
  Domains,      \* trust domains
  MaxEntries,   \* storage.max_entries, or NoLimit
  MaxPermits,   \* runtime.max_concurrent_upstream
  Scenarios,    \* what may happen: one of these sets of CacheEventKinds
  NoLimit, NoRow, NoHash

CacheEventKinds ==
  { "crash",            \* the gateway process dies between two steps
    "write_error",      \* a file is created, then writing it fails
    "db_error",         \* a statement fails (SQLITE_BUSY, disk full)
    "online_cleanup",   \* toche cleanup runs while responses are stored
    "expire",           \* ttl_days pass
    "edit" }            \* a watched project file changes

ASSUME CacheAssumption ==
  /\ IsFiniteSet(Workers) /\ IsFiniteSet(Slots)
  /\ Slots # {} /\ Domains # {} /\ Workspaces # {}
  /\ MaxEntries \in (Nat \ {0}) \cup {NoLimit}
  /\ NoLimit \notin Nat
  /\ MaxPermits \in Nat \ {0}
  /\ Scenarios \subseteq SUBSET CacheEventKinds
  /\ Edits \subseteq Workspaces \X Workspaces
  /\ NoHash \notin Outputs \cup Answers

Hashes == Outputs \cup Answers

VARIABLES
  rows,         \* rows[s]: the row of safe_cache with key s
  known,        \* cas_known
  refs,         \* cas_cache_refs
  blobs,        \* blobs[h]: the file of h, "torn" while it is not complete
  workspace,    \* the fingerprint compute_workspace_fingerprint() would give
  job,          \* job[w]: the handler w
  attached,     \* the writers whose open file is still the one in the directory
  cleaner,      \* where the run of `toche cleanup --orphans' is
  candidates,   \* what that run still takes for deletable
  may,          \* what may happen in this behaviour
  raw,          \* history: hashes the reducer has stored completely
  legacy        \* history: reduction blobs older than the registries

vars == <<rows, known, refs, blobs, workspace, job, attached, cleaner,
          candidates, may, raw, legacy>>

Row == [hash : Answers, ws : Workspaces, old : BOOLEAN, domain : Domains]

\* Where a handler is, after the next thing it does.
Steps ==
  {"idle", "evict", "select", "read", "hit",
   "reduce", "write_raw", "register_raw",
   "permit", "upstream", "evict_again", "count", "exists",
   "create", "write_new", "stamp", "known", "register", "ref", "row", "undo"}

\* Creating the blob and writing the row.
StoreSteps == {"write_new", "stamp", "known", "register", "ref", "row", "undo"}

\* The permit is held from the upstream call to the end of the cache write.
PermitSteps ==
  {"upstream", "evict_again", "count", "exists", "create"} \cup StoreSteps

Job == [pc : Steps, slot : Slots, domain : Domains, seen : Workspaces,
        stamp : Workspaces, hash : Hashes \cup {NoHash}, made : BOOLEAN,
        fresh : BOOLEAN, bytes : {"none", "torn", "whole"}]

Occupied == {s \in Slots : rows[s] # NoRow}
RowHashes == {rows[s].hash : s \in Occupied}

\* One type invariant: what each variable may hold.
TypeOK ==
  /\ rows \in [Slots -> Row \cup {NoRow}]
  /\ known \subseteq Hashes
  /\ refs \subseteq Hashes
  /\ blobs \in [Hashes -> {"none", "torn", "whole"}]
  /\ workspace \in Workspaces
  /\ job \in [Workers -> Job]
  /\ attached \subseteq Workers
  /\ cleaner \in {"idle", "rows", "refs", "list", "delete"}
  /\ candidates \subseteq Hashes
  /\ may \in Scenarios
  /\ raw \subseteq Hashes
  /\ legacy \subseteq Hashes

Idle == [pc |-> "idle", slot |-> CHOOSE s \in Slots : TRUE,
         domain |-> CHOOSE d \in Domains : TRUE,
         seen |-> CHOOSE v \in Workspaces : TRUE,
         stamp |-> CHOOSE v \in Workspaces : TRUE, hash |-> NoHash,
         made |-> FALSE, fresh |-> FALSE, bytes |-> "none"]

\* A database and a blob directory written before the registries existed:
\* rows whose blobs are there, and reduction blobs no table mentions.  Expired
\* rows and rows of another workspace are there where time passes and where
\* files are edited.
Init ==
  /\ may \in Scenarios
  /\ rows \in [Slots -> Row \cup {NoRow}]
  /\ MaxEntries # NoLimit => Cardinality(Occupied) <= MaxEntries
  /\ legacy \in SUBSET (Outputs \ RowHashes)
  /\ known = {} /\ refs = {}
  /\ blobs = [h \in Hashes |-> IF h \in RowHashes \cup legacy THEN "whole" ELSE "none"]
  /\ workspace = CHOOSE v \in Workspaces : TRUE
  /\ \A s \in Occupied : /\ rows[s].old => "expire" \in may
                         /\ rows[s].ws # workspace => "edit" \in may
  /\ job = [w \in Workers |-> Idle]
  /\ attached = {}
  /\ cleaner = "idle" /\ candidates = {}
  /\ raw = legacy

-----------------------------------------------------------------------------
dbVars == <<rows, known, refs>>
fileVars == <<blobs, attached>>
cleanVars == <<cleaner, candidates>>
histVars == <<may, raw, legacy>>
rest == <<workspace, cleanVars, histVars>>

\* What CacheDb::open adds to cas_known.
Backfilled == known \cup RowHashes

Become(w, j) == job' = [job EXCEPT ![w] = j]

Goto(w, from, to) ==
  /\ job[w].pc = from
  /\ Become(w, [job[w] EXCEPT !.pc = to])

Finish(w, from) == job[w].pc = from /\ Become(w, Idle)

\* evict_expired: one DELETE.
Unexpired == [s \in Slots |->
                IF rows[s] # NoRow /\ rows[s].old THEN NoRow ELSE rows[s]]

\* fs::write and File::write_all by w: complete when no other writer of the
\* same file is still at it, and without effect on the directory when the
\* file w has open was removed from it.
WriteAll(w) ==
  LET h == job[w].hash
      others == {v \in attached \ {w} : job[v].hash = h}
  IN /\ IF w \notin attached THEN blobs' = blobs
        ELSE \E b \in IF others = {} THEN {"whole"} ELSE {"torn", "whole"} :
               blobs' = [blobs EXCEPT ![h] = b]
     /\ attached' = attached \ {w}

\* delete_at: the name goes, writers keep a file nobody can open any more.
DeleteAt(h) ==
  /\ blobs' = [blobs EXCEPT ![h] = "none"]
  /\ attached' = {w \in attached : job[w].hash # h}

-----------------------------------------------------------------------------
(* Lookup (routes.rs, step 1.5). *)

\* Take the workspace fingerprint, open the database.
Begin(w) ==
  /\ job[w].pc = "idle"
  /\ \E s \in Slots, d \in Domains :
       Become(w, [Idle EXCEPT !.pc = "evict", !.slot = s,
                              !.domain = d, !.seen = workspace])
  /\ known' = Backfilled
  /\ UNCHANGED <<rows, refs, fileVars, rest>>

BeginWithoutDb(w) ==
  /\ "db_error" \in may
  /\ job[w].pc = "idle"
  /\ \E s \in Slots, d \in Domains :
       Become(w, [Idle EXCEPT !.pc = "reduce", !.slot = s,
                              !.domain = d, !.seen = workspace])
  /\ UNCHANGED <<dbVars, fileVars, rest>>

Evict(w) ==
  /\ Goto(w, "evict", "select")
  /\ rows' = Unexpired
  /\ UNCHANGED <<known, refs, fileVars, rest>>

EvictFails(w) ==
  /\ "db_error" \in may
  /\ Goto(w, "evict", "select")
  /\ UNCHANGED <<dbVars, fileVars, rest>>

\* There is a row, of the workspace the request was made in.
Matches(w) ==
  rows[job[w].slot] # NoRow /\ rows[job[w].slot].ws = job[w].seen

\* No row, or one of another workspace (which counts as a rejection).
SelectMisses(w) ==
  /\ Goto(w, "select", "reduce")
  /\ Matches(w) => "db_error" \in may
  /\ UNCHANGED <<dbVars, fileVars, rest>>

SelectFinds(w) ==
  /\ job[w].pc = "select"
  /\ Matches(w)
  /\ Become(w, [job[w] EXCEPT !.pc = "read", !.hash = rows[job[w].slot].hash])
  /\ UNCHANGED <<dbVars, fileVars, rest>>

BlobMissing(w) ==
  /\ job[w].pc = "read"
  /\ blobs[job[w].hash] = "none"
  /\ Become(w, [job[w] EXCEPT !.pc = "reduce", !.hash = NoHash])
  /\ UNCHANGED <<dbVars, fileVars, rest>>

\* retrieve_at returns whatever the file holds at this moment.
Replay(w) ==
  /\ job[w].pc = "read"
  /\ blobs[job[w].hash] # "none"
  /\ Become(w, [job[w] EXCEPT !.pc = "hit", !.bytes = blobs[job[w].hash]])
  /\ UNCHANGED <<dbVars, fileVars, rest>>

Replied(w) ==
  /\ Finish(w, "hit")
  /\ UNCHANGED <<dbVars, fileVars, rest>>

-----------------------------------------------------------------------------
(* A miss: the reducer keeps the raw tool output (store_at), the handler   *)
(* registers it, and the request goes upstream under a permit.             *)

NothingToReduce(w) ==
  /\ Goto(w, "reduce", "permit")
  /\ UNCHANGED <<dbVars, fileVars, rest>>

\* fs::write creates the file or truncates the one that is there.
StoreRaw(w) ==
  /\ job[w].pc = "reduce"
  /\ \E h \in Outputs :
       /\ Become(w, [job[w] EXCEPT !.pc = "write_raw", !.hash = h])
       /\ blobs' = [blobs EXCEPT ![h] = "torn"]
  /\ attached' = attached \cup {w}
  /\ UNCHANGED <<dbVars, rest>>

WriteRaw(w) ==
  /\ Goto(w, "write_raw", "register_raw")
  /\ WriteAll(w)
  /\ raw' = raw \cup {job[w].hash}
  /\ UNCHANGED <<dbVars, workspace, cleanVars, may, legacy>>

\* The request is forwarded unreduced, and no hash is registered.
WriteRawFails(w) ==
  /\ "write_error" \in may
  /\ Goto(w, "write_raw", "permit")
  /\ attached' = attached \ {w}
  /\ UNCHANGED <<dbVars, blobs, rest>>

RegisterRaw(w) ==
  /\ Goto(w, "register_raw", "permit")
  /\ known' = Backfilled \cup {job[w].hash}
  /\ UNCHANGED <<rows, refs, fileVars, rest>>

RegisterRawFails(w) ==
  /\ "db_error" \in may
  /\ Goto(w, "register_raw", "permit")
  /\ UNCHANGED <<dbVars, fileVars, rest>>

UnderPermit ==
  {w \in Workers : job[w].pc \in PermitSteps}

AcquirePermit(w) ==
  /\ Goto(w, "permit", "upstream")
  /\ Cardinality(UnderPermit) < MaxPermits
  /\ UNCHANGED <<dbVars, fileVars, rest>>

NoPermit(w) ==
  /\ Finish(w, "permit")
  /\ UNCHANGED <<dbVars, fileVars, rest>>

\* An upstream error, a status outside 2xx, or a body that inspect_response
\* does not find safe: nothing is stored.
NotStorable(w) ==
  /\ Finish(w, "upstream")
  /\ UNCHANGED <<dbVars, fileVars, rest>>

Storable(w) ==
  /\ job[w].pc = "upstream"
  /\ \E h \in Answers :
       Become(w, [job[w] EXCEPT !.pc = "evict_again", !.hash = h])
  /\ UNCHANGED <<dbVars, fileVars, rest>>

-----------------------------------------------------------------------------
(* The storage limits. *)

EvictAgain(w) ==
  /\ Goto(w, "evict_again", "count")
  /\ known' = Backfilled
  /\ \E kept \in {Unexpired} \cup IF "db_error" \in may THEN {rows} ELSE {} :
       rows' = kept
  /\ UNCHANGED <<refs, fileVars, rest>>

\* Without a database the limits count as exceeded when there are any.
LimitsUnreadable(w) ==
  /\ "db_error" \in may
  /\ IF MaxEntries = NoLimit THEN Goto(w, "evict_again", "create")
                             ELSE Finish(w, "evict_again")
  /\ UNCHANGED <<dbVars, fileVars, rest>>

\* Mutant of Full: off by one.
FullOffByOne == MaxEntries # NoLimit /\ Cardinality(Occupied) > MaxEntries

Full == MaxEntries # NoLimit /\ Cardinality(Occupied) >= MaxEntries

CountEntries(w) ==
  /\ Goto(w, "count", IF Full THEN "exists" ELSE "create")
  /\ UNCHANGED <<dbVars, fileVars, rest>>

ReplaceExisting(w) ==
  /\ Goto(w, "exists", "create")
  /\ rows[job[w].slot] # NoRow
  /\ UNCHANGED <<dbVars, fileVars, rest>>

\* max_entries reached, max_cas_bytes or min_free_disk_bytes not respected,
\* or one of them cannot be determined.
OverLimit(w) ==
  /\ \E from \in {"count", "exists"} : Finish(w, from)
  /\ UNCHANGED <<dbVars, fileVars, rest>>

-----------------------------------------------------------------------------
(* Storing the response: the blob (store_new_at), then the row (insert).   *)

\* From the creation of the blob to the row, what a cleanup must not overlap
\* unless this instance lets it.
Storing == {w \in Workers : job[w].pc \in StoreSteps}

MayStore == "online_cleanup" \in may \/ cleaner = "idle"

CreateNew(w) ==
  /\ MayStore
  /\ job[w].pc = "create"
  /\ blobs[job[w].hash] = "none"
  /\ Become(w, [job[w] EXCEPT !.pc = "write_new", !.made = TRUE])
  /\ blobs' = [blobs EXCEPT ![job[w].hash] = "torn"]
  /\ attached' = attached \cup {w}
  /\ UNCHANGED <<dbVars, rest>>

\* Mutant of KeepExisting: a file that is there already counts as created.
KeepExistingAsMade(w) ==
  /\ MayStore
  /\ job[w].pc = "create"
  /\ Become(w, [job[w] EXCEPT !.pc = "stamp", !.made = TRUE])
  /\ blobs[job[w].hash] # "none"
  /\ UNCHANGED <<dbVars, fileVars, rest>>

\* AlreadyExists: whatever is there is taken for the content.
KeepExisting(w) ==
  /\ MayStore
  /\ Goto(w, "create", "stamp")
  /\ blobs[job[w].hash] # "none"
  /\ UNCHANGED <<dbVars, fileVars, rest>>

CreateFails(w) ==
  /\ "write_error" \in may
  /\ Finish(w, "create")
  /\ UNCHANGED <<dbVars, fileVars, rest>>

\* Mutant of WriteNew: leave the content to be written after the row.
WriteNewLater(w) ==
  /\ Goto(w, "write_new", "stamp")
  /\ attached' = attached \ {w}
  /\ UNCHANGED <<dbVars, blobs, rest>>

WriteNew(w) ==
  /\ Goto(w, "write_new", "stamp")
  /\ WriteAll(w)
  /\ UNCHANGED <<dbVars, rest>>

\* An Err carries no `created': the incomplete file stays.
WriteNewFails(w) ==
  /\ "write_error" \in may
  /\ Finish(w, "write_new")
  /\ attached' = attached \ {w}
  /\ UNCHANGED <<dbVars, blobs, rest>>

\* The workspace fingerprint of the new row is taken now.
Stamp(w) ==
  /\ job[w].pc = "stamp"
  /\ Become(w, [job[w] EXCEPT !.pc = "known", !.stamp = workspace])
  /\ known' = Backfilled
  /\ UNCHANGED <<rows, refs, fileVars, rest>>

\* insert(): four statements without a transaction.
SelectKnown(w) ==
  /\ job[w].pc = "known"
  /\ Become(w, [job[w] EXCEPT !.pc = "register", !.fresh = job[w].hash \notin known])
  /\ UNCHANGED <<dbVars, fileVars, rest>>

\* Mutant of RegisterHash: every hash the cache stores counts as its own.
RegisterAsOwn(w) ==
  /\ Goto(w, "register", "ref")
  /\ known' = known \cup {job[w].hash}
  /\ UNCHANGED <<rows, refs, fileVars, rest>>

RegisterHash(w) ==
  /\ Goto(w, "register", IF job[w].fresh THEN "ref" ELSE "row")
  /\ known' = known \cup {job[w].hash}
  /\ UNCHANGED <<rows, refs, fileVars, rest>>

AddRef(w) ==
  /\ Goto(w, "ref", "row")
  /\ refs' = refs \cup {job[w].hash}
  /\ UNCHANGED <<rows, known, fileVars, rest>>

PutRow(w) ==
  /\ Finish(w, "row")
  /\ rows' = [rows EXCEPT ![job[w].slot] =
                [hash |-> job[w].hash, ws |-> job[w].stamp, old |-> FALSE,
                 domain |-> job[w].domain]]
  /\ UNCHANGED <<known, refs, fileVars, rest>>

\* CacheDb::open or a statement of insert() fails.
InsertFails(w) ==
  /\ "db_error" \in may
  /\ \E from \in {"stamp", "known", "register", "ref", "row"} :
       IF job[w].made THEN Goto(w, from, "undo") ELSE Finish(w, from)
  /\ UNCHANGED <<dbVars, fileVars, rest>>

\* Delete the blob this handler created.
Undo(w) ==
  /\ Finish(w, "undo")
  /\ DeleteAt(job[w].hash)
  /\ UNCHANGED <<dbVars, rest>>

-----------------------------------------------------------------------------
(* Other processes: `toche cleanup --orphans', `toche cache clear', and    *)
(* every command that opens the database.                                  *)

\* Open the database and read cas_known.
ScanKnown ==
  /\ cleaner = "idle"
  /\ "online_cleanup" \in may \/ Storing = {}
  /\ cleaner' = "rows"
  /\ known' = Backfilled
  /\ candidates' = Backfilled
  /\ UNCHANGED <<rows, refs, fileVars, workspace, job, histVars>>

\* Mutant of ScanRows: take the rows for granted.
SkipRows ==
  /\ cleaner = "rows" /\ cleaner' = "refs"
  /\ UNCHANGED <<dbVars, fileVars, workspace, job, candidates, histVars>>

\* Hashes still referenced by safe_cache are skipped.
ScanRows ==
  /\ cleaner = "rows" /\ cleaner' = "refs"
  /\ candidates' = candidates \ RowHashes
  /\ UNCHANGED <<dbVars, fileVars, workspace, job, histVars>>

\* So are those no cache insert has introduced.
ScanRefs ==
  /\ cleaner = "refs" /\ cleaner' = "list"
  /\ candidates' = candidates \cap refs
  /\ UNCHANGED <<dbVars, fileVars, workspace, job, histVars>>

\* read_dir: what is left, of the files that are there, is safe_to_delete.
ListDirectory ==
  /\ cleaner = "list" /\ cleaner' = "delete"
  /\ candidates' = {h \in candidates : blobs[h] # "none"}
  /\ UNCHANGED <<dbVars, fileVars, workspace, job, histVars>>

DeleteOrphan ==
  /\ cleaner = "delete"
  /\ \E h \in candidates : DeleteAt(h) /\ candidates' = candidates \ {h}
  /\ UNCHANGED <<dbVars, workspace, job, cleaner, histVars>>

CleanupDone ==
  /\ cleaner = "delete" /\ candidates = {}
  /\ cleaner' = "idle"
  /\ UNCHANGED <<dbVars, fileVars, workspace, job, candidates, histVars>>

\* cache list, cache why, storage, status, cleanup --dry-run.
OpenElsewhere ==
  /\ known' = Backfilled
  /\ UNCHANGED <<rows, refs, fileVars, job, rest>>

\* cache clear: the rows of one project or all of them, the blobs stay.
Clear ==
  /\ \E S \in {Slots} \cup {{s} : s \in Slots} :
       rows' = [s \in Slots |-> IF s \in S THEN NoRow ELSE rows[s]]
  /\ known' = Backfilled
  /\ UNCHANGED <<refs, fileVars, job, rest>>

-----------------------------------------------------------------------------
(* The environment. *)

\* One of the watched project files changes.
EditProject ==
  /\ "edit" \in may
  /\ workspace' \in {v \in Workspaces : <<workspace, v>> \in Edits}
  /\ UNCHANGED <<dbVars, fileVars, job, cleanVars, histVars>>

\* ttl_days pass for the rows there are.
Expire ==
  /\ "expire" \in may
  /\ rows' = [s \in Slots |->
                IF rows[s] = NoRow THEN NoRow ELSE [rows[s] EXCEPT !.old = TRUE]]
  /\ UNCHANGED <<known, refs, fileVars, job, rest>>

\* The gateway is killed and started again: files and tables stay as they are.
Crash ==
  /\ "crash" \in may
  /\ job' = [w \in Workers |-> Idle]
  /\ attached' = {}
  /\ UNCHANGED <<dbVars, blobs, rest>>

-----------------------------------------------------------------------------
Lookup(w) ==
  \/ Begin(w) \/ BeginWithoutDb(w) \/ Evict(w) \/ EvictFails(w)
  \/ SelectMisses(w) \/ SelectFinds(w) \/ BlobMissing(w)
  \/ Replay(w) \/ Replied(w)

Forward(w) ==
  \/ NothingToReduce(w) \/ StoreRaw(w) \/ WriteRaw(w) \/ WriteRawFails(w)
  \/ RegisterRaw(w) \/ RegisterRawFails(w)
  \/ AcquirePermit(w) \/ NoPermit(w) \/ NotStorable(w) \/ Storable(w)

Store(w) ==
  \/ EvictAgain(w) \/ LimitsUnreadable(w) \/ CountEntries(w)
  \/ ReplaceExisting(w) \/ OverLimit(w)
  \/ CreateNew(w) \/ KeepExisting(w) \/ CreateFails(w)
  \/ WriteNew(w) \/ WriteNewFails(w) \/ Stamp(w)
  \/ SelectKnown(w) \/ RegisterHash(w) \/ AddRef(w) \/ PutRow(w)
  \/ InsertFails(w) \/ Undo(w)

Cleanup ==
  \/ ScanKnown \/ ScanRows \/ ScanRefs \/ ListDirectory
  \/ DeleteOrphan \/ CleanupDone

Next ==
  \/ \E w \in Workers : Lookup(w) \/ Forward(w) \/ Store(w)
  \/ Cleanup \/ OpenElsewhere \/ Clear
  \/ EditProject \/ Expire \/ Crash

Spec == Init /\ [][Next]_vars
-----------------------------------------------------------------------------
(***************************************************************************)
(* Safety.                                                                 *)
(***************************************************************************)

\* A hash that was registered before the cache stored it, and that no insert
\* under way takes for its own, belongs to the reducer.
ReductionOwned(h) ==
  /\ h \in known \ refs
  /\ ~ \E w \in Storing : job[w].hash = h /\ (job[w].made \/ job[w].fresh)

\* Once a blob belongs to the reducer it does so for ever, and is not deleted:
\* neither by a cleanup, whenever it scans, nor by the undo of an insert, nor
\* because the cache stores the same content and lets it expire.
ReductionKept ==
  [][\A h \in Hashes : ReductionOwned(h) /\ blobs[h] # "none" =>
       ReductionOwned(h)' /\ blobs'[h] # "none"]_vars

\* max_entries is checked long before the row is written; the permits bound
\* by how much concurrent inserts can overshoot it.
EntriesBounded ==
  MaxEntries # NoLimit => Cardinality(Occupied) <= MaxEntries - 1 + MaxPermits

Backed == \A h \in RowHashes : blobs[h] # "none"

\* No statement fails, and no cleanup overlaps the storing of a response.
Offline == may \cap {"online_cleanup", "db_error"} = {}

\* Then every row has its blob on disk, although blobs are written before their
\* row and deleted after it, and a crash or a failed write may come between.
RowsBacked == Offline => Backed

\* Where no process dies and no write fails, a file is incomplete only while the
\* handler that will complete it is at it: a failed insert, a deleted and
\* re-created blob, or two writers of the same content, with cleanups at any
\* time, leave no truncated blob behind.
TornIsBeingWritten ==
  may \cap {"crash", "write_error"} = {} =>
    \A h \in Hashes : blobs[h] = "torn" =>
      \E w \in attached : job[w].hash = h /\ job[w].pc \in {"write_raw", "write_new"}

\* The undo of a failed insert deletes the file that insert created: where no
\* cleanup overlaps, it is there as long as the insert may still fail, and was
\* created by no other insert, however deletions, kills and inserts of the same
\* content follow one another (routes.rs:735).
MadeByOne ==
  "online_cleanup" \notin may =>
    \A w \in Workers : job[w].made =>
      /\ blobs[job[w].hash] # "none"
      /\ \A v \in Workers \ {w} : job[v].made => job[v].hash # job[w].hash

-----------------------------------------------------------------------------
(***************************************************************************)
(* The inductive invariants behind them.                                   *)
(***************************************************************************)

\* What a handler knows at each step: the hash it reads or writes, whether it
\* created the file, whether the hash was new to cas_known.
JobOK(j) ==
  /\ j.pc \in {"read", "write_raw", "register_raw"} => j.hash \in Hashes
  /\ j.pc \in PermitSteps \ {"upstream"} => j.hash \in Answers
  /\ j.pc \notin StoreSteps => ~j.made
  /\ j.pc \notin {"register", "ref", "row", "undo"} => ~j.fresh
  /\ j.pc = "ref" => j.fresh
  /\ j.pc = "undo" => j.made

JobInv == \A w \in Workers : JobOK(job[w])

\* After its last scan a cleanup only has hashes the cache introduced.
CleanerInv == cleaner \in {"list", "delete"} => candidates \subseteq refs

\* The slots that have a row or are about to get one.
Claimed == Occupied \cup {job[w].slot : w \in {v \in Workers :
                            job[v].pc \in {"create"} \cup StoreSteps}}

\* An insert counts from the moment it has passed the check.
LimitInv ==
  /\ Cardinality(UnderPermit) <= MaxPermits
  /\ MaxEntries # NoLimit => Cardinality(Claimed) <= MaxEntries - 1 + MaxPermits

\* While a cleanup runs nothing is stored, so what it decides about a hash
\* stays right until it deletes the blob.
BackedInv ==
  /\ Backed
  /\ \A w \in Storing : blobs[job[w].hash] # "none" /\ job[w].pc # "undo"
  /\ cleaner # "idle" => Storing = {}
  /\ cleaner \in {"refs", "list", "delete"} => candidates \cap RowHashes = {}

-----------------------------------------------------------------------------
(***************************************************************************)
(* What the documentation says and the code does not do.                   *)
(***************************************************************************)

\* An entry is stored under the workspace its request was made in, so that it
\* is replayed only there (README.md:104).
StampedAsAsked == \A w \in Workers : job[w].pc = "row" => job[w].stamp = job[w].seen

\* Trust domains never share persistent entries (ARCHITECTURE.md:209).
ReplaySameDomain ==
  [][\A w \in Workers : job[w].pc = "select" /\ job'[w].pc = "read" =>
       rows[job[w].slot].domain = job[w].domain]_vars

\* A reader of a blob sees a complete file or none (M17-sonnet-verification:323).
ReplayWhole == \A w \in Workers : job[w].bytes # "torn"

\* Raw output can be recovered byte by byte (TOCHE_CONSOLIDATED_PLAN.md:271).
RawRecoverable == \A h \in raw : blobs[h] = "whole"

\* A known blob that the reducer stored too is no candidate for deletion
\* (cache_db.rs:976).
SharedIsNoCandidate ==
  cleaner = "delete" => candidates \cap (raw \ legacy) \cap known = {}

\* Reduction blobs older than the registries are not deleted (README.md:229).
LegacyKept == \A h \in legacy : blobs[h] # "none"

\* The undo of an insert spares a blob that a row or the reducer has come to use
\* since it was created (raw output can be recovered, TOCHE_CONSOLIDATED_PLAN.md:271).
UndoSparesOthers ==
  [][\A w \in Workers : Undo(w) => job[w].hash \notin RowHashes \cup raw]_vars

\* safe_to_delete: no row references the blob (cache_db.rs:447).
OrphansUnreferenced == cleaner = "delete" => candidates \cap RowHashes = {}
=============================================================================
