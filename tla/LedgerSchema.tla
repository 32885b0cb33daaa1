---------------------------- MODULE LedgerSchema ----------------------------
(***************************************************************************)
(* Opening the ledger (meter/db.rs): every request of the gateway, every   *)
(* GET /status and every `toche stats' opens ledger.db and brings its      *)
(* schema to version 11, statement by statement.                           *)
(*                                                                         *)
(* The version is read once.  Each statement is a transaction of its own,  *)
(* the connections of one or several processes interleave between them,    *)
(* and ALTER TABLE ... ADD COLUMN fails when the column is there.          *)
(***************************************************************************)
EXTENDS Naturals, FiniteSets

CONSTANTS
  Openers,      \* connections that may be under way at the same time
  Faults,       \* what may go wrong in this instance, see SchemaFaultKinds
  MaxFaults     \* how often

SchemaFaultKinds ==
  { "crash",    \* the process ends between two statements
    "busy" }    \* a statement fails (busy_timeout passed, disk full)

ASSUME SchemaAssumption ==
  /\ Faults \subseteq SchemaFaultKinds
  /\ MaxFaults \in Nat

Expected == 11

\* The versions the code brings a ledger to; 8 and 9 were other tables.
Versions == (1 .. 7) \cup {10, 11}

\* The statements of version v before its number is inserted: version 1
\* creates the table, version 10 adds seven columns, all others one.
Added(v) == IF v = 10 THEN 7 ELSE 1
Columns(v) == {<<v, k>> : k \in 1 .. Added(v)}
AllColumns == UNION {Columns(v) : v \in Versions}

VARIABLES
  marked,       \* the numbers in schema_version
  columns,      \* the table and the columns of ledger
  at,           \* at[o]: how far the open of connection o is
  faults        \* faults so far

vars == <<marked, columns, at, faults>>

Place == [pc : {"closed", "read", "apply", "mark", "index", "open"},
          v : Versions \cup {0}, k : 0 .. 7]

Closed == [pc |-> "closed", v |-> 0, k |-> 0]

\* One type invariant: what each variable may hold.
TypeOK ==
  /\ marked \subseteq 1 .. Expected + 1
  /\ columns \subseteq AllColumns
  /\ at \in [Openers -> Place]
  /\ \A o \in Openers : at[o].pc \in {"apply", "mark"} =>
       /\ at[o].v \in Versions
       /\ at[o].k \in 1 .. Added(at[o].v)
  /\ faults \in 0 .. MaxFaults

\* No database, or one of an earlier, this, or a later release.
Init ==
  /\ \E u \in 0 .. Expected + 1 :
       /\ marked = 1 .. u
       /\ columns = UNION {Columns(v) : v \in {x \in Versions : x <= u}}
  /\ at = [o \in Openers |-> Closed]
  /\ faults = 0

-----------------------------------------------------------------------------
Move(o, place) == at' = [at EXCEPT ![o] = place]

Current == {u \in marked \cup {0} : \A x \in marked : x <= u}

\* Mutant of Pending: the comparison takes the current version again.
PendingAgain(u) == {v \in Versions : v >= u}

\* Mutant of Pending: one version too many counts as applied.
PendingSkips(u) == {v \in Versions : v > u + 1}

Pending(u) == {v \in Versions : v > u}

\* Where an open continues when the versions up to u are there.
After(u) ==
  IF Pending(u) = {} THEN [pc |-> "index", v |-> 0, k |-> 0]
  ELSE [pc |-> "apply", k |-> 1,
        v |-> CHOOSE v \in Pending(u) : \A x \in Pending(u) : v <= x]

\* Connect, check the integrity, create schema_version.
Connect(o) ==
  /\ at[o].pc = "closed"
  /\ Move(o, [pc |-> "read", v |-> 0, k |-> 0])
  /\ UNCHANGED <<marked, columns, faults>>

\* SELECT MAX(version): the database of a newer release is refused.
ReadVersion(o) ==
  /\ at[o].pc = "read"
  /\ \E u \in Current : Move(o, IF u > Expected THEN Closed ELSE After(u))
  /\ UNCHANGED <<marked, columns, faults>>

MayFail(kind) == kind \in Faults /\ faults < MaxFaults /\ faults' = faults + 1

\* A SELECT that fails reads as version 0.
ReadFails(o) ==
  /\ at[o].pc = "read"
  /\ MayFail("busy")
  /\ Move(o, After(0))
  /\ UNCHANGED <<marked, columns>>

\* CREATE TABLE IF NOT EXISTS, or ALTER TABLE ADD COLUMN.
AddColumn(o) ==
  LET p == at[o] IN
  /\ p.pc = "apply"
  /\ p.v = 1 \/ <<p.v, p.k>> \notin columns
  /\ columns' = columns \cup {<<p.v, p.k>>}
  /\ Move(o, IF p.k < Added(p.v) THEN [p EXCEPT !.k = p.k + 1] ELSE [p EXCEPT !.pc = "mark"])
  /\ UNCHANGED <<marked, faults>>

\* "duplicate column name": the open ends with an error.
DuplicateColumn(o) ==
  /\ at[o].pc = "apply"
  /\ at[o].v # 1 /\ <<at[o].v, at[o].k>> \in columns
  /\ Move(o, Closed)
  /\ UNCHANGED <<marked, columns, faults>>

\* Mutant of Mark: the INSERT is left out.
NoMark(o) ==
  /\ at[o].pc = "mark"
  /\ Move(o, After(at[o].v))
  /\ UNCHANGED <<marked, columns, faults>>

\* INSERT INTO schema_version; what follows depends on the version read at
\* the start, so the next statements are those of the next version.
Mark(o) ==
  /\ at[o].pc = "mark"
  /\ marked' = marked \cup {at[o].v}
  /\ Move(o, After(at[o].v))
  /\ UNCHANGED <<columns, faults>>

\* The indexes and cache_rejects, all IF NOT EXISTS.
Index(o) ==
  /\ at[o].pc = "index"
  /\ Move(o, [pc |-> "open", v |-> 0, k |-> 0])
  /\ UNCHANGED <<marked, columns, faults>>

\* record() or a query, which name every column; then the connection is dropped.
Use(o) ==
  /\ at[o].pc = "open"
  /\ Move(o, Closed)
  /\ UNCHANGED <<marked, columns, faults>>

\* A statement of the open fails, the ones before it stay.
StatementFails(o) ==
  /\ at[o].pc \in {"apply", "mark", "index"}
  /\ MayFail("busy")
  /\ Move(o, Closed)
  /\ UNCHANGED <<marked, columns>>

\* The process is killed, with every connection in S.
Crash ==
  /\ MayFail("crash")
  /\ \E S \in SUBSET Openers :
       at' = [o \in Openers |-> IF o \in S THEN Closed ELSE at[o]]
  /\ UNCHANGED <<marked, columns>>

Step(o) ==
  \/ Connect(o) \/ ReadVersion(o) \/ AddColumn(o) \/ DuplicateColumn(o)
  \/ Mark(o) \/ Index(o) \/ Use(o)

Next ==
  \/ \E o \in Openers : Step(o) \/ ReadFails(o) \/ StatementFails(o)
  \/ Crash

Spec == Init /\ [][Next]_vars

\* The database is opened again and again, and an open that is under way is
\* never suspended: it is one synchronous call.
FairSpec == Spec /\ \A o \in Openers : WF_vars(Step(o))
-----------------------------------------------------------------------------
(* Safety. *)

\* A connection handed to record() has every column its INSERT names, whoever
\* added them, and whatever failed before.
OpenIsComplete == \A o \in Openers : at[o].pc \in {"index", "open"} => columns = AllColumns

\* The database of a newer release is never used, not even when its version
\* cannot be read: the replay from version 0 stops at the first column.
NewerRefused ==
  Expected + 1 \in marked => \A o \in Openers : at[o].pc \notin {"index", "open"}

\* As long as nothing has failed, a version that is applied in part has an open
\* that is about to complete it; no other one can, since its ALTER would fail.
GapOwned ==
  faults = 0 =>
    \A c \in columns : c[1] \in marked \/
      \E o \in Openers : /\ at[o].v = c[1]
                         /\ at[o].pc = "mark" \/ (at[o].pc = "apply" /\ at[o].k > c[2])

-----------------------------------------------------------------------------
(* The inductive invariant behind them. *)

\* Versions are marked in order, each after its columns.
MarksInOrder ==
  \A u \in marked :
    /\ \A v \in Versions : v < u => v \in marked
    /\ u \in Versions => Columns(u) \subseteq columns

\* An open works on the first version that was not marked when it read, or on
\* one it came to itself; the columns before its place are there.
PlacesInv ==
  \A o \in Openers :
    /\ at[o].pc \in {"apply", "mark"} =>
         /\ \A u \in Versions : u < at[o].v => u \in marked
         /\ \A k \in 1 .. Added(at[o].v) :
              k < at[o].k \/ at[o].pc = "mark" => <<at[o].v, k>> \in columns
    /\ at[o].pc \in {"index", "open"} => Versions \subseteq marked

-----------------------------------------------------------------------------
(* Liveness. *)

\* However many connections race each other through the migration, and however
\* many of them fail at a column another one added, one of them completes it,
\* if no process is killed and no statement fails on its own.
Migrated == [](faults = 0) => <>(Expected \in marked)

\* "Partial migrations are safe: on restart, the last successful version is
\* detected and remaining steps applied" (M17-sonnet-verification.md:228).
PartialRecovered == (faults > 0) ~> (Expected \in marked)
=============================================================================
