--------------------------- MODULE RuntimeIdentity --------------------------
(***************************************************************************)
(* The identity of the runtime, src/identity: each start of a gateway on a  *)
(* configuration directory takes the identity in the file runtime_id, or    *)
(* makes one and writes it there, truncating the file first.  No lock keeps *)
(* two starts apart, and the port is bound only afterwards.                 *)
(***************************************************************************)
EXTENDS FiniteSets

CONSTANTS
  Starts,           \* the starts of a gateway; each makes an identity of its own, itself
  Nothing,          \* no file, no identity
  Empty,            \* a file without content
  IdentityScenes    \* sets of what may happen: "together", "io", "crash"

ASSUME IdentityAssumption == {Nothing, Empty} \cap Starts = {}

VARIABLE identity   \* [may, file, at, id] of a directory, or Nothing

IdentityInit ==
  identity \in {[may |-> may, file |-> Nothing, at |-> [s \in Starts |-> "off"],
                 id |-> [s \in Starts |-> Nothing]] : may \in IdentityScenes}

IdentityIdle == identity = Nothing

StartAt(s, place) == identity # Nothing /\ identity.at[s] = place
Starting == {s \in Starts : identity.at[s] \in {"look", "create", "fill"}}

StartRuntime(s) ==
  /\ StartAt(s, "off")
  /\ "together" \in identity.may \/ Starting = {}
  /\ identity' = [identity EXCEPT !.at[s] = "look"]

\* Mutant of Known: what is there is taken.
KnownAnyway == identity.file # Nothing

Known == identity.file \notin {Nothing, Empty}

\* A file that cannot be read counts as one that is not there.
LookForIdentity(s) ==
  /\ StartAt(s, "look")
  /\ \/ /\ Known
        /\ identity' = [identity EXCEPT !.at[s] = "up", !.id[s] = identity.file]
     \/ /\ ~Known \/ "io" \in identity.may
        /\ identity' = [identity EXCEPT !.at[s] = "create", !.id[s] = s]

\* std::fs::write in two steps; that it fails is passed over.
CreateIdentity(s) ==
  /\ StartAt(s, "create")
  /\ \/ identity' = [identity EXCEPT !.at[s] = "fill", !.file = Empty]
     \/ /\ "io" \in identity.may
        /\ identity' = [identity EXCEPT !.at[s] = "up"]

FillIdentity(s) ==
  /\ StartAt(s, "fill")
  /\ \/ identity' = [identity EXCEPT !.at[s] = "up", !.file = s]
     \/ /\ "io" \in identity.may
        /\ identity' = [identity EXCEPT !.at[s] = "up"]

KillStart(s) ==
  /\ identity # Nothing
  /\ "crash" \in identity.may
  /\ s \in Starting
  /\ identity' = [identity EXCEPT !.at[s] = "gone"]
-----------------------------------------------------------------------------
Served == {s \in Starts : identity.at[s] = "up"}

SameIdentity ==
  \A s, t \in Served : identity.id[s] = identity.id[t] /\ identity.id[s] \in Starts

(***************************************************************************)
(* "The ID is written to `runtime_id` in the config directory so it         *)
(* survives gateway restarts" (identity/mod.rs:88): every runtime that      *)
(* comes up on a directory has the same one, also after a start was killed  *)
(* at any place.  For starts one after the other whose file operations      *)
(* work; refuted by IdentityAlwaysSurvives without that, when two starts    *)
(* find no file, or the file cannot be read once.                           *)
(***************************************************************************)
IdentitySurvives ==
  (identity # Nothing /\ identity.may \subseteq {"crash"}) => SameIdentity

IdentityAlwaysSurvives == identity # Nothing => SameIdentity
=============================================================================
