------------------------------- MODULE Usage --------------------------------
(***************************************************************************)
(* The usage ledger and its statistics, src/meter and toche stats.  After a *)
(* request is answered a task of its own writes a row.  toche stats runs    *)
(* several queries one after the other, without a transaction, while rows   *)
(* come and a cleanup deletes old ones; the groups by protocol are summed   *)
(* by the command itself, from the last entries.                            *)
(*                                                                          *)
(* A call is [model, protocol, tokens, raw, reduced, priced].  Averages     *)
(* and the wording of the report are left out.                              *)
(***************************************************************************)
EXTENDS Integers, Sequences, FiniteSetsExt, Functions

CONSTANTS
  UsageScenes,    \* records [calls, filter, limit, retention, last]: last is the day a behaviour ends
  MaxDays         \* the days a summary lists

Calls ==
  [model : STRING, protocol : STRING, tokens : Nat, raw : Nat, reduced : Nat, priced : BOOLEAN]

ASSUME UsageAssumption == MaxDays \in Nat /\ \A s \in UsageScenes : s.calls \in Seq(Calls)

VARIABLES
  ledger,         \* the rows
  calls,          \* a sequence of [call, at, row], or <<>> in the behaviours of another part
  today,
  stats           \* the command: [scene, pc, todo, total, by_model, by_day, entries, changed]

usageVars == <<ledger, calls, today, stats>>

Forever == -1     \* no retention
AnyProtocol == "any"
NoRow == [hit |-> FALSE]

UsageInit ==
  /\ ledger = {}
  /\ today = 0
  /\ \E s \in UsageScenes :
       /\ calls = [i \in DOMAIN s.calls |-> [call |-> s.calls[i], at |-> "asked", row |-> NoRow]]
       /\ stats = [scene |-> s, pc |-> "total", todo |-> {}, total |-> <<>>, by_model |-> <<>>,
                   by_day |-> <<>>, entries |-> {}, changed |-> {}]

UsageIdle == ledger = {} /\ calls = <<>> /\ today = 0 /\ stats = <<>>

(***************************************************************************)
(* The row of an answer: it came from the upstream, from the flight of      *)
(* another request, or from the safe cache, which /v1/responses has not.    *)
(***************************************************************************)
Ways(call) == IF call.protocol = "anthropic" THEN {"upstream", "coalesced", "hit"} ELSE {"upstream"}

\* Mutant of Draft: a waiter takes over what the answer of its leader says of itself.
DraftOfLeader(call, how) ==
  [day |-> today, model |-> call.model, protocol |-> call.protocol, tokens |-> call.tokens,
   priced |-> call.priced, hit |-> how # "upstream",
   coalesced |-> IF how = "coalesced" THEN 1 ELSE 0,
   raw |-> IF how = "upstream" THEN call.raw ELSE 0,
   reduced |-> IF how = "upstream" THEN call.reduced ELSE 0]

Draft(call, how) ==
  [day |-> today, model |-> call.model, protocol |-> call.protocol, tokens |-> call.tokens,
   priced |-> call.priced, hit |-> how = "hit",
   coalesced |-> IF how = "coalesced" THEN 1 ELSE 0,
   raw |-> IF how = "upstream" THEN call.raw ELSE 0,
   reduced |-> IF how = "upstream" THEN call.reduced ELSE 0]

CallAt(i, place) == i \in DOMAIN calls /\ calls[i].at = place

AnswerCall(i) ==
  /\ CallAt(i, "asked")
  /\ \E how \in Ways(calls[i].call) :
       calls' = [calls EXCEPT ![i].at = "answered", ![i].row = Draft(calls[i].call, how)]
  /\ UNCHANGED <<ledger, today, stats>>

\* The command is between its first query and its last.
Counting == stats.pc \notin {"total", "done", "failed"}

Disturbed(what) ==
  stats' = IF Counting THEN [stats EXCEPT !.changed = @ \cup {what}] ELSE stats

RecordRequest(i) ==
  /\ CallAt(i, "answered")
  /\ LET id == 1 + Max({0} \cup {r.id : r \in ledger})
     IN ledger' = ledger \cup {[id |-> id, row |-> calls[i].row]}
  /\ calls' = [calls EXCEPT ![i].at = "recorded"]
  /\ Disturbed("insert")
  /\ UNCHANGED today

\* The ledger cannot be opened or written, or the gateway ends first.
RecordIsLost(i) ==
  /\ CallAt(i, "answered")
  /\ calls' = [calls EXCEPT ![i].at = "lost"]
  /\ UNCHANGED <<ledger, today, stats>>

NextDay ==
  /\ stats # <<>>
  /\ today < stats.scene.last
  /\ today' = today + 1
  /\ UNCHANGED <<ledger, calls, stats>>

\* ledger_delete_older_than: the cutoff is at some hour of its day.
DeleteOld ==
  /\ stats # <<>>
  /\ stats.scene.retention # Forever
  /\ LET cutoff == today - stats.scene.retention
     IN \E early \in SUBSET {r \in ledger : r.row.day = cutoff} :
          LET old == {r \in ledger : r.row.day < cutoff} \cup early
          IN /\ old # {}
             /\ ledger' = ledger \ old
  /\ Disturbed("delete")
  /\ UNCHANGED <<calls, today>>
-----------------------------------------------------------------------------
(***************************************************************************)
(* The queries.  build_breakdown sums the rows of a model, and of all when  *)
(* the name it is given is empty.                                           *)
(***************************************************************************)
Breakdown(rows) ==
  [requests |-> Cardinality(rows),
   upstream |-> Cardinality({r \in rows : ~r.row.hit /\ r.row.coalesced = 0}),
   coalesced |-> SumFunction([r \in rows |-> r.row.coalesced]),
   hits |-> Cardinality({r \in rows : r.row.hit}),
   tokens |-> SumFunction([r \in rows |-> r.row.tokens]),
   hit_tokens |-> SumFunction([r \in rows |-> IF r.row.hit THEN r.row.tokens ELSE 0]),
   unpriced |-> Cardinality({r \in rows : ~r.row.priced}),
   raw |-> SumFunction([r \in rows |-> r.row.raw]),
   reduced |-> SumFunction([r \in rows |-> r.row.reduced])]

OfModel(model) == IF model = "" THEN ledger ELSE {r \in ledger : r.row.model = model}

Query(pc) == stats # <<>> /\ stats.pc = pc /\ UNCHANGED <<ledger, calls, today>>

QueryTotal ==
  /\ Query("total")
  /\ stats' = [stats EXCEPT !.pc = "models", !.total = Breakdown(ledger)]

QueryModels ==
  /\ Query("models")
  /\ stats' = [stats EXCEPT !.pc = "model", !.todo = {r.row.model : r \in ledger}]

QueryModel ==
  /\ Query("model")
  /\ \/ \E m \in stats.todo :
          stats' = [stats EXCEPT !.todo = @ \ {m},
                      !.by_model = [n \in {m} \cup DOMAIN @ |-> IF n = m THEN Breakdown(OfModel(m)) ELSE @[n]]]
     \/ /\ stats.todo = {}
        /\ stats' = [stats EXCEPT !.pc = "days"]

QueryDays ==
  /\ Query("days")
  /\ LET days == {r.row.day : r \in ledger}
         listed == {d \in days : Cardinality({e \in days : e > d}) < MaxDays}
     IN stats' = [stats EXCEPT !.pc = "entries",
                    !.by_day = [d \in listed |-> Breakdown({r \in ledger : r.row.day = d})]]

\* The newest rows, in any order within a day; only then those of the protocol asked for.
QueryEntries ==
  /\ Query("entries")
  /\ \E last \in SUBSET ledger :
       /\ Cardinality(last) = Min({stats.scene.limit, Cardinality(ledger)})
       /\ \A r \in last, s \in ledger \ last : r.row.day >= s.row.day
       /\ stats' = [stats EXCEPT !.pc = "done",
                      !.entries = {r \in last : stats.scene.filter \in {AnyProtocol, r.row.protocol}}]

\* An error of any query ends the command without a report.
QueryFails ==
  /\ stats # <<>>
  /\ stats.pc \notin {"done", "failed"}
  /\ stats' = [stats EXCEPT !.pc = "failed"]
  /\ UNCHANGED <<ledger, calls, today>>

\* The sums of the command, which counts a coalesced row as one of the upstream.
GroupBreakdown(rows) ==
  [Breakdown(rows) EXCEPT !.upstream = Cardinality({r \in rows : ~r.row.hit})]

ByProtocol ==
  [p \in {r.row.protocol : r \in stats.entries} |->
     GroupBreakdown({r \in stats.entries : r.row.protocol = p})]
-----------------------------------------------------------------------------
Reported == stats # <<>> /\ stats.pc = "done"

SumOver(parts, column) == SumFunction([k \in DOMAIN parts |-> parts[k][column]])

Partitioned(b) == b.requests = b.upstream + b.coalesced + b.hits

Complete == "" \notin DOMAIN stats.by_model /\ Cardinality(DOMAIN stats.by_day) < MaxDays

\* Each request is in one column, and the tables come to the same.
TablesAgree ==
  /\ \A b \in {stats.total} \cup Range(stats.by_model) \cup Range(stats.by_day) : Partitioned(b)
  /\ Complete =>
       LET total == stats.total.requests
           models == SumOver(stats.by_model, "requests")
           days == SumOver(stats.by_day, "requests")
       IN /\ "delete" \notin stats.changed => total <= models /\ models <= days
          /\ "insert" \notin stats.changed => total >= models /\ models >= days
          /\ stats.changed = {} =>
               \A c \in DOMAIN stats.total : /\ SumOver(stats.by_model, c) = stats.total[c]
                                              /\ SumOver(stats.by_day, c) = stats.total[c]

(***************************************************************************)
(* The report of toche stats adds up (meter/db.rs:336): each request is     *)
(* forwarded, coalesced or replayed, and only one of these                  *)
(* (TOCHE_CONSOLIDATED_PLAN.md:243); the columns of the models, and those   *)
(* of the days, sum up to the total when no row came or went in between;    *)
(* when rows only came the later table has the more requests, when they     *)
(* only went the fewer.  While every model has a name and the days are not  *)
(* cut off.                                                                 *)
(***************************************************************************)
StatsAddUp == Reported => TablesAgree

\* The same without a name for every model: a request for "" counts all rows again.
ModelsAddUp ==
  (Reported /\ stats.changed = {}) => SumOver(stats.by_model, "requests") = stats.total.requests

\* "Explicit counters for coalesced, replayed, and forwarded requests"
\* (TOCHE_CONSOLIDATED_PLAN.md:243), of the groups.
GroupsAddUp == Reported => \A p \in DOMAIN ByProtocol : Partitioned(ByProtocol[p])

\* The report subtracts the reduced tokens from the raw ones without a check (stats.rs:183).
SavedIsNotNegative == Reported => stats.total.reduced <= stats.total.raw

\* "Stats accept `--protocol`" (CHANGELOG.md:75): the newest rows of that protocol.
FilterFindsRows ==
  (Reported /\ stats.scene.limit > 0 /\ \E r \in ledger : r.row.protocol = stats.scene.filter) =>
    stats.entries # {}
=============================================================================
