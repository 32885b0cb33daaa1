------------------------------ MODULE Gateway -------------------------------
(***************************************************************************)
(* The request path of the gateway (gateway/routes.rs, gateway/server.rs): *)
(* the handlers of POST /v1/messages and POST /v1/responses, the permits   *)
(* of the upstream semaphore, and the detached task each answered request  *)
(* leaves behind to record itself in the ledger.                           *)
(*                                                                         *)
(* A handler is a future.  Between two awaits its code runs to the end,    *)
(* but on a multi-threaded runtime, so the handlers interleave at every    *)
(* step that touches something shared; at an await the future can also be  *)
(* dropped, which is what happens when its client disconnects.             *)
(*                                                                         *)
(* The registry is the one of CoalesceStore: its actions are conjuncts     *)
(* here, and each adds what the handler does in the same step.  The safe   *)
(* cache is reduced to its verdict (a hit with some response, or a miss);  *)
(* SafeCache models how the verdict comes about.                           *)
(***************************************************************************)
EXTENDS CoalesceStore, Naturals, FiniteSets

CONSTANTS
  MaxPermits,   \* runtime.max_concurrent_upstream
  Faults,       \* what may go wrong in this instance, see FaultKinds
  NoKey         \* an empty or absent flight key

FaultKinds ==
  { "upstream_error",   \* send() fails, or the body exceeds the limit
    "client_gone",      \* a client disconnects while its handler awaits
    "panic",            \* the request transformation panics
    "ledger_error" }    \* the ledger database cannot be opened or written

ASSUME GatewayAssumption ==
  /\ MaxPermits \in Nat
  /\ Faults \subseteq FaultKinds
  /\ NoKey \notin Keys
  /\ IsFiniteSet(Requests)

VARIABLES
  phase,        \* phase[r]: where the handler of request r is
  mode,         \* mode[r]: which way through the handlers r takes
  key,          \* key[r]: url, fingerprint, trust domain and policy of r
  body,         \* body[r]: the response r holds, NoMsg before it has one
  source,       \* source[r]: where that response came from
  carry,        \* carry[r]: shield_key_for_complete
  permits,      \* free permits of upstream_semaphore
  task,         \* task[r]: where the detached ledger task of r is
  reply,        \* reply[r]: how the exchange with the client of r ended
  ledger,       \* the requests that have a row in the ledger
  joined        \* history: the leader whose flight r joined

handlerVars == <<phase, mode, key, body, source, carry, reply, joined>>
taskVars == <<task, ledger>>
vars == <<storeVars, handlerVars, permits, taskVars>>

\* "shielded": a non-streaming message; "direct": a streaming one, or one
\* with a shield bypass header; "responses": POST /v1/responses.
Modes == {"shielded", "direct", "responses"}

Phases == {"new", "acquire", "waiting", "lookup", "permit", "upstream",
           "store", "finish", "done"}

Replies == {"none", "ok", "rejected", "502", "503", "gone"}

\* One type invariant: what each variable may hold; the free permits never
\* go below zero or above the configured number.
TypeOK ==
  /\ StoreTypeOK
  /\ phase \in [Requests -> Phases]
  /\ mode \in [Requests -> Modes]
  /\ key \in [Requests -> Keys \cup {NoKey}]
  /\ body \in [Requests -> Responses \cup {NoMsg}]
  /\ source \in [Requests -> {"none", "upstream", "coalesced", "hit"}]
  /\ carry \in [Requests -> Keys \cup {NoKey}]
  /\ permits \in 0 .. MaxPermits
  /\ task \in [Requests -> {"none", "open", "complete", "record", "end"}]
  /\ reply \in [Requests -> Replies]
  /\ ledger \subseteq Requests
  /\ joined \in [Requests -> Requests \cup {NoRequest}]

Init ==
  /\ StoreInit
  /\ phase = [r \in Requests |-> "new"]
  /\ mode = [r \in Requests |-> "direct"]
  /\ key = [r \in Requests |-> NoKey]
  /\ body = [r \in Requests |-> NoMsg]
  /\ source = [r \in Requests |-> "none"]
  /\ carry = [r \in Requests |-> NoKey]
  /\ permits = MaxPermits
  /\ task = [r \in Requests |-> "none"]
  /\ reply = [r \in Requests |-> "none"]
  /\ ledger = {}
  /\ joined = [r \in Requests |-> NoRequest]

\* The handler of r moves from one phase to another.
Goto(r, from, to) ==
  /\ phase[r] = from
  /\ phase' = [phase EXCEPT ![r] = to]

\* The handler of r returns with an error, or is dropped.
End(r, from, how) ==
  /\ Goto(r, from, "done")
  /\ reply' = [reply EXCEPT ![r] = how]

-----------------------------------------------------------------------------
(* Arrival: body limit, integration, model whitelist, headers, identity.   *)

Reject(r) ==
  /\ End(r, "new", "rejected")
  /\ UNCHANGED <<storeVars, mode, key, body, source, carry, joined, permits,
                 taskVars>>

\* POST /v1/messages; a request with the x-toche-bypass-shield header and one
\* that streams its answer do not pass through the shield.
AdmitMessage(r) ==
  /\ \E m \in {"shielded", "direct"}, k \in Keys :
       /\ mode' = [mode EXCEPT ![r] = m]
       /\ key' = [key EXCEPT ![r] = k]
       /\ Goto(r, "new", IF m = "shielded" THEN "acquire" ELSE "lookup")
  /\ UNCHANGED <<storeVars, body, source, carry, reply, joined, permits,
                 taskVars>>

\* POST /v1/responses; the key is the one the request would have, the handler
\* computes none.
AdmitResponses(r) ==
  /\ Goto(r, "new", "permit")
  /\ mode' = [mode EXCEPT ![r] = "responses"]
  /\ \E k \in Keys : key' = [key EXCEPT ![r] = k]
  /\ UNCHANGED <<storeVars, body, source, carry, reply, joined, permits,
                 taskVars>>

Admit(r) == AdmitMessage(r) \/ AdmitResponses(r)

-----------------------------------------------------------------------------
(* The shield. *)

\* Mutant of Lead: the registry is consulted, but a request that finds its
\* key occupied goes ahead on its own as well.
LeadAnyway(r) ==
  /\ Goto(r, "acquire", "lookup")
  /\ Forward(r, key[r]) \/ (Free(r) /\ UNCHANGED storeVars)
  /\ UNCHANGED <<mode, key, body, source, carry, reply, joined, permits,
                 taskVars>>

Lead(r) ==
  /\ Goto(r, "acquire", "lookup")
  /\ Forward(r, key[r])
  /\ UNCHANGED <<mode, key, body, source, carry, reply, joined, permits,
                 taskVars>>

\* Mutant of Join: a flight key that leaves out a component matches the
\* flight of another trust domain or policy.
JoinOtherDomain(r) ==
  /\ Goto(r, "acquire", "waiting")
  /\ \E k \in Keys :
       /\ Subscribe(r, k)
       /\ joined' = [joined EXCEPT ![r] = pending[k]]
  /\ UNCHANGED <<mode, key, body, source, carry, reply, permits, taskVars>>

Join(r) ==
  /\ Goto(r, "acquire", "waiting")
  /\ Subscribe(r, key[r])
  /\ joined' = [joined EXCEPT ![r] = pending[key[r]]]
  /\ UNCHANGED <<mode, key, body, source, carry, reply, permits, taskVars>>

\* Coalesced with the leader's response, or Failed and so 503.
Awake(r) ==
  /\ phase[r] = "waiting"
  /\ Receive(r)
  /\ IF sent[sub[r]] = Cancelled
     THEN /\ End(r, "waiting", "503")
          /\ UNCHANGED <<body, source>>
     ELSE /\ Goto(r, "waiting", "finish")
          /\ body' = [body EXCEPT ![r] = sent[sub[r]]]
          /\ source' = [source EXCEPT ![r] = "coalesced"]
          /\ UNCHANGED reply
  /\ UNCHANGED <<mode, key, carry, joined, permits, taskVars>>

-----------------------------------------------------------------------------
(* A leader, or a request outside the shield: the safe cache, then the     *)
(* transformation of the body.                                             *)

\* Mutant of CacheHit: hand the key on to the ledger task as well.
CacheHitCarriesKey(r) ==
  /\ Goto(r, "lookup", "finish")
  /\ \E resp \in Responses :
       /\ body' = [body EXCEPT ![r] = resp]
       /\ IF mode[r] = "shielded" THEN Complete(key[r], resp)
                                  ELSE UNCHANGED storeVars
  /\ source' = [source EXCEPT ![r] = "hit"]
  /\ carry' = [carry EXCEPT ![r] = IF mode[r] = "shielded" THEN key[r] ELSE NoKey]
  /\ UNCHANGED <<mode, key, reply, joined, permits, taskVars>>

\* Mutant of CacheHit: return the cached response to the leader alone.
CacheHitKeepsFlight(r) ==
  /\ Goto(r, "lookup", "finish")
  /\ \E resp \in Responses : body' = [body EXCEPT ![r] = resp]
  /\ source' = [source EXCEPT ![r] = "hit"]
  /\ UNCHANGED <<storeVars, mode, key, carry, reply, joined, permits, taskVars>>

\* A hit completes the flight at once and carries no key further.
CacheHit(r) ==
  /\ Goto(r, "lookup", "finish")
  /\ \E resp \in Responses :
       /\ body' = [body EXCEPT ![r] = resp]
       /\ IF mode[r] = "shielded" THEN Complete(key[r], resp)
                                  ELSE UNCHANGED storeVars
  /\ source' = [source EXCEPT ![r] = "hit"]
  /\ UNCHANGED <<mode, key, carry, reply, joined, permits, taskVars>>

CacheMiss(r) ==
  /\ Goto(r, "lookup", "permit")
  /\ UNCHANGED <<storeVars, mode, key, body, source, carry, reply, joined,
                 permits, taskVars>>

\* reduce_body_at subtracts token counts; with overflow checks compiled in,
\* a filter that lengthens its input makes the handler panic.
Panic(r) ==
  /\ "panic" \in Faults
  /\ End(r, "lookup", "gone")
  /\ UNCHANGED <<storeVars, mode, key, body, source, carry, joined, permits,
                 taskVars>>

-----------------------------------------------------------------------------
(* The upstream call, under a permit. *)

AcquirePermit(r) ==
  /\ Goto(r, "permit", "upstream")
  /\ permits > 0
  /\ permits' = permits - 1
  /\ UNCHANGED <<storeVars, mode, key, body, source, carry, reply, joined,
                 taskVars>>

\* The timer only wins while no permit is free: the timeout polls acquire()
\* first, and a freed permit is assigned to a queued acquire() at once.
PermitTimeout(r) ==
  /\ End(r, "permit", "503")
  /\ permits = 0
  /\ UNCHANGED <<storeVars, mode, key, body, source, carry, joined, permits,
                 taskVars>>

\* A response of any status; a stream that breaks off is one too.
UpstreamAnswers(r) ==
  /\ Goto(r, "upstream", "store")
  /\ \E resp \in Responses : body' = [body EXCEPT ![r] = resp]
  /\ source' = [source EXCEPT ![r] = "upstream"]
  /\ UNCHANGED <<storeVars, mode, key, carry, reply, joined, permits, taskVars>>

\* Mutant of UpstreamFails: the error path keeps the permit.
UpstreamFailsKeepsPermit(r) ==
  /\ "upstream_error" \in Faults
  /\ End(r, "upstream", "502")
  /\ UNCHANGED <<storeVars, mode, key, body, source, carry, joined, permits,
                 taskVars>>

\* `?' on forward_to_upstream: the permit is dropped with the stack frame.
UpstreamFails(r) ==
  /\ "upstream_error" \in Faults
  /\ End(r, "upstream", "502")
  /\ permits' = permits + 1
  /\ UNCHANGED <<storeVars, mode, key, body, source, carry, joined, taskVars>>

\* The safe cache has been written or not; the block that holds the permit
\* ends and yields shield_key_for_complete.
CacheStore(r) ==
  /\ mode[r] # "responses"
  /\ Goto(r, "store", "finish")
  /\ permits' = permits + 1
  /\ carry' = [carry EXCEPT ![r] = IF mode[r] = "shielded" THEN key[r] ELSE NoKey]
  /\ UNCHANGED <<storeVars, mode, key, body, source, reply, joined, taskVars>>

-----------------------------------------------------------------------------
(* The end of the handler, and a client that does not wait for it. *)

\* Spawn the ledger task and return.
RespondMessage(r) ==
  /\ End(r, "finish", "ok")
  /\ task' = [task EXCEPT ![r] = "open"]
  /\ UNCHANGED <<storeVars, mode, key, body, source, carry, joined, permits,
                 ledger>>

\* The responses handler has no cache to write, and drops its permit last.
RespondResponses(r) ==
  /\ mode[r] = "responses"
  /\ End(r, "store", "ok")
  /\ permits' = permits + 1
  /\ task' = [task EXCEPT ![r] = "open"]
  /\ UNCHANGED <<storeVars, mode, key, body, source, carry, joined, ledger>>

Respond(r) == RespondMessage(r) \/ RespondResponses(r)

\* The awaits of the handler: recv(), acquire(), the upstream exchange.
ClientGone(r) ==
  /\ "client_gone" \in Faults
  /\ phase[r] \in {"waiting", "permit", "upstream"}
  /\ End(r, phase[r], "gone")
  /\ IF phase[r] = "waiting" THEN Unsubscribe(r) ELSE UNCHANGED storeVars
  /\ permits' = IF phase[r] = "upstream" THEN permits + 1 ELSE permits
  /\ UNCHANGED <<mode, key, body, source, carry, joined, taskVars>>

-----------------------------------------------------------------------------
(* The detached task: open the ledger, complete the flight, record. *)

GotoTask(r, from, to) ==
  /\ task[r] = from
  /\ task' = [task EXCEPT ![r] = to]

LedgerOpens(r) ==
  /\ GotoTask(r, "open", "complete")
  /\ UNCHANGED <<storeVars, handlerVars, permits, ledger>>

\* The early return comes before the flight is completed.
LedgerOpenFails(r) ==
  /\ "ledger_error" \in Faults
  /\ GotoTask(r, "open", "end")
  /\ UNCHANGED <<storeVars, handlerVars, permits, ledger>>

CompleteFlight(r) ==
  /\ GotoTask(r, "complete", "record")
  /\ IF carry[r] # NoKey THEN Complete(carry[r], body[r])
                         ELSE UNCHANGED storeVars
  /\ UNCHANGED <<handlerVars, permits, ledger>>

Record(r) ==
  /\ GotoTask(r, "record", "end")
  /\ ledger' = ledger \cup {r}
  /\ UNCHANGED <<storeVars, handlerVars, permits>>

RecordFails(r) ==
  /\ "ledger_error" \in Faults
  /\ GotoTask(r, "record", "end")
  /\ UNCHANGED <<storeVars, handlerVars, permits, ledger>>

-----------------------------------------------------------------------------
\* What the runtime schedules: the code of the handler of r up to its next
\* await, or what that await yields.
Handler(r) ==
  \/ Lead(r) \/ Join(r) \/ Awake(r)
  \/ CacheHit(r) \/ CacheMiss(r) \/ Panic(r)
  \/ AcquirePermit(r) \/ PermitTimeout(r)
  \/ UpstreamAnswers(r) \/ UpstreamFails(r)
  \/ CacheStore(r) \/ Respond(r)

LedgerTask(r) ==
  \/ LedgerOpens(r) \/ LedgerOpenFails(r)
  \/ CompleteFlight(r)
  \/ Record(r) \/ RecordFails(r)

Next ==
  \E r \in Requests :
    Admit(r) \/ Reject(r) \/ ClientGone(r) \/ Handler(r) \/ LedgerTask(r)

Spec == Init /\ [][Next]_vars

\* The runtime polls every ready task: tokio is work conserving, the permit
\* wait and the upstream exchange are bounded by their timeouts.  Clients
\* need not come, and nothing makes them leave.
FairSpec ==
  Spec /\ \A r \in Requests : WF_vars(Handler(r)) /\ WF_vars(LedgerTask(r))
-----------------------------------------------------------------------------
(***************************************************************************)
(* Safety.                                                                 *)
(***************************************************************************)

Holders == {r \in Requests : phase[r] \in {"upstream", "store"}}

\* Permits are neither lost nor made up on any way out of the handlers: an
\* answer, an upstream failure, a client that disconnects while the upstream
\* call runs.  Waiters and cache hits hold none.
PermitConservation == permits + Cardinality(Holders) = MaxPermits

\* shielded requests between try_acquire and the end of their upstream call
Flying(r) ==
  mode[r] = "shielded" /\ phase[r] \in {"lookup", "permit", "upstream", "store"}

\* N identical eligible requests make one upstream call at a time, whatever
\* happens to the ones that lead.
OneUpstreamPerKey ==
  \A q, r \in Requests : Flying(q) /\ Flying(r) /\ key[q] = key[r] => q = r

\* A coalesced request is answered with the response of the very flight it
\* joined, one of its own key, and that response came from the upstream or
\* the safe cache, never from another coalesced request.
CoalescedAnswers ==
  \A r \in Requests : source[r] = "coalesced" =>
    /\ joined[r] \in Requests
    /\ mode[joined[r]] = "shielded"
    /\ key[joined[r]] = key[r]
    /\ source[joined[r]] \in {"upstream", "hit"}
    /\ body[joined[r]] = body[r]

\* A flight leaves the registry in one way: its own leader has a response
\* and broadcasts it.  No request ends the flight of another, although the
\* detached task completes by key, long after the handler returned.
OwnerResolves ==
  [][\A k \in Keys : pending[k] # NoRequest /\ pending'[k] # pending[k] =>
       /\ pending'[k] = NoRequest
       /\ source'[pending[k]] \in {"upstream", "hit"}
       /\ sent'[pending[k]] = body'[pending[k]]]_vars

-----------------------------------------------------------------------------
(***************************************************************************)
(* The inductive invariant behind the safety properties.                   *)
(***************************************************************************)

\* How far a request is decides what it has: a key once admitted, a response
\* and its source once answered, a key to complete after the upstream call.
ProgressInv ==
  \A r \in Requests :
    /\ phase[r] \notin {"new", "done"} => key[r] \in Keys
    /\ phase[r] \in {"acquire", "waiting"} => mode[r] = "shielded"
    /\ phase[r] \notin {"store", "finish", "done"} => source[r] = "none"
    /\ phase[r] = "store" => source[r] = "upstream"
    /\ phase[r] = "finish" => source[r] # "none"
    /\ phase[r] \notin {"finish", "done"} => carry[r] = NoKey
    /\ carry[r] # NoKey =>
         carry[r] = key[r] /\ mode[r] = "shielded" /\ source[r] = "upstream"
    /\ task[r] # "none" => phase[r] = "done" /\ source[r] # "none"
    /\ source[r] # "none" => body[r] \in Responses

\* r leads a flight that it is still on its way to complete.
Owns(r) ==
  \/ Flying(r)
  \/ carry[r] # NoKey /\ (phase[r] = "finish" \/ task[r] \in {"open", "complete"})

\* The registry holds exactly the flights of requests that led, each under
\* its own key, and no flight goes missing before its owner completes it.
FlightInv ==
  /\ \A k \in Keys : pending[k] # NoRequest =>
       /\ key[pending[k]] = k
       /\ mode[pending[k]] = "shielded"
       /\ phase[pending[k]] \notin {"new", "acquire", "waiting"}
  /\ \A r \in Requests : Owns(r) => pending[key[r]] = r

\* What travels through a channel is the response of its leader, and it goes
\* to requests with the leader's key.
AnswerInv ==
  \A r \in Requests :
    /\ phase[r] = "waiting" <=> sub[r] # NoRequest
    /\ sub[r] # NoRequest =>
         /\ joined[r] = sub[r]
         /\ key[sub[r]] = key[r]
         /\ mode[sub[r]] = "shielded"
    /\ sent[r] # NoMsg =>
         /\ sent[r] = body[r]
         /\ source[r] \in {"upstream", "hit"}

IInv ==
  /\ TypeOK
  /\ PermitConservation
  /\ ProgressInv
  /\ StoreInv
  /\ FlightInv
  /\ AnswerInv
  /\ CoalescedAnswers

-----------------------------------------------------------------------------
(***************************************************************************)
(* Liveness.                                                               *)
(***************************************************************************)

\* The flight of l is registered, and l is past the code that completes it:
\* its handler did not get to an answer, or its ledger task did not get a
\* database.
Abandoned(l) ==
  /\ Registered(l)
  /\ \/ phase[l] = "done" /\ reply[l] # "ok"
     \/ task[l] = "end" /\ l \notin ledger

Stranded(r) == phase[r] = "waiting" /\ Abandoned(sub[r])

\* Every admitted request ends, save those that wait on the flight of a leader
\* that failed, left or panicked on its way, or could not open the ledger: an
\* answer reaches all waiters, no permit wait is endless, and no error other
\* than these costs a waiter its wake-up.
HandlersFinish ==
  \A r \in Requests : phase[r] # "new" ~> (phase[r] = "done" \/ Stranded(r))

-----------------------------------------------------------------------------
(***************************************************************************)
(* What the documentation says and the code does not do.                   *)
(***************************************************************************)

\* A leader that fails wakes its waiters (M07-flight-registry.md:49).
WaitersWake == \A r \in Requests : phase[r] = "waiting" ~> phase[r] = "done"

\* A leader that panics leaves no flight behind (CHANGELOG.md:104).
NoStaleFlight == \A r \in Requests : ~Abandoned(r)
=============================================================================
