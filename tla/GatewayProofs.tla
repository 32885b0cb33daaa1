--------------------------- MODULE GatewayProofs ----------------------------
(***************************************************************************)
(* The gateway for any number of requests, keys, responses and permits,    *)
(* and any subset of the faults.                                           *)
(***************************************************************************)
EXTENDS Gateway, CoalesceStoreProofs, FiniteSetTheorems

-----------------------------------------------------------------------------
(* The gateway calls the registry as StoreNext allows. *)

\* Every step of a handler or a ledger task is one call of the store, or none
\* (routes.rs: try_acquire, recv, and the two calls of complete).
LEMMA StoreUse ==
  TypeOK /\ ProgressInv /\ [Next]_vars => [StoreNext]_storeVars
<1> SUFFICES ASSUME TypeOK, ProgressInv, [Next]_vars
             PROVE  StoreNext \/ UNCHANGED storeVars
  OBVIOUS
<1> USE DEF TypeOK, ProgressInv
<1>1. ASSUME NEW r \in Requests, Lead(r)
      PROVE  StoreNext
  BY <1>1 DEF Lead, Goto, StoreNext
<1>2. ASSUME NEW r \in Requests, Join(r)
      PROVE  StoreNext
  BY <1>2 DEF Join, Goto, StoreNext
<1>3. ASSUME NEW r \in Requests, Awake(r)
      PROVE  StoreNext
  BY <1>3 DEF Awake, StoreNext
<1>4. ASSUME NEW r \in Requests, CacheHit(r)
      PROVE  StoreNext \/ UNCHANGED storeVars
  BY <1>4 DEF CacheHit, Goto, StoreNext
<1>5. ASSUME NEW r \in Requests, ClientGone(r)
      PROVE  StoreNext \/ UNCHANGED storeVars
  BY <1>5 DEF ClientGone, StoreNext
<1>6. ASSUME NEW r \in Requests, CompleteFlight(r)
      PROVE  StoreNext \/ UNCHANGED storeVars
  BY <1>6 DEF CompleteFlight, GotoTask, StoreNext
<1>7. ASSUME NEW r \in Requests,
             \/ Admit(r) \/ Reject(r) \/ CacheMiss(r) \/ Panic(r)
             \/ AcquirePermit(r) \/ PermitTimeout(r)
             \/ UpstreamAnswers(r) \/ UpstreamFails(r)
             \/ CacheStore(r) \/ Respond(r)
      PROVE  UNCHANGED storeVars
  BY <1>7 DEF Admit, AdmitMessage, AdmitResponses, Reject, CacheMiss, Panic,
              AcquirePermit, PermitTimeout, UpstreamAnswers, UpstreamFails,
              CacheStore, Respond, RespondMessage, RespondResponses
<1>8. ASSUME NEW r \in Requests,
             \/ LedgerOpens(r) \/ LedgerOpenFails(r) \/ Record(r) \/ RecordFails(r)
      PROVE  UNCHANGED storeVars
  BY <1>8 DEF LedgerOpens, LedgerOpenFails, Record, RecordFails
<1>9. CASE UNCHANGED vars
  BY <1>9 DEF vars
<1> QED
  BY <1>1, <1>2, <1>3, <1>4, <1>5, <1>6, <1>7, <1>8, <1>9
  DEF Next, Handler, LedgerTask

-----------------------------------------------------------------------------
(* Permits. *)

\* Finitely many requests, so the holders can be counted.
LEMMA HoldersFinite == IsFiniteSet(Holders) /\ Cardinality(Holders) \in Nat
  BY GatewayAssumption, FS_Subset, FS_CardinalityType DEF Holders

\* How a step changes who holds a permit, and the count of free permits.
Hold(r) ==
  /\ r \notin Holders
  /\ Holders' = Holders \cup {r}
  /\ permits > 0
  /\ permits' = permits - 1

Release(r) ==
  /\ r \in Holders
  /\ Holders' = Holders \ {r}
  /\ permits' = permits + 1

\* A step takes one permit, gives one back, or touches none (routes.rs: acquire,
\* and the drop of _permit).
LEMMA PermitMoves ==
  ASSUME TypeOK, [Next]_vars
  PROVE  \/ Holders' = Holders /\ permits' = permits
         \/ \E r \in Requests : Hold(r) \/ Release(r)
<1> USE DEF TypeOK, Goto, End, Holders, Phases
<1>1. ASSUME NEW r \in Requests, Admit(r)
      PROVE  Holders' = Holders /\ permits' = permits
  BY <1>1 DEF Admit, AdmitMessage, AdmitResponses, Modes
<1>2. ASSUME NEW r \in Requests,
             Reject(r) \/ Lead(r) \/ Join(r) \/ CacheHit(r) \/ CacheMiss(r)
      PROVE  Holders' = Holders /\ permits' = permits
  BY <1>2 DEF Reject, Lead, Join, CacheHit, CacheMiss
<1>3. ASSUME NEW r \in Requests, Awake(r)
      PROVE  Holders' = Holders /\ permits' = permits
  BY <1>3 DEF Awake
<1>4. ASSUME NEW r \in Requests,
             Panic(r) \/ PermitTimeout(r) \/ UpstreamAnswers(r)
      PROVE  Holders' = Holders /\ permits' = permits
  BY <1>4 DEF Panic, PermitTimeout, UpstreamAnswers
<1>5. ASSUME NEW r \in Requests, AcquirePermit(r)
      PROVE  Hold(r)
  BY <1>5 DEF AcquirePermit, Hold
<1>6. ASSUME NEW r \in Requests, UpstreamFails(r) \/ CacheStore(r)
      PROVE  Release(r)
  BY <1>6 DEF UpstreamFails, CacheStore, Release
<1>7. ASSUME NEW r \in Requests, Respond(r)
      PROVE  \/ Holders' = Holders /\ permits' = permits
             \/ Release(r)
  BY <1>7 DEF Respond, RespondMessage, RespondResponses, Release
<1>8. ASSUME NEW r \in Requests, ClientGone(r)
      PROVE  \/ Holders' = Holders /\ permits' = permits
             \/ Release(r)
  BY <1>8 DEF ClientGone, Release
<1>9. ASSUME NEW r \in Requests, LedgerTask(r)
      PROVE  Holders' = Holders /\ permits' = permits
  BY <1>9 DEF LedgerTask, LedgerOpens, LedgerOpenFails, CompleteFlight, Record,
              RecordFails, handlerVars
<1>10. CASE UNCHANGED vars
  BY <1>10 DEF vars, handlerVars
<1> QED
  BY <1>1, <1>2, <1>3, <1>4, <1>5, <1>6, <1>7, <1>8, <1>9, <1>10
  DEF Next, Handler

\* Taking or giving back one permit keeps the sum.
LEMMA PermitStep ==
  TypeOK /\ PermitConservation /\ [Next]_vars
    => PermitConservation' /\ permits' \in 0 .. MaxPermits
<1> SUFFICES ASSUME TypeOK, PermitConservation, [Next]_vars
             PROVE  PermitConservation' /\ permits' \in 0 .. MaxPermits
  OBVIOUS
<1> USE GatewayAssumption, HoldersFinite DEF TypeOK, PermitConservation
<1>1. CASE Holders' = Holders /\ permits' = permits
  BY <1>1
<1>2. ASSUME NEW r \in Requests, Hold(r)
      PROVE  PermitConservation' /\ permits' \in 0 .. MaxPermits
  <2>1. Cardinality(Holders') = Cardinality(Holders) + 1
    BY <1>2, FS_AddElement DEF Hold
  <2> QED
    BY <1>2, <2>1 DEF Hold
<1>3. ASSUME NEW r \in Requests, Release(r)
      PROVE  PermitConservation' /\ permits' \in 0 .. MaxPermits
  <2>1. Cardinality(Holders') = Cardinality(Holders) - 1
    BY <1>3, FS_RemoveElement DEF Release
  <2>2. Cardinality(Holders) > 0
    BY <1>3, FS_EmptySet DEF Release
  <2> QED
    BY <1>3, <2>1, <2>2 DEF Release
<1> QED
  BY <1>1, <1>2, <1>3, PermitMoves

-----------------------------------------------------------------------------
(* Types, and how far a request is. *)

\* Every step of a request moves it along its way (routes.rs, both handlers).
LEMMA ProgressStep ==
  TypeOK /\ ProgressInv /\ PermitConservation /\ [Next]_vars
    => TypeOK' /\ ProgressInv'
<1> SUFFICES ASSUME TypeOK, ProgressInv, PermitConservation, [Next]_vars
             PROVE  TypeOK' /\ ProgressInv'
  OBVIOUS
<1>0. StoreTypeOK' /\ permits' \in 0 .. MaxPermits
  BY StoreUse, StoreTypeStep, PermitStep DEF TypeOK
<1> USE GatewayAssumption, StoreAssumption
    DEF TypeOK, ProgressInv, Goto, End, Modes, Phases, Replies, storeVars,
        handlerVars, taskVars
<1>1. ASSUME NEW r \in Requests, Admit(r)
      PROVE  TypeOK' /\ ProgressInv'
  BY <1>0, <1>1 DEF Admit, AdmitMessage, AdmitResponses
<1>2. ASSUME NEW r \in Requests, Reject(r)
      PROVE  TypeOK' /\ ProgressInv'
  BY <1>0, <1>2 DEF Reject
<1>3. ASSUME NEW r \in Requests, Lead(r)
      PROVE  TypeOK' /\ ProgressInv'
  BY <1>0, <1>3 DEF Lead
<1>4. ASSUME NEW r \in Requests, Join(r)
      PROVE  TypeOK' /\ ProgressInv'
  BY <1>0, <1>4 DEF Join, Subscribe, StoreTypeOK
<1>5. ASSUME NEW r \in Requests, Awake(r)
      PROVE  TypeOK' /\ ProgressInv'
  <2>1. sent[sub[r]] \in Messages
    BY <1>5 DEF Awake, Receive, StoreTypeOK
  <2>2. CASE sent[sub[r]] = Cancelled
    BY <1>0, <1>5, <2>2 DEF Awake
  <2>3. CASE sent[sub[r]] # Cancelled
    BY <1>0, <1>5, <2>1, <2>3 DEF Awake, Messages
  <2> QED
    BY <2>2, <2>3
<1>6. ASSUME NEW r \in Requests, CacheHit(r)
      PROVE  TypeOK' /\ ProgressInv'
  BY <1>0, <1>6 DEF CacheHit
<1>7. ASSUME NEW r \in Requests, CacheMiss(r) \/ Panic(r)
      PROVE  TypeOK' /\ ProgressInv'
  BY <1>0, <1>7 DEF CacheMiss, Panic
<1>8. ASSUME NEW r \in Requests, AcquirePermit(r) \/ PermitTimeout(r)
      PROVE  TypeOK' /\ ProgressInv'
  BY <1>0, <1>8 DEF AcquirePermit, PermitTimeout
<1>9. ASSUME NEW r \in Requests, UpstreamAnswers(r)
      PROVE  TypeOK' /\ ProgressInv'
  BY <1>0, <1>9 DEF UpstreamAnswers
<1>10. ASSUME NEW r \in Requests, UpstreamFails(r)
       PROVE  TypeOK' /\ ProgressInv'
  BY <1>0, <1>10 DEF UpstreamFails
<1>11. ASSUME NEW r \in Requests, CacheStore(r)
       PROVE  TypeOK' /\ ProgressInv'
  BY <1>0, <1>11 DEF CacheStore
<1>12. ASSUME NEW r \in Requests, Respond(r)
       PROVE  TypeOK' /\ ProgressInv'
  BY <1>0, <1>12 DEF Respond, RespondMessage, RespondResponses
<1>13. ASSUME NEW r \in Requests, ClientGone(r)
       PROVE  TypeOK' /\ ProgressInv'
  BY <1>0, <1>13 DEF ClientGone
<1>14. ASSUME NEW r \in Requests, LedgerTask(r)
       PROVE  TypeOK' /\ ProgressInv'
  <2>1. UNCHANGED handlerVars /\ ledger' \subseteq Requests
    BY <1>14 DEF LedgerTask, LedgerOpens, LedgerOpenFails, CompleteFlight,
                 Record, RecordFails
  <2>2. \E a, b \in {"open", "complete", "record", "end"} :
          task[r] = a /\ task' = [task EXCEPT ![r] = b]
    BY <1>14 DEF LedgerTask, GotoTask, LedgerOpens, LedgerOpenFails,
                 CompleteFlight, Record, RecordFails
  <2> QED
    BY <1>0, <2>1, <2>2
<1>15. CASE UNCHANGED vars
  BY <1>0, <1>15 DEF vars
<1> QED
  BY <1>1, <1>2, <1>3, <1>4, <1>5, <1>6, <1>7, <1>8, <1>9, <1>10, <1>11,
     <1>12, <1>13, <1>14, <1>15
  DEF Next, Handler

-----------------------------------------------------------------------------
(* Flights and their owners. *)

\* What the flight properties know of the state before a step.
Core == TypeOK /\ ProgressInv /\ StoreInv /\ FlightInv

\* A flight stays in the registry until its owner completes it (routes.rs:
\* complete on a cache hit and in the spawned task).
LEMMA FlightStep == Core /\ [Next]_vars => FlightInv'
<1> SUFFICES ASSUME Core, [Next]_vars
             PROVE  FlightInv'
  OBVIOUS
<1> USE GatewayAssumption, StoreAssumption
    DEF Core, TypeOK, StoreTypeOK, ProgressInv, FlightInv, Owns, Flying, Goto,
        End, Modes, Phases, storeVars, handlerVars, taskVars
<1>1. ASSUME NEW r \in Requests, Admit(r)
      PROVE  FlightInv'
  BY <1>1 DEF Admit, AdmitMessage, AdmitResponses
<1>2. ASSUME NEW r \in Requests, Reject(r)
      PROVE  FlightInv'
  BY <1>2 DEF Reject
<1>3. ASSUME NEW r \in Requests, Lead(r)
      PROVE  FlightInv'
  <2>1. /\ key[r] \in Keys
        /\ pending[key[r]] = NoRequest
        /\ pending' = [pending EXCEPT ![key[r]] = r]
        /\ UNCHANGED <<mode, key, carry, task>>
        /\ mode[r] = "shielded"
    BY <1>3 DEF Lead, Forward
  <2>2. \A k \in Keys : k # key[r] => pending'[k] = pending[k]
    BY <2>1
  <2>3. \A q \in Requests : q # r => (Owns(q)' <=> Owns(q))
    BY <1>3, <2>1 DEF Lead
  <2>4. pending'[key[r]] = r /\ phase'[r] = "lookup"
    BY <1>3, <2>1 DEF Lead
  <2>5. \A q \in Requests : q # r => phase'[q] = phase[q]
    BY <1>3 DEF Lead
  <2>6. \A q \in Requests : Owns(q)' => pending'[key'[q]] = q
    BY <2>1, <2>2, <2>3, <2>4
  <2>7. \A k \in Keys : pending'[k] # NoRequest =>
          /\ key'[pending'[k]] = k
          /\ mode'[pending'[k]] = "shielded"
          /\ phase'[pending'[k]] \notin {"new", "acquire", "waiting"}
    BY <2>1, <2>2, <2>4, <2>5
  <2> QED
    BY <2>6, <2>7
<1>4. ASSUME NEW r \in Requests, Join(r)
      PROVE  FlightInv'
  BY <1>4 DEF Join, Subscribe
<1>5. ASSUME NEW r \in Requests, Awake(r)
      PROVE  FlightInv'
  BY <1>5 DEF Awake, Receive
<1>6. ASSUME NEW r \in Requests, CacheHit(r)
      PROVE  FlightInv'
  <2>1. CASE mode[r] = "shielded"
    BY <1>6, <2>1 DEF CacheHit, Complete, Resolve
  <2>2. CASE mode[r] # "shielded"
    BY <1>6, <2>2 DEF CacheHit
  <2> QED
    BY <2>1, <2>2
<1>7. ASSUME NEW r \in Requests, CacheMiss(r) \/ Panic(r)
      PROVE  FlightInv'
  BY <1>7 DEF CacheMiss, Panic
<1>8. ASSUME NEW r \in Requests, AcquirePermit(r) \/ PermitTimeout(r)
      PROVE  FlightInv'
  BY <1>8 DEF AcquirePermit, PermitTimeout
<1>9. ASSUME NEW r \in Requests, UpstreamAnswers(r) \/ UpstreamFails(r)
      PROVE  FlightInv'
  BY <1>9 DEF UpstreamAnswers, UpstreamFails
<1>10. ASSUME NEW r \in Requests, CacheStore(r)
       PROVE  FlightInv'
  BY <1>10 DEF CacheStore
<1>11. ASSUME NEW r \in Requests, Respond(r)
       PROVE  FlightInv'
  BY <1>11 DEF Respond, RespondMessage, RespondResponses
<1>12. ASSUME NEW r \in Requests, ClientGone(r)
       PROVE  FlightInv'
  BY <1>12 DEF ClientGone, Unsubscribe
<1>13. ASSUME NEW r \in Requests, LedgerOpens(r) \/ LedgerOpenFails(r)
       PROVE  FlightInv'
  BY <1>13 DEF LedgerOpens, LedgerOpenFails, GotoTask
<1>14. ASSUME NEW r \in Requests, CompleteFlight(r)
       PROVE  FlightInv'
  <2>1. CASE carry[r] # NoKey
    BY <1>14, <2>1 DEF CompleteFlight, GotoTask, Complete, Resolve
  <2>2. CASE carry[r] = NoKey
    BY <1>14, <2>2 DEF CompleteFlight, GotoTask
  <2> QED
    BY <2>1, <2>2
<1>15. ASSUME NEW r \in Requests, Record(r) \/ RecordFails(r)
       PROVE  FlightInv'
  BY <1>15 DEF Record, RecordFails, GotoTask
<1>16. CASE UNCHANGED vars
  BY <1>16 DEF vars
<1> QED
  BY <1>1, <1>2, <1>3, <1>4, <1>5, <1>6, <1>7, <1>8, <1>9, <1>10, <1>11,
     <1>12, <1>13, <1>14, <1>15, <1>16
  DEF Next, Handler, LedgerTask

-----------------------------------------------------------------------------
(* Answers. *)

\* Channels carry the response of their leader (routes.rs: both complete calls).
LEMMA AnswerStep == Core /\ AnswerInv /\ [Next]_vars => AnswerInv'
<1> SUFFICES ASSUME Core, AnswerInv, [Next]_vars
             PROVE  AnswerInv'
  OBVIOUS
<1> USE GatewayAssumption, StoreAssumption
    DEF Core, TypeOK, StoreTypeOK, ProgressInv, AnswerInv, Goto, End, Modes,
        Phases, storeVars, handlerVars, taskVars
<1>1. ASSUME NEW r \in Requests, Admit(r)
      PROVE  AnswerInv'
  BY <1>1 DEF Admit, AdmitMessage, AdmitResponses, FlightInv, StoreInv,
              NoDeafWaiter, Registered
<1>2. ASSUME NEW r \in Requests, Reject(r)
      PROVE  AnswerInv'
  BY <1>2 DEF Reject
<1>3. ASSUME NEW r \in Requests, Lead(r)
      PROVE  AnswerInv'
  BY <1>3 DEF Lead, Forward
<1>4. ASSUME NEW r \in Requests, Join(r)
      PROVE  AnswerInv'
  BY <1>4 DEF Join, Subscribe, Free, FlightInv
<1>5. ASSUME NEW r \in Requests, Awake(r)
      PROVE  AnswerInv'
  BY <1>5 DEF Awake, Receive
<1>6. ASSUME NEW r \in Requests, CacheHit(r)
      PROVE  AnswerInv'
  <2>1. CASE mode[r] = "shielded"
    BY <1>6, <2>1 DEF CacheHit, Complete, Resolve, FlightInv, Owns, Flying
  <2>2. CASE mode[r] # "shielded"
    BY <1>6, <2>2 DEF CacheHit
  <2> QED
    BY <2>1, <2>2
<1>7. ASSUME NEW r \in Requests, CacheMiss(r) \/ Panic(r)
      PROVE  AnswerInv'
  BY <1>7 DEF CacheMiss, Panic
<1>8. ASSUME NEW r \in Requests, AcquirePermit(r) \/ PermitTimeout(r)
      PROVE  AnswerInv'
  BY <1>8 DEF AcquirePermit, PermitTimeout
<1>9. ASSUME NEW r \in Requests, UpstreamAnswers(r) \/ UpstreamFails(r)
      PROVE  AnswerInv'
  BY <1>9 DEF UpstreamAnswers, UpstreamFails
<1>10. ASSUME NEW r \in Requests, CacheStore(r) \/ Respond(r)
       PROVE  AnswerInv'
  BY <1>10 DEF CacheStore, Respond, RespondMessage, RespondResponses
<1>11. ASSUME NEW r \in Requests, ClientGone(r)
       PROVE  AnswerInv'
  BY <1>11 DEF ClientGone, Unsubscribe
<1>12. ASSUME NEW r \in Requests, CompleteFlight(r)
       PROVE  AnswerInv'
  <2>1. CASE carry[r] # NoKey
    BY <1>12, <2>1 DEF CompleteFlight, GotoTask, Complete, Resolve, FlightInv, Owns
  <2>2. CASE carry[r] = NoKey
    BY <1>12, <2>2 DEF CompleteFlight
  <2> QED
    BY <2>1, <2>2
<1>13. ASSUME NEW r \in Requests,
              \/ LedgerOpens(r) \/ LedgerOpenFails(r) \/ Record(r) \/ RecordFails(r)
       PROVE  AnswerInv'
  BY <1>13 DEF LedgerOpens, LedgerOpenFails, Record, RecordFails
<1>14. CASE UNCHANGED vars
  BY <1>14 DEF vars
<1> QED
  BY <1>1, <1>2, <1>3, <1>4, <1>5, <1>6, <1>7, <1>8, <1>9, <1>10, <1>11,
     <1>12, <1>13, <1>14
  DEF Next, Handler, LedgerTask

\* A request that has a response keeps it, with its key and its way.
Settled(l) ==
  source[l] # "none" =>
    /\ source'[l] = source[l]
    /\ body'[l] = body[l]
    /\ key'[l] = key[l]
    /\ mode'[l] = mode[l]
    /\ joined'[l] = joined[l]

\* Only Awake makes a request coalesced; no step changes a settled request.
LEMMA SettledStep ==
  ASSUME TypeOK, ProgressInv, [Next]_vars
  PROVE  /\ \A l \in Requests : Settled(l)
         /\ \A l \in Requests : source'[l] = "coalesced" =>
              source[l] = "coalesced" \/ Awake(l)
<1> DEFINE Goal == /\ \A l \in Requests : Settled(l)
                   /\ \A l \in Requests : source'[l] = "coalesced" =>
                        source[l] = "coalesced" \/ Awake(l)
<1> USE DEF TypeOK, ProgressInv, Goto, End, Settled, handlerVars
<1>1. ASSUME NEW r \in Requests, Admit(r) \/ Reject(r) \/ Lead(r) \/ Join(r)
      PROVE  Goal
  BY <1>1 DEF Admit, AdmitMessage, AdmitResponses, Reject, Lead, Join
<1>2. ASSUME NEW r \in Requests, Awake(r)
      PROVE  Goal
  <2>1. \A l \in Requests : l # r => source'[l] = source[l] /\ body'[l] = body[l]
    BY <1>2 DEF Awake
  <2>2. source[r] = "none"
    BY <1>2 DEF Awake
  <2> QED
    BY <1>2, <2>1, <2>2 DEF Awake
<1>3. ASSUME NEW r \in Requests, CacheHit(r) \/ CacheMiss(r) \/ Panic(r)
      PROVE  Goal
  BY <1>3 DEF CacheHit, CacheMiss, Panic
<1>4. ASSUME NEW r \in Requests,
             \/ AcquirePermit(r) \/ PermitTimeout(r)
             \/ UpstreamAnswers(r) \/ UpstreamFails(r)
      PROVE  Goal
  BY <1>4 DEF AcquirePermit, PermitTimeout, UpstreamAnswers, UpstreamFails
<1>5. ASSUME NEW r \in Requests, CacheStore(r) \/ Respond(r) \/ ClientGone(r)
      PROVE  Goal
  BY <1>5 DEF CacheStore, Respond, RespondMessage, RespondResponses, ClientGone
<1>6. ASSUME NEW r \in Requests, LedgerTask(r)
      PROVE  Goal
  BY <1>6 DEF LedgerTask, LedgerOpens, LedgerOpenFails, CompleteFlight, Record,
              RecordFails
<1>7. CASE UNCHANGED vars
  BY <1>7 DEF vars
<1> QED
  BY <1>1, <1>2, <1>3, <1>4, <1>5, <1>6, <1>7 DEF Next, Handler

\* A waiter that wakes takes over the response of its leader (routes.rs, the
\* Coalesced arm), which no later step changes.
LEMMA CoalescedStep ==
  Core /\ AnswerInv /\ CoalescedAnswers /\ [Next]_vars => CoalescedAnswers'
<1> SUFFICES ASSUME Core, AnswerInv, CoalescedAnswers, [Next]_vars,
                    NEW r \in Requests, source'[r] = "coalesced"
             PROVE  CoalescedAnswers!(r)'
  BY DEF CoalescedAnswers
<1>0. /\ \A l \in Requests : Settled(l)
      /\ source[r] = "coalesced" \/ Awake(r)
  BY SettledStep DEF Core
<1>1. CASE source[r] = "coalesced"
  BY <1>0, <1>1 DEF CoalescedAnswers, Settled
<1>2. CASE source[r] # "coalesced" /\ Awake(r)
  <2>1. /\ sub[r] \in Requests
        /\ sub[r] # r
        /\ sent[sub[r]] # NoMsg
        /\ sent[sub[r]] # Cancelled
    BY <1>2, StoreAssumption
    DEF Awake, Receive, Core, TypeOK, StoreTypeOK, StoreInv, OneRole
  <2>2. /\ body'[r] = sent[sub[r]]
        /\ joined'[r] = joined[r]
        /\ key'[r] = key[r]
    BY <1>2, <2>1 DEF Awake, Core, TypeOK
  <2>3. /\ joined[r] = sub[r]
        /\ key[sub[r]] = key[r]
        /\ mode[sub[r]] = "shielded"
        /\ sent[sub[r]] = body[sub[r]]
        /\ source[sub[r]] \in {"upstream", "hit"}
    BY <2>1, StoreAssumption DEF AnswerInv
  <2>4. /\ key'[sub[r]] = key[r]
        /\ mode'[sub[r]] = "shielded"
        /\ body'[sub[r]] = sent[sub[r]]
        /\ source'[sub[r]] \in {"upstream", "hit"}
    BY <1>0, <2>1, <2>3 DEF Settled
  <2> QED
    BY <2>1, <2>2, <2>3, <2>4
<1> QED
  BY <1>0, <1>1, <1>2

-----------------------------------------------------------------------------
(* The inductive invariant. *)

\* At start no request holds a permit, leads a flight or waits.
LEMMA GatewayInit == Init => IInv
<1> SUFFICES ASSUME Init
             PROVE  IInv
  OBVIOUS
<1> USE GatewayAssumption, StoreAssumption DEF Init, StoreInit
<1>1. TypeOK
  BY DEF TypeOK, StoreTypeOK, Phases, Modes, Replies
<1>2. PermitConservation
  <2>1. Holders = {}
    BY DEF Holders
  <2> QED
    BY <2>1, FS_EmptySet DEF PermitConservation
<1>3. ProgressInv
  BY DEF ProgressInv
<1>4. StoreInv
  BY StoreInitInv
<1>5. FlightInv
  BY DEF FlightInv, Owns, Flying
<1>6. AnswerInv /\ CoalescedAnswers
  BY DEF AnswerInv, CoalescedAnswers
<1> QED
  BY <1>1, <1>2, <1>3, <1>4, <1>5, <1>6 DEF IInv

\* Every step preserves every part; the parts need one another.
LEMMA GatewayStep == IInv /\ [Next]_vars => IInv'
<1> SUFFICES ASSUME IInv, [Next]_vars
             PROVE  IInv'
  OBVIOUS
<1> USE DEF IInv
<1>1. StoreInv'
  BY StoreUse, StoreInvStep
<1>2. PermitConservation'
  BY PermitStep
<1>3. TypeOK' /\ ProgressInv'
  BY ProgressStep
<1>4. FlightInv' /\ AnswerInv' /\ CoalescedAnswers'
  BY FlightStep, AnswerStep, CoalescedStep DEF Core
<1> QED
  BY <1>1, <1>2, <1>3, <1>4

\* The invariant holds in every state the gateway reaches.
THEOREM GatewayInvariant == Spec => []IInv
  BY GatewayInit, GatewayStep, PTL DEF Spec

\* Every variable keeps its type, and the free permits stay between zero and
\* the configured number (upstream_semaphore, server.rs).
THEOREM GatewayTypes == Spec => []TypeOK
<1>1. IInv => TypeOK
  BY DEF IInv
<1> QED
  BY <1>1, GatewayInvariant, PTL

\* No way out of a handler loses or invents a permit (routes.rs: the permit
\* lives in the block or the frame that the request leaves).
THEOREM GatewayPermits == Spec => []PermitConservation
<1>1. IInv => PermitConservation
  BY DEF IInv
<1> QED
  BY <1>1, GatewayInvariant, PTL

\* Of the shielded requests with one flight key, at most one is between
\* try_acquire and the end of its upstream call (routes.rs, messages).
THEOREM GatewayOneUpstream == Spec => []OneUpstreamPerKey
<1>1. IInv => OneUpstreamPerKey
  BY DEF IInv, FlightInv, Owns, OneUpstreamPerKey
<1> QED
  BY <1>1, GatewayInvariant, PTL

\* A coalesced request has the response of the flight it joined, and that
\* flight had its own key (routes.rs, the Coalesced arm).
THEOREM GatewayCoalesced == Spec => []CoalescedAnswers
<1>1. IInv => CoalescedAnswers
  BY DEF IInv
<1> QED
  BY <1>1, GatewayInvariant, PTL

-----------------------------------------------------------------------------
(* Steps of the registry, seen from the handlers. *)

\* What OwnerResolves says of one step.
Resolves ==
  \A k \in Keys : pending[k] # NoRequest /\ pending'[k] # pending[k] =>
    /\ pending'[k] = NoRequest
    /\ source'[pending[k]] \in {"upstream", "hit"}
    /\ sent'[pending[k]] = body'[pending[k]]

\* Only a cache hit and the ledger task end a flight, each with the response
\* of the request that leads it.
LEMMA ResolvesStep == IInv /\ [Next]_vars => Resolves
<1> SUFFICES ASSUME IInv, [Next]_vars,
                    NEW k \in Keys, pending[k] # NoRequest, pending'[k] # pending[k]
             PROVE  /\ pending'[k] = NoRequest
                    /\ source'[pending[k]] \in {"upstream", "hit"}
                    /\ sent'[pending[k]] = body'[pending[k]]
  BY DEF Resolves
<1> USE GatewayAssumption, StoreAssumption
    DEF IInv, TypeOK, StoreTypeOK, ProgressInv, FlightInv, Owns, Flying, Goto,
        handlerVars, storeVars
<1>1. ASSUME NEW r \in Requests, Lead(r)
      PROVE  FALSE
  BY <1>1 DEF Lead, Forward
<1>2. ASSUME NEW r \in Requests, Join(r) \/ Awake(r)
      PROVE  FALSE
  BY <1>2 DEF Join, Awake, Subscribe, Receive
<1>3. ASSUME NEW r \in Requests, CacheHit(r)
      PROVE  /\ r = pending[k]
             /\ pending'[k] = NoRequest
             /\ source'[r] = "hit"
             /\ sent'[r] = body'[r]
  BY <1>3 DEF CacheHit, Complete, Resolve
<1>4. ASSUME NEW r \in Requests, ClientGone(r)
      PROVE  FALSE
  BY <1>4 DEF ClientGone, Unsubscribe
<1>5. ASSUME NEW r \in Requests, CompleteFlight(r)
      PROVE  /\ r = pending[k]
             /\ pending'[k] = NoRequest
             /\ source'[r] = "upstream"
             /\ sent'[r] = body'[r]
  BY <1>5 DEF CompleteFlight, GotoTask, Complete, Resolve
<1>6. ASSUME NEW r \in Requests,
             \/ Admit(r) \/ Reject(r) \/ CacheMiss(r) \/ Panic(r)
             \/ AcquirePermit(r) \/ PermitTimeout(r)
             \/ UpstreamAnswers(r) \/ UpstreamFails(r)
             \/ CacheStore(r) \/ Respond(r)
      PROVE  FALSE
  BY <1>6 DEF Admit, AdmitMessage, AdmitResponses, Reject, CacheMiss, Panic,
              AcquirePermit, PermitTimeout, UpstreamAnswers, UpstreamFails,
              CacheStore, Respond, RespondMessage, RespondResponses
<1>7. ASSUME NEW r \in Requests,
             \/ LedgerOpens(r) \/ LedgerOpenFails(r) \/ Record(r) \/ RecordFails(r)
      PROVE  FALSE
  BY <1>7 DEF LedgerOpens, LedgerOpenFails, Record, RecordFails
<1>8. CASE UNCHANGED vars
  BY <1>8 DEF vars
<1> QED
  BY <1>1, <1>2, <1>3, <1>4, <1>5, <1>6, <1>7, <1>8
  DEF Next, Handler, LedgerTask

\* No request ends the flight of another (routes.rs: complete by key).
THEOREM GatewayOwnerResolves == Spec => OwnerResolves
<1>1. IInv /\ [Next]_vars => [Resolves]_vars
  BY ResolvesStep
<1> QED
  BY <1>1, GatewayInvariant, PTL DEF Spec, OwnerResolves, Resolves

\* Handlers and ledger tasks come together with the actions of the registry.
LEMMA GatewayIsStore == Spec => StoreSpec
<1>1. Init => StoreInit
  BY DEF Init
<1>2. IInv /\ [Next]_vars => [StoreNext]_storeVars
  BY StoreUse DEF IInv
<1> QED
  BY <1>1, <1>2, GatewayInvariant, PTL DEF Spec, StoreSpec

\* The gateway as a whole gives each key a single flight at a time
\* (coalesce.rs in the hands of routes.rs).
THEOREM GatewaySingleFlight == Spec => ImplementsSingleFlight
  BY GatewayIsStore, StoreImplementsSingleFlight, PTL
=============================================================================
