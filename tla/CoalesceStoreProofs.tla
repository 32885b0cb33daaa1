------------------------ MODULE CoalesceStoreProofs -------------------------
(* The registry for any number of requests, keys and responses.            *)
EXTENDS CoalesceStore, TLAPS

-----------------------------------------------------------------------------
(* The lock-protected methods and recv() preserve the invariant.           *)

\* No method call, and no receive, leaves the store in a state of the wrong
\* type (coalesce.rs, every method).
LEMMA StoreTypeStep == StoreTypeOK /\ [StoreNext]_storeVars => StoreTypeOK'
<1> SUFFICES ASSUME StoreTypeOK, [StoreNext]_storeVars
             PROVE  StoreTypeOK'
  OBVIOUS
<1> USE DEF StoreTypeOK, Messages
<1>1. ASSUME NEW r \in Requests, NEW k \in Keys, Forward(r, k)
      PROVE  StoreTypeOK'
  BY <1>1 DEF Forward
<1>2. ASSUME NEW r \in Requests, NEW k \in Keys, Subscribe(r, k)
      PROVE  StoreTypeOK'
  BY <1>2 DEF Subscribe
<1>3. ASSUME NEW r \in Requests, Receive(r)
      PROVE  StoreTypeOK'
  BY <1>3 DEF Receive
<1>4. ASSUME NEW r \in Requests, Unsubscribe(r)
      PROVE  StoreTypeOK'
  BY <1>4 DEF Unsubscribe
<1>5. ASSUME NEW k \in Keys, NEW msg \in Messages, Resolve(k, msg)
      PROVE  StoreTypeOK'
  BY <1>5 DEF Resolve
<1>6. CASE UNCHANGED storeVars
  BY <1>6 DEF storeVars
<1> QED
  BY <1>1, <1>2, <1>3, <1>4, <1>5, <1>6
  DEF StoreNext, Complete, Cancel

\* A flight in the map has not been resolved, and no receiver is left on a
\* channel that nobody will use (try_acquire subscribes under the lock that
\* complete and cancel take).
LEMMA StoreInvStep == StoreInv /\ [StoreNext]_storeVars => StoreInv'
<1> SUFFICES ASSUME StoreInv, [StoreNext]_storeVars
             PROVE  PendingIsUnsent' /\ NoDeafWaiter' /\ OneRole'
  BY StoreTypeStep DEF StoreInv
<1> USE StoreAssumption
    DEF StoreInv, StoreTypeOK, Messages, PendingIsUnsent, NoDeafWaiter, OneRole,
        Registered
<1>1. ASSUME NEW r \in Requests, NEW k \in Keys, Forward(r, k)
      PROVE  PendingIsUnsent' /\ NoDeafWaiter' /\ OneRole'
  BY <1>1 DEF Forward, Free
<1>2. ASSUME NEW r \in Requests, NEW k \in Keys, Subscribe(r, k)
      PROVE  PendingIsUnsent' /\ NoDeafWaiter' /\ OneRole'
  BY <1>2 DEF Subscribe, Free
<1>3. ASSUME NEW r \in Requests, Receive(r)
      PROVE  PendingIsUnsent' /\ NoDeafWaiter' /\ OneRole'
  BY <1>3 DEF Receive
<1>4. ASSUME NEW r \in Requests, Unsubscribe(r)
      PROVE  PendingIsUnsent' /\ NoDeafWaiter' /\ OneRole'
  BY <1>4 DEF Unsubscribe
<1>5. ASSUME NEW k \in Keys, NEW msg \in Messages, Resolve(k, msg)
      PROVE  PendingIsUnsent' /\ NoDeafWaiter' /\ OneRole'
  <2>1. msg # NoMsg
    OBVIOUS
  <2>2. PendingIsUnsent'
    BY <1>5 DEF Resolve
  <2>3. NoDeafWaiter'
    BY <1>5, <2>1 DEF Resolve
  <2>4. OneRole'
    BY <1>5, <2>1 DEF Resolve
  <2> QED
    BY <2>2, <2>3, <2>4
<1>6. CASE UNCHANGED storeVars
  BY <1>6 DEF storeVars
<1> QED
  BY <1>1, <1>2, <1>3, <1>4, <1>5, <1>6
  DEF StoreNext, Complete, Cancel

\* An empty registry satisfies the invariant (coalesce.rs, new).
LEMMA StoreInitInv == StoreInit => StoreInv
  BY StoreAssumption
  DEF StoreInit, StoreInv, StoreTypeOK, Messages, PendingIsUnsent, NoDeafWaiter,
      OneRole, Registered

\* The invariant holds whatever the callers do (coalesce.rs, every method).
LEMMA StoreInvariant == StoreSpec => []StoreInv
  BY StoreInitInv, StoreInvStep, PTL DEF StoreSpec

\* A sender found in the map has broadcast nothing yet, and is in it under
\* one key only (coalesce.rs, try_acquire and complete).
THEOREM StorePendingIsUnsent == StoreSpec => []PendingIsUnsent
  BY StoreInvariant, PTL DEF StoreInv

\* No waiter is left on a channel that is silent and out of the map, so
\* recv() never reports a closed channel (coalesce.rs, try_acquire).
THEOREM StoreNoDeafWaiter == StoreSpec => []NoDeafWaiter
  BY StoreInvariant, PTL DEF StoreInv

-----------------------------------------------------------------------------
(* At most one message per channel, at most one answer per call.           *)

\* What was broadcast or received never changes afterwards (coalesce.rs,
\* complete and cancel remove the sender they use).
THEOREM StoreSendOnce == StoreSpec => SendOnce
<1> DEFINE Kept == \A r \in Requests :
                     /\ sent[r] # NoMsg => sent'[r] = sent[r]
                     /\ got[r] # NoMsg => got'[r] = got[r]
<1>1. StoreInv /\ [StoreNext]_storeVars => [Kept]_storeVars
  <2> SUFFICES ASSUME StoreInv, StoreNext
               PROVE  Kept
    OBVIOUS
  <2>1. CASE \E r \in Requests, k \in Keys : Forward(r, k) \/ Subscribe(r, k)
    BY <2>1 DEF Forward, Subscribe
  <2>2. ASSUME NEW r \in Requests, Receive(r)
        PROVE  Kept
    BY <2>2 DEF Receive, StoreInv, OneRole, StoreTypeOK
  <2>3. CASE \E r \in Requests : Unsubscribe(r)
    BY <2>3 DEF Unsubscribe
  <2>4. ASSUME NEW k \in Keys, NEW msg \in Messages, Resolve(k, msg)
        PROVE  Kept
    BY <2>4, StoreAssumption
    DEF Resolve, StoreInv, PendingIsUnsent, StoreTypeOK
  <2> QED
    BY <2>1, <2>2, <2>3, <2>4 DEF StoreNext, Complete, Cancel, Messages
<1> QED
  BY <1>1, StoreInvariant, PTL DEF StoreSpec, SendOnce

-----------------------------------------------------------------------------
(* The store implements SingleFlight.                                      *)

\* While a sender is in the map, its key is the one KeyOf chooses.
LEMMA KeyOfPending ==
  ASSUME StoreInv, NEW k \in Keys, pending[k] # NoRequest
  PROVE  /\ pending[k] \in Requests
         /\ KeyOf(pending[k]) = k
         /\ Registered(pending[k])
  BY DEF KeyOf, Registered, StoreInv, PendingIsUnsent, StoreTypeOK

\* The abstract state of every request, one case per role.
Roles ==
  \A r \in Requests :
    /\ \A k \in Keys : CallOf(r) = SF!Leading(k) <=> pending[k] = r
    /\ \A k \in Keys : CallOf(r) = SF!Waiting(k)
                         <=> sub[r] # NoRequest /\ pending[k] = sub[r]
    /\ sent[r] # NoMsg => CallOf(r) = Outcome(sent[r])
    /\ sub[r] # NoRequest /\ sent[sub[r]] # NoMsg
         => CallOf(r) = Outcome(sent[sub[r]])
    /\ got[r] # NoMsg => CallOf(r) = Outcome(got[r])
    /\ Free(r) => CallOf(r) = SF!Idle

\* The role of a request decides its abstract state.
LEMMA CallCases == StoreInv => Roles
<1> SUFFICES ASSUME StoreInv, NEW r \in Requests
             PROVE  Roles!(r)
  BY DEF Roles
<1> USE StoreAssumption
    DEF StoreInv, StoreTypeOK, Messages, PendingIsUnsent, NoDeafWaiter, OneRole,
        Registered
<1> USE DEF SF!Leading, SF!Waiting, SF!Idle, Outcome
<1>1. ASSUME NEW k \in Keys
      PROVE  CallOf(r) = SF!Leading(k) <=> pending[k] = r
  <2>1. CASE Registered(r)
    <3>1. PICK j \in Keys : pending[j] = r
      BY <2>1
    <3>2. CallOf(r) = SF!Leading(j)
      BY <2>1, <3>1, KeyOfPending DEF CallOf
    <3> QED
      BY <3>1, <3>2
  <2>2. CASE ~Registered(r)
    BY <2>2 DEF CallOf
  <2> QED
    BY <2>1, <2>2
<1>2. ASSUME NEW k \in Keys
      PROVE  CallOf(r) = SF!Waiting(k)
               <=> sub[r] # NoRequest /\ pending[k] = sub[r]
  <2>1. CASE sub[r] # NoRequest /\ sent[sub[r]] = NoMsg
    <3>1. PICK j \in Keys : pending[j] = sub[r]
      BY <2>1
    <3>2. CallOf(r) = SF!Waiting(j)
      BY <2>1, <3>1, KeyOfPending DEF CallOf
    <3> QED
      BY <2>1, <3>1, <3>2
  <2>2. CASE sub[r] # NoRequest /\ sent[sub[r]] # NoMsg
    BY <2>2 DEF CallOf
  <2>3. CASE sub[r] = NoRequest
    BY <2>3 DEF CallOf
  <2> QED
    BY <2>1, <2>2, <2>3
<1>3. ASSUME sent[r] # NoMsg
      PROVE  CallOf(r) = Outcome(sent[r])
  BY <1>3 DEF CallOf
<1>4. ASSUME sub[r] # NoRequest, sent[sub[r]] # NoMsg
      PROVE  CallOf(r) = Outcome(sent[sub[r]])
  BY <1>4 DEF CallOf
<1>5. ASSUME got[r] # NoMsg
      PROVE  CallOf(r) = Outcome(got[r])
  BY <1>5 DEF CallOf
<1>6. ASSUME Free(r)
      PROVE  CallOf(r) = SF!Idle
  BY <1>6 DEF CallOf, Free
<1> QED
  BY <1>1, <1>2, <1>3, <1>4, <1>5, <1>6

\* The same in the next state.
LEMMA CallCasesNext == StoreInv' => Roles'
  BY CallCases, PTL

\* A request in an unchanged role is in an unchanged abstract state.
LEMMA CallFrame ==
  ASSUME StoreInv, StoreInv', NEW q \in Requests,
         \A k \in Keys : pending'[k] = q <=> pending[k] = q,
         sub'[q] = sub[q], got'[q] = got[q], sent'[q] = sent[q],
         sub[q] # NoRequest =>
           /\ \A k \in Keys : pending'[k] = sub[q] <=> pending[k] = sub[q]
           /\ sent'[sub[q]] = sent[sub[q]]
  PROVE  CallOf(q)' = CallOf(q)
<1>1. Roles /\ Roles'
  BY CallCases, CallCasesNext
<1>2. CASE \E k \in Keys : pending[k] = q
  BY <1>1, <1>2 DEF Roles, SF!Leading
<1>3. CASE sent[q] # NoMsg
  BY <1>1, <1>3 DEF Roles, Outcome
<1>4. CASE sub[q] # NoRequest /\ sent[sub[q]] # NoMsg
  BY <1>1, <1>4 DEF Roles, Outcome
<1>5. CASE sub[q] # NoRequest /\ sent[sub[q]] = NoMsg
  BY <1>1, <1>5 DEF Roles, StoreInv, NoDeafWaiter, Registered, SF!Waiting
<1>6. CASE got[q] # NoMsg
  BY <1>1, <1>6 DEF Roles, Outcome
<1>7. CASE Free(q)
  <2>1. Free(q)'
    BY <1>7 DEF Free, Registered
  <2> QED
    BY <1>1, <1>7, <2>1 DEF Roles, SF!Idle
<1> QED
  BY <1>2, <1>3, <1>4, <1>5, <1>6, <1>7 DEF Free, Registered

\* Each step of the store is a step of SingleFlight or a stutter.
LEMMA StoreStepSimulation ==
  StoreInv /\ StoreInv' /\ [StoreNext]_storeVars => [SF!SFNext]_CallMap
<1> SUFFICES ASSUME StoreInv, StoreInv', [StoreNext]_storeVars
             PROVE  SF!SFNext \/ UNCHANGED CallMap
  OBVIOUS
<1> USE StoreAssumption
<1>0. Roles /\ Roles'
  BY CallCases, CallCasesNext
<1>1. ASSUME NEW r \in Requests, NEW k \in Keys, Forward(r, k)
      PROVE  SF!Lead(r, k)
  <2>1. \A q \in Requests \ {r} : CallOf(q)' = CallOf(q)
    <3> SUFFICES ASSUME NEW q \in Requests \ {r}
                 PROVE  CallOf(q)' = CallOf(q)
      OBVIOUS
    <3>1. sub[q] # r
      BY <1>1 DEF Forward, Free, StoreInv, NoDeafWaiter, Registered
    <3> QED
      BY <1>1, <3>1, CallFrame DEF Forward, StoreInv, StoreTypeOK
  <2>2. CallOf(r) = SF!Idle /\ ~SF!Led(k)
    BY <1>0, <1>1 DEF Forward, Roles, SF!Led, CallMap
  <2>3. CallOf(r)' = SF!Leading(k)
    BY <1>0, <1>1 DEF Forward, Roles, StoreInv, StoreTypeOK, SF!Leading
  <2> QED
    BY <2>1, <2>2, <2>3 DEF SF!Lead, CallMap, SF!Idle, SF!Leading
<1>2. ASSUME NEW r \in Requests, NEW k \in Keys, Subscribe(r, k)
      PROVE  SF!Join(r, k)
  <2>1. \A q \in Requests \ {r} : CallOf(q)' = CallOf(q)
    BY <1>2, CallFrame DEF Subscribe, StoreInv, StoreTypeOK
  <2>2. pending[k] \in Requests
    BY <1>2 DEF Subscribe, StoreInv, StoreTypeOK
  <2>3. CallOf(r) = SF!Idle /\ SF!Led(k)
    BY <1>0, <1>2, <2>2 DEF Subscribe, Roles, SF!Led, CallMap
  <2>4. CallOf(r)' = SF!Waiting(k)
    BY <1>0, <1>2 DEF Subscribe, Roles, StoreInv, StoreTypeOK, SF!Waiting
  <2> QED
    BY <2>1, <2>3, <2>4 DEF SF!Join, CallMap, SF!Idle, SF!Waiting
<1>3. ASSUME NEW r \in Requests, Receive(r)
      PROVE  UNCHANGED CallMap
  <2>1. \A q \in Requests \ {r} : CallOf(q)' = CallOf(q)
    BY <1>3, CallFrame DEF Receive, StoreInv, StoreTypeOK
  <2>2. CallOf(r)' = CallOf(r)
    BY <1>0, <1>3 DEF Receive, Roles, Outcome, StoreInv, StoreTypeOK
  <2> QED
    BY <2>1, <2>2 DEF CallMap
<1>4. ASSUME NEW r \in Requests, Unsubscribe(r)
      PROVE  SF!Leave(r)
  <2>1. \A q \in Requests \ {r} : CallOf(q)' = CallOf(q)
    BY <1>4, CallFrame DEF Unsubscribe, StoreInv, StoreTypeOK
  <2>2. Free(r)'
    BY <1>4 DEF Unsubscribe, Free, Registered, StoreInv, StoreTypeOK, OneRole
  <2>3. CallOf(r)' = SF!Idle
    BY <1>0, <2>2 DEF Roles, SF!Idle
  <2>4. \A k \in Keys : CallOf(r) # SF!Leading(k)
    BY <1>0, <1>4 DEF Unsubscribe, Roles, StoreInv, OneRole, Registered
  <2> QED
    BY <2>1, <2>3, <2>4 DEF SF!Leave, CallMap, SF!Idle, SF!Leading
<1>5. ASSUME NEW k \in Keys, NEW msg \in Messages, Resolve(k, msg)
      PROVE  SF!Land(k, Outcome(msg)) \/ UNCHANGED CallMap
  <2>1. CASE pending[k] = NoRequest
    <3>1. pending' = pending /\ sent' = sent
      BY <1>5, <2>1 DEF Resolve, StoreInv, StoreTypeOK
    <3> QED
      BY <1>5, <3>1, CallFrame DEF Resolve, CallMap
  <2>2. CASE pending[k] # NoRequest
    <3>1. pending[k] \in Requests /\ msg # NoMsg
      BY <2>2 DEF StoreInv, StoreTypeOK, Messages
    <3>2. SF!Led(k)
      BY <1>0, <3>1 DEF Roles, SF!Led, CallMap
    <3>3. ASSUME NEW q \in Requests
          PROVE  CallOf(q)' = IF CallOf(q) \in {SF!Leading(k), SF!Waiting(k)}
                              THEN Outcome(msg) ELSE CallOf(q)
      <4>1. CASE q = pending[k]
        BY <1>0, <1>5, <3>1, <4>1 DEF Resolve, Roles, Outcome
      <4>2. CASE sub[q] = pending[k]
        BY <1>0, <1>5, <2>2, <3>1, <4>2 DEF Resolve, Roles, Outcome
      <4>3. CASE q # pending[k] /\ sub[q] # pending[k]
        <5>1. CallOf(q) \notin {SF!Leading(k), SF!Waiting(k)}
          BY <1>0, <4>3 DEF Roles
        <5>2. CallOf(q)' = CallOf(q)
          BY <1>5, <2>2, <3>1, <4>3, CallFrame
          DEF Resolve, StoreInv, StoreTypeOK, PendingIsUnsent
        <5> QED
          BY <5>1, <5>2
      <4> QED
        BY <4>1, <4>2, <4>3
    <3> QED
      BY <3>2, <3>3 DEF SF!Land, CallMap, SF!Leading, SF!Waiting
  <2> QED
    BY <2>1, <2>2
<1>6. CASE UNCHANGED storeVars
  BY <1>6, CallFrame DEF storeVars, CallMap
<1>7. \A msg \in Messages :
        \/ \E v \in Responses : Outcome(msg) = SF!Answered(v)
        \/ Outcome(msg) = SF!Failed
  BY DEF Messages, Outcome, SF!Answered, SF!Failed
<1> QED
  BY <1>1, <1>2, <1>3, <1>4, <1>5, <1>6, <1>7
  DEF StoreNext, Complete, Cancel, Messages, SF!SFNext

\* The registry is a single-flight service: one leader per key, and its
\* answer is the answer of everyone who waited for it (coalesce.rs).
THEOREM StoreImplementsSingleFlight == StoreSpec => ImplementsSingleFlight
<1>1. StoreInit => SF!SFInit
  <2> SUFFICES ASSUME StoreInit
               PROVE  \A r \in Requests : CallOf(r) = SF!Idle
    BY DEF SF!SFInit, CallMap, SF!Idle
  <2>1. Roles
    BY StoreInitInv, CallCases
  <2> QED
    BY <2>1, StoreAssumption DEF Roles, Free, Registered, StoreInit
<1> QED
  BY <1>1, StoreStepSimulation, StoreInvariant, PTL
  DEF StoreSpec, ImplementsSingleFlight, SF!SFSpec
=============================================================================
