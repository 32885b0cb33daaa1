--------------------------- MODULE CoalesceStore ----------------------------
(***************************************************************************)
(* The in-flight registry of the request shield (shield/coalesce.rs).      *)
(*                                                                         *)
(* The store is a mutex around a map from flight key to the sender of a    *)
(* broadcast channel of capacity 1.  Each method takes the lock once and   *)
(* never across an await, so a method is one step; the only other step is  *)
(* the waiter's recv(), which happens outside the lock at a later time.    *)
(*                                                                         *)
(* A sender is created by exactly one caller and a caller creates at most  *)
(* one, so the leading request names the channel.                          *)
(***************************************************************************)
CONSTANTS
  Requests,     \* callers of try_acquire
  Keys,         \* flight keys: url | fingerprint | trust domain | policy hash
  Responses,    \* CapturedResponse values
  NoRequest,    \* no leader / no receiver
  NoMsg,        \* nothing sent, nothing received
  Cancelled     \* the None that cancel() broadcasts

ASSUME StoreAssumption ==
  /\ NoRequest \notin Requests
  /\ NoMsg \notin Responses
  /\ Cancelled \notin Responses
  /\ NoMsg # Cancelled

VARIABLES
  pending,      \* pending[k]: the leader whose sender the map holds under k
  sent,         \* sent[l]: what was broadcast on the channel of leader l
  sub,          \* sub[r]: the leader on whose channel r holds a receiver
  got           \* got[r]: what recv() returned to r

storeVars == <<pending, sent, sub, got>>

Messages == Responses \cup {Cancelled}

\* One type invariant: what each variable of the store may hold.
StoreTypeOK ==
  /\ pending \in [Keys -> Requests \cup {NoRequest}]
  /\ sent \in [Requests -> Messages \cup {NoMsg}]
  /\ sub \in [Requests -> Requests \cup {NoRequest}]
  /\ got \in [Requests -> Messages \cup {NoMsg}]

StoreInit ==
  /\ pending = [k \in Keys |-> NoRequest]
  /\ sent = [r \in Requests |-> NoMsg]
  /\ sub = [r \in Requests |-> NoRequest]
  /\ got = [r \in Requests |-> NoMsg]

-----------------------------------------------------------------------------
Registered(l) == \E k \in Keys : pending[k] = l

\* r is not inside a call of the store and has not led or been answered.
Free(r) ==
  /\ ~Registered(r)
  /\ sent[r] = NoMsg
  /\ sub[r] = NoRequest
  /\ got[r] = NoMsg

\* Mutant of Forward: insert without looking whether the key is occupied.
ForwardOverwrites(r, k) ==
  /\ Free(r)
  /\ pending' = [pending EXCEPT ![k] = r]
  /\ UNCHANGED <<sent, sub, got>>

\* try_acquire, key vacant: insert a fresh sender and return Forward.
Forward(r, k) ==
  /\ Free(r)
  /\ pending[k] = NoRequest
  /\ pending' = [pending EXCEPT ![k] = r]
  /\ UNCHANGED <<sent, sub, got>>

\* try_acquire, key occupied: subscribe to its sender under the same lock.
Subscribe(r, k) ==
  /\ Free(r)
  /\ pending[k] # NoRequest
  /\ sub' = [sub EXCEPT ![r] = pending[k]]
  /\ UNCHANGED <<pending, sent, got>>

\* recv() returns what the sender broadcast, and the receiver is dropped.
Receive(r) ==
  /\ sub[r] # NoRequest
  /\ sent[sub[r]] # NoMsg
  /\ got' = [got EXCEPT ![r] = sent[sub[r]]]
  /\ sub' = [sub EXCEPT ![r] = NoRequest]
  /\ UNCHANGED <<pending, sent>>

\* The future awaiting recv() is dropped, and its receiver with it.
Unsubscribe(r) ==
  /\ sub[r] # NoRequest
  /\ sub' = [sub EXCEPT ![r] = NoRequest]
  /\ UNCHANGED <<pending, sent, got>>

\* remove(key), then send on the removed sender; nothing when the key is gone.
Resolve(k, msg) ==
  /\ pending' = [pending EXCEPT ![k] = NoRequest]
  /\ sent' = [l \in Requests |-> IF l = pending[k] THEN msg ELSE sent[l]]
  /\ UNCHANGED <<sub, got>>

Complete(k, resp) == Resolve(k, resp)

\* Mutant of Cancel: drop the entry without telling the waiters.
CancelSilently(k) ==
  /\ pending' = [pending EXCEPT ![k] = NoRequest]
  /\ UNCHANGED <<sent, sub, got>>

Cancel(k) == Resolve(k, Cancelled)

StoreNext ==
  \/ \E r \in Requests, k \in Keys : Forward(r, k) \/ Subscribe(r, k)
  \/ \E r \in Requests : Receive(r) \/ Unsubscribe(r)
  \/ \E k \in Keys, resp \in Responses : Complete(k, resp)
  \/ \E k \in Keys : Cancel(k)

StoreSpec == StoreInit /\ [][StoreNext]_storeVars

-----------------------------------------------------------------------------
(***************************************************************************)
(* Properties of the store, for any callers.                               *)
(***************************************************************************)

\* A caller leads one flight at a time, and while the map holds its sender
\* nothing has been broadcast on it: whoever finds the sender in the map
\* subscribes before the only send, so no wake-up is lost between the map
\* lookup and recv().
PendingIsUnsent ==
  \A k \in Keys : pending[k] # NoRequest =>
    /\ sent[pending[k]] = NoMsg
    /\ \A j \in Keys : pending[j] = pending[k] => j = k

\* A receiver is never left on a channel that is both out of the map and
\* silent: it either has a message to read or a sender that can still send.
\* This is why recv() never reports Closed or Lagged.
NoDeafWaiter ==
  \A r \in Requests : sub[r] # NoRequest =>
    Registered(sub[r]) \/ sent[sub[r]] # NoMsg

\* A call has one role: it leads, or it waits, or it has its answer.
OneRole ==
  \A r \in Requests :
    /\ Registered(r) \/ sent[r] # NoMsg => sub[r] = NoRequest /\ got[r] = NoMsg
    /\ sub[r] # NoRequest => got[r] = NoMsg

StoreInv == StoreTypeOK /\ PendingIsUnsent /\ NoDeafWaiter /\ OneRole

\* A channel carries at most one message: what was broadcast on it, and what
\* a waiter read, never changes (capacity 1 is enough).
SendOnce ==
  [][\A r \in Requests :
       /\ sent[r] # NoMsg => sent'[r] = sent[r]
       /\ got[r] # NoMsg => got'[r] = got[r]]_storeVars

-----------------------------------------------------------------------------
(***************************************************************************)
(* The store implements SingleFlight: a message on the channel of a leader *)
(* counts as delivered to every receiver of that channel.                  *)
(***************************************************************************)
KeyOf(l) == CHOOSE k \in Keys : pending[k] = l

Outcome(msg) ==
  IF msg = Cancelled THEN [st |-> "failed"] ELSE [st |-> "answered", resp |-> msg]

CallOf(r) ==
  IF Registered(r) THEN [st |-> "leading", key |-> KeyOf(r)]
  ELSE IF sent[r] # NoMsg THEN Outcome(sent[r])
  ELSE IF sub[r] # NoRequest THEN
         IF sent[sub[r]] # NoMsg THEN Outcome(sent[sub[r]])
         ELSE [st |-> "waiting", key |-> KeyOf(sub[r])]
  ELSE IF got[r] # NoMsg THEN Outcome(got[r])
  ELSE [st |-> "idle"]

CallMap == [r \in Requests |-> CallOf(r)]

SF == INSTANCE SingleFlight WITH call <- CallMap

\* Every step of the store is a step of the abstract single-flight service,
\* or changes nothing there.
ImplementsSingleFlight == SF!SFSpec
=============================================================================
