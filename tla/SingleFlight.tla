---------------------------- MODULE SingleFlight ----------------------------
(***************************************************************************)
(* What the request shield promises, without locks, maps or channels.      *)
(*                                                                         *)
(* At any time a key has at most one call that leads.  Calls that arrive   *)
(* while it leads wait, and the answer of the leader reaches all of them   *)
(* in one step.  `CoalesceStore' implements this with a map of broadcast   *)
(* senders, where the answer travels through a channel and each waiter     *)
(* reads it on its own time.                                               *)
(***************************************************************************)
CONSTANTS Requests, Keys, Responses

VARIABLE call       \* call[r]: where request r stands

-----------------------------------------------------------------------------
Idle        == [st |-> "idle"]
Leading(k)  == [st |-> "leading", key |-> k]
Waiting(k)  == [st |-> "waiting", key |-> k]
Answered(v) == [st |-> "answered", resp |-> v]
Failed      == [st |-> "failed"]

Led(k) == \E l \in Requests : call[l] = Leading(k)

\* Everyone on the flight of k, the leader and the waiters, ends in state s.
Land(k, s) ==
  /\ Led(k)
  /\ call' = [q \in Requests |->
                IF call[q] \in {Leading(k), Waiting(k)} THEN s ELSE call[q]]

-----------------------------------------------------------------------------
SFInit == call = [r \in Requests |-> Idle]

Lead(r, k) ==
  /\ call[r] = Idle
  /\ ~Led(k)
  /\ call' = [call EXCEPT ![r] = Leading(k)]

Join(r, k) ==
  /\ call[r] = Idle
  /\ Led(k)
  /\ call' = [call EXCEPT ![r] = Waiting(k)]

\* A caller that is not leading may walk away, whether or not an answer has
\* been sent to it.
Leave(r) ==
  /\ call[r] \notin {Leading(k) : k \in Keys}
  /\ call' = [call EXCEPT ![r] = Idle]

SFNext ==
  \/ \E r \in Requests, k \in Keys : Lead(r, k) \/ Join(r, k)
  \/ \E k \in Keys, v \in Responses : Land(k, Answered(v))
  \/ \E k \in Keys : Land(k, Failed)
  \/ \E r \in Requests : Leave(r)

SFSpec == SFInit /\ [][SFNext]_call
=============================================================================
