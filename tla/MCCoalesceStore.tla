-------------------------- MODULE MCCoalesceStore ---------------------------
(* The registry with a handful of callers, any of which may call any method  *)
(* at any time.  Callers, keys and responses are interchangeable.            *)
EXTENDS CoalesceStore, TLC

StoreSymmetry ==
  Permutations(Requests) \cup Permutations(Keys) \cup Permutations(Responses)
=============================================================================
