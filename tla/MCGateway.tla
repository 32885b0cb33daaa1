----------------------------- MODULE MCGateway ------------------------------
(* The gateway with a handful of requests.  Requests and responses are       *)
(* interchangeable in the invariants and action properties.                  *)
EXTENDS Gateway, TLC

GatewaySymmetry ==
  Permutations(Requests) \cup Permutations(Keys) \cup Permutations(Responses)
=============================================================================
