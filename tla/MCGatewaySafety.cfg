SPECIFICATION Spec
CONSTANTS
  Requests = {r1, r2, r3}
  Keys = {k1, k2}
  Responses = {v1, v2}
  NoRequest = NoRequest
  NoMsg = NoMsg
  Cancelled = Cancelled
  MaxPermits = 1
  Faults = {"upstream_error", "client_gone", "panic", "ledger_error"}
  NoKey = NoKey
SYMMETRY GatewaySymmetry
INVARIANTS
  PermitConservation
  OneUpstreamPerKey
  CoalescedAnswers
PROPERTIES
  OwnerResolves
CHECK_DEADLOCK FALSE
