SPECIFICATION FairSpec
CONSTANTS
  Requests = {r1, r2, r3}
  Keys = {k1}
  Responses = {v1}
  NoRequest = NoRequest
  NoMsg = NoMsg
  Cancelled = Cancelled
  MaxPermits = 1
  Faults = {"upstream_error", "client_gone", "panic", "ledger_error"}
  NoKey = NoKey
PROPERTIES
  HandlersFinish
CHECK_DEADLOCK FALSE
