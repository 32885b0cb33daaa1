SPECIFICATION FairSpec
CONSTANTS
  Requests = {r1, r2}
  Keys = {k1}
  Responses = {v1}
  NoRequest = NoRequest
  NoMsg = NoMsg
  Cancelled = Cancelled
  MaxPermits = 2
  Faults = {"upstream_error"}
  NoKey = NoKey
PROPERTIES
  WaitersWake
CHECK_DEADLOCK FALSE
