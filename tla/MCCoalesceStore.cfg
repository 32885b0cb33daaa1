SPECIFICATION StoreSpec
CONSTANTS
  Requests = {r1, r2, r3, r4, r5}
  Keys = {k1, k2}
  Responses = {v1, v2}
  NoRequest = NoRequest
  NoMsg = NoMsg
  Cancelled = Cancelled
SYMMETRY StoreSymmetry
INVARIANTS
  NoDeafWaiter
PROPERTIES
  ImplementsSingleFlight
