SPECIFICATION Spec
CONSTANTS
  r1 = r1
  r2 = r2
  Requests = {r1, r2}
  MaxInFlight = 1
INVARIANTS ReplayableIsEditable
