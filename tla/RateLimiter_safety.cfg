SPECIFICATION Spec
CONSTANTS
  c1 = c1
  c2 = c2
  p1 = p1
  p2 = p2
  Clients = {c1, c2}
  Requests = {p1, p2}
  None = None
  Cost = 1
  Full = 2
  EntryTTL = 3
  MaxDelay = 1
  MaxClock = 8
SYMMETRY Symmetry
INVARIANTS TypeOK SpentWithinRate
PROPERTIES ForgetsIdle ImplementsBuckets
