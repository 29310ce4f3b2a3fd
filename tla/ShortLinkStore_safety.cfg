SPECIFICATION Spec
CONSTANTS
  c1 = c1
  c2 = c2
  c3 = c3
  k1 = k1
  k2 = k2
  k3 = k3
  s1 = s1
  s2 = s2
  s3 = s3
  Clients = {c1, c2}
  NoClient = NoClient
  StateKeys = {k1, k2, k3}
  ShortIDs = {s1, s2}
  ShortIDOf <- CollidingIDs
  Bases = {b1, b2}
  Capacities = {1, 2}
  Radix = 1
  MaxTick = 1
  MaxRowid = 4
SYMMETRY ClientSymmetry
INVARIANTS TypeOK LinksAreBijective OverflowEndsAtFirstWrite
PROPERTIES WritesTrimExactly AnswersAreTruthful ImplementsDirectory EvictsEarliestSecond
