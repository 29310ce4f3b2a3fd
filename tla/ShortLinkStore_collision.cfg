SPECIFICATION Spec
CONSTANTS
  c1 = c1
  c2 = c2
  c3 = c3
  k1 = k1
  k2 = k2
  k3 = k3
  s1 = s1
  s2 = s2
  s3 = s3
  Clients = {c1}
  NoClient = NoClient
  StateKeys = {k1, k2, k3}
  ShortIDs = {s1, s2, s3}
  ShortIDOf <- CollidingIDs
  Bases = {b1}
  Capacities = {1}
  Radix = 2
  MaxTick = 4
  MaxRowid = 4
PROPERTIES CollisionFailsClosed
