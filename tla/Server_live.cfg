SPECIFICATION Server
CONSTANTS
  q1 = q1
  q2 = q2
  p1 = p1
  p2 = p2
  c1 = c1
  c2 = c2
  c3 = c3
  k1 = k1
  k3 = k3
  s1 = s1
  b1 = b1
  default = default
  NoEntry = NoEntry
  Requests = {q1, q2}
  Pages = {p1, p2}
  PageOf <- OnePageEach
  Nobody = Nobody
  Nothing = Nothing
  TTL = 1
  Timeout = 1
  MaxTick = 1
INVARIANTS StatusIsSound
PROPERTIES EveryoneIsAnswered
