SPECIFICATION Spec
CONSTANTS
  c1 = c1
  c2 = c2
  c3 = c3
  default = default
  other = other
  Callers = {c1, c2}
  Templates = {default, other}
  Default = default
  TTL <- ShortTTL
  Nobody = Nobody
  NoEntry = NoEntry
  MaxVersion = 1
  MaxTick = 2
SYMMETRY CallerSymmetry
INVARIANTS TypeOK SingleFlight ServedAsPromised MonotoneReads
PROPERTIES DefaultSurvivesOutage
