SPECIFICATION Spec
CONSTANTS
  i1 = i1
  i2 = i2
  n1 = n1
  n2 = n2
  q1 = q1
  q2 = q2
  Blank = Blank
  Inputs = {Blank, i1, i2}
  Snaps = {n1, n2}
  NoSnap = NoSnap
  Oversized <- LongLinks
  Slots = {q1, q2}
  Load <- FewInFlight
  Typeable <- EnteredLinks
  NoCatalog = NoCatalog
  NoUrls = NoUrls
  NoLink = NoLink
  NoCall = NoCall

PROPERTIES ConflictedIsReadOnly
