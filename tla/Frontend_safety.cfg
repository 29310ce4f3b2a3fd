SPECIFICATION Page
CONSTANTS
  a = a
  b = b
  s = s
  t = t
  r1 = r1
  r2 = r2
  up = up
  junk = junk
  x = x
  x2 = x2
  y = y
  blank = blank
  Bad = Bad
  NoDraft = NoDraft
  Gone = Gone
  Off = Off
  SourceSeq <- TwoSources
  Servers <- TwoServers
  Catalogs <- Placements
  MaxRows <- FewRows
  MaxOrdinal = 3
  Relays <- TwoRelays
  Texts <- FourTexts
  Norm <- NormalForms
  MaxTags = 2
  MaxLines = 1
  Tags <- TwoRelays
  Names <- FourNames
  Blank = blank
  Given <- GivenNames
  Numbered <- Numbers
  RowBounds <- FewLines
  Services <- OneService
  Found <- Landings
  Offers <- Menus
  Links <- ServiceLinks
  ChainOffers <- FullMenu
  ChainLinks <- TargetLinks
  Renames <- JustX
  Targets <- OneService
  ChainRenames <- JustBlank
INVARIANTS PageTypeOK NothingTwice OnlyDraftsStray PrecheckSuffices RelaysDistinct OnlyUpdatersCrash FreshIsInitial MarksStayInPlace
PROPERTIES MergeKeepsGroups RestoreBringsBack ConfirmLosesNothing OnlyCopiesShare MarksKeepUp
