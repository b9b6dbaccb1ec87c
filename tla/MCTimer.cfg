SPECIFICATION SpecUse
CONSTANTS
  a = a
  b = b
  e = e
  Global = Global
  Ids <- MCIds
  HighByteIds <- MCHighByteIds
  MaxDelay = 1
  MaxTime = 5
  MaxCalls = 6
INVARIANTS
  TypeOK
  CallgraphCovers
  ExclusiveIsCharged
  InclusiveIsSpanned
  ActiveIsOpen
  SubtimersFitTotal
  ElapsedGlobalCounts
SYMMETRY Symmetry
CHECK_DEADLOCK FALSE
