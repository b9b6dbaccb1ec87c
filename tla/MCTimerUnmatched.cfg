SPECIFICATION SpecUse
CONSTANTS
  a = a
  b = b
  e = e
  Global = Global
  Ids <- MCIds
  HighByteIds <- MCHighByteIds
  MaxDelay = 1
  MaxTime = 5
  MaxCalls = 6
PROPERTY
  SamplesNeedBegin
CHECK_DEADLOCK FALSE
