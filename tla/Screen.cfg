SPECIFICATION ScreenSpec
CONSTANTS
  Sizes <- MCSizes
  MaxCount = 2
  ScreenSizes <- MCScreenSizes
  FirstSize <- MCFirstSize
  HistoryLines = 5
  MaxHistory = 2
  BufLines = 3
  RingLines = 2
  MaxTexts = 3
  ScreenLines = 2
  HistoryMax = 3
  MaxDrawn = 2
  MaxAdded = 2
  MaxAway = 2
  MaxFollowed = 1
INVARIANTS
  CursorInside
  LsTypeOK
PROPERTIES
  StaysInRegion
  LeavingAltRestores
  TextKept
  CursorKeepsPlace
  TextIsSequences
  ViewStaysPut
  MarksFollowText
