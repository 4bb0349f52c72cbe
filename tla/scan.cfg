SPECIFICATION FairSpec
CONSTANTS
  Keys <- ThreeKeys
  Types <- TwoTypes
  Matching <- Odd
  Counts <- PagesAndHuge
  Half = 32
INVARIANTS
  TypeOK
  StayersReturnedUnlessShifted
  BehindCursorSeen
PROPERTY
  ScanEnds
