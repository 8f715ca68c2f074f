SPECIFICATION Spec
CONSTANTS
  NSprites = 4
  Places = 3
  SlotCycles = 1
  ClearCycles = 3
  Passes = 2
  FetchCycles = 4
  cycle_count = 24
  Lines = 3
  scanline_count = 5
  Height = 2
  SpriteWidth = 2
  MaxX = 10
  Solid <- MCSolid
  OpaqueAt = {3, 5, 8, 12}
  Entries <- MCEntries
INVARIANTS TypeOK PlacesHoldFirst OverflowReported HitFound
PROPERTIES OverflowEarned HitIsSpriteZeros ScreenShows
