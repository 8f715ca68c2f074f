SPECIFICATION Spec
CONSTANTS
  Tiles = 3
  Prefetch = 33
  cycle_count = 50
  VcopyFirst = 27
  VcopyLast = 28
  Lines = 3
  scanline_count = 5
  Columns = 4
  LastRow = 1
  MaxRow = 3
  FineRows = 2
  Scrolls <- MCScrolls
  FineX = {0, 7}
  Unset = unset
INVARIANTS TypeOK PixelsInPlace
PROPERTIES ImplementsPicture
