SPECIFICATION Spec
CONSTANTS
  R = 3
  Byte <- MCByte
  VAddr <- MCVAddr
  V0 = 0
  NextTemp <- MCNextTemp
  Advance <- MCAdvance
  IncBit = {1}
  Palette <- MCPalette
  Cell <- MCCell
  CellOf <- MCCellOf
  Writable <- MCWritable
  Undriven = undriven
  BusCycles <- MCBusCycles
  DoubleReads = FALSE
PROPERTIES PaletteReadFillsBufferFromVram
