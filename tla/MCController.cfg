SPECIFICATION Spec
CONSTANTS
  M = 3
  Width = 3
  Byte <- MCByte
INVARIANTS TypeOK SettledAtCpuEdge
PROPERTIES ImplementsPort
