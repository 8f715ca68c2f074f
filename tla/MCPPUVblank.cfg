SPECIFICATION Spec
CONSTANTS
  R = 3
  Frame = 14
  SetTick = 3
  ClearTick = 12
INVARIANTS TypeOK FlagOnlyInVblank ClearedAtOnce
PROPERTIES LoweredOnlyWhenReported NmiSeenBeforeLowered
