SPECIFICATION Spec
CONSTANTS
  Channel = {"pulse"}
  Step2 = 3
  End0 = 6
  End1 = 7
  Length = {1, 2}
INVARIANTS TypeOK InhibitedFlagIsDown
PROPERTIES ClearedWhenReturned NoHalfClockLost LengthExpires
