SPECIFICATION Spec
CONSTANTS
  N = 3
  Byte = {0, 1}
  Zero = 0
  RamPage = {"zero", "one"}
  RamOf <- MCRamOf
  RegPage = 1
  RegLow = 1
  OpenBus = 0
  HoldsOwnPage = TRUE
PROPERTIES ImplementsCopy
