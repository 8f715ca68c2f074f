SPECIFICATION Spec
CONSTANTS
  NumDevices = 3
  NakLimit = 2
  RetryLimit = 2
  Reports <- MCReports
  Plugs <- MCPlugs
  MaxChanges = 2
  MaxFaults = 1
  Settle = 1
  ClockPeriod = 3
PROPERTIES DisconnectCleans
