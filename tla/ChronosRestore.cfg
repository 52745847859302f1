SPECIFICATION ChronosSpec
CONSTANTS
  Poller = {p1}
  DailyCap = 2
  MonthlyCap = 3
  MaxSpend = 2
  MaxDay = 1
  MaxDeaths = 0
PROPERTIES
  ResetRestoresBuilder
