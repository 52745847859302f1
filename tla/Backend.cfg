SPECIFICATION BackendSpec
CONSTANTS
  Parts = {"mirror", "budget"}
  Sub = {s1}
  MaxVersion = 4
  Poller = {p1, p2}
  DailyCap = 1
  MonthlyCap = 2
  MaxSpend = 1
  MaxDay = 1
  MaxDeaths = 1
CHECK_DEADLOCK FALSE
INVARIANTS
  BackendTypeOK
  OrderedMirrorTracksStripe
  DeletedOnlyIfCanceled
  NewDayStartsFresh
PROPERTIES
  CanceledIsRemoved
  SpendIsCappedInTheEnd
