SPECIFICATION Spec
CONSTANTS
  Request = {r1, r2, r3}
  NoOne = NoOne
  Attempts = 2
  MaxPurges = 1
  MaxCrashes = 1
INVARIANT TempsAccounted
PROPERTIES FilesStayWhole EveryDownloadEnds
CHECK_DEADLOCK FALSE
