SPECIFICATION Spec
CONSTANTS
  m1 = m1  m2 = m2  s1 = s1  s2 = s2
  Machines = {m1, m2}
  Stores = {s1, s2}
  StoreOf <- MCStoreOf
  threshold = 1
  DayLength = 2
  digestHour = 1
  ZoneShift = 1
  Lag = 0
  Nothing = Nothing
  MaxNow = 3
  MaxReports = 2
  MaxRestarts = 1
  MaxExcused = 1
  MaxPass = 1
SYMMETRY Symmetry
INVARIANTS
  NoBusyMachineForgotten
  DigestsBounded
CHECK_DEADLOCK FALSE
