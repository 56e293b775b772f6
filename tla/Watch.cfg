SPECIFICATION Spec
CONSTANTS
  m1 = m1  m2 = m2  s1 = s1  s2 = s2
  Machines = {m1}
  Stores = {s1}
  StoreOf <- MCStoreOfOne
  threshold = 1
  DayLength = 3
  digestHour = 2
  ZoneShift = 1
  Lag = 1
  Nothing = Nothing
  MaxNow = 5
  MaxReports = 2
  MaxRestarts = 1
  MaxExcused = 1
  MaxPass = 1
INVARIANTS
  AlertsApart
  DigestIsFinal

  
CHECK_DEADLOCK FALSE
