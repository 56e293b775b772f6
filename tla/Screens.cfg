SPECIFICATION Spec
CONSTANTS
  m1 = m1  m2 = m2
  Claims = {1, 2, 3}
  Machines = {m1, m2}
  Active = {m1, m2}
  Arriving = {"pending"}
  MachineOf <- MCMachineOf
  Asked <- MCAsked
  Filters <- MCFilters
  Limit = 1
  DayLength = 2
  ZoneShift = 1
  Lag = 1
  MaxNow = 3
INVARIANTS
  PagesShowEachOnce
  ScreensShowMoneyOut
  OldestPromiseShown
  SettlementAddsUp
CHECK_DEADLOCK FALSE
