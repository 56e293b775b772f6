SPECIFICATION AccountsSpec
CONSTANTS
  Owner = u1  Nobody = Nobody
  Users = {u1, u2}
  Handlers = {h1, h2}
  maxLoginFailures = 2
  lockDuration = 1
  sessionLifetime = 0
  MaxStreak = 3
  MaxNow = 2
SYMMETRY Symmetry
INVARIANTS
  LockIsEarned
  SerialTriesCount
  LastAccountGuarded
CHECK_DEADLOCK FALSE
