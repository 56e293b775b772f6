SPECIFICATION Spec
CONSTANTS
  Claims = {c1}
  Requests = {r1, r2, r3}
  Staff = {s1, s2}
  Link = Link
  Customer = Customer
  Nobody = Nobody
  Amounts <- MCAmounts
  SentAmounts <- MCSentAmounts
SYMMETRY Symmetry
INVARIANTS
  AuditChain
  LedgerMatchesLog
  ResolverIsLastAccount
  DetailNamesItsDecider
  OkMeansRecorded
PROPERTIES
  ImplementsBook
CHECK_DEADLOCK FALSE
