SPECIFICATION Spec
CONSTANTS
  Shops = {s1, s2, s3}
  Listings = {l1}
  Handlers = {h1, h2}
  Nobody = Nobody
  ListingReportLimit = 2
  ListingDays = 2
  contactsPerDay = 2
  DayLength = 2
  MaxNow = 2
SYMMETRY Symmetry
INVARIANTS
  ReportsDecide
  ContactsBounded
PROPERTIES
  ClosedStaysClosed
CHECK_DEADLOCK FALSE
