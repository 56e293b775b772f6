SPECIFICATION Spec
CONSTANTS
  r1 = r1  r2 = r2  kim = kim lee = lee  claw1 = claw1  front = front  back = back
  Requests = {r1, r2}
  Emails = {kim, lee}
  Codes = {claw1}
  Labels = {front, back}
  Gates = {"ip", "signup"}
  Patches <- MCPatches
  Limit <- MCLimit
  Span <- MCSpan
  Nothing = Nothing
INVARIANTS
  PassesBounded
  SignedUpWhole
PROPERTIES
  UnsentKept
  ShutGateOpens
CHECK_DEADLOCK FALSE
