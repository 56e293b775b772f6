SPECIFICATION Spec
CONSTANTS
  p1 = p1  p2 = p2  acc = acc
  Requests = {r1, r2, r3}
  Phones = {p1, p2}
  Accounts = {acc}
  Card = Card
  Forms <- MCForms
  PaidAmounts = {3}
  ReviewThresholdKRW = 4
  RepeatWatchCount = 3
  RepeatHoldCount = 3
  AccountSharingPhones = 2
  PayoutCeilingKRW = 2
  Window30d = 0
  MaxNow = 1
  MaxFlagged = 1
SYMMETRY Symmetry
INVARIANTS
  RepeatersHeld
  SharersReviewed
  UnreviewedPayoutBounded
PROPERTIES
  FlaggedNeverSlips
CHECK_DEADLOCK FALSE
