SPECIFICATION Spec
CONSTANTS
  p1 = p1  p2 = p2  c1 = c1  c2 = c2
  k1 = k1  k2 = k2  k3 = k3  kuromi = kuromi
  Posts = {p1, p2}
  Counts = {c1, c2}
  Keys = {k1, k2, k3}
  Items = {kuromi}
  Form <- MCForm
  CountedQty <- MCCountedQty
  Today = 1
  Oldest = 1
  Skew = 1
  MaxInt = 9
  Nothing = Nothing
INVARIANTS
  PostsAnsweredTruly
  ReceiptsKept
  QuantityFollowsShelf
  SpentIsInStock
SYMMETRY Interchangeable
CHECK_DEADLOCK FALSE
