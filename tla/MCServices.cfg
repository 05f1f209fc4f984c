SPECIFICATION ServicesSpec
CONSTANTS
  ann = ann  bob = bob
  b1 = b1  b2 = b2  b3 = b3  b4 = b4  x = x  y = y  z = z
  g1 = g1  g2 = g2  k1 = k1  k2 = k2  k3 = k3  k4 = k4  k5 = k5  k6 = k6  k7 = k7  k8 = k8  k9 = k9
  e1 = e1  e2 = e2  e3 = e3  e4 = e4  e5 = e5  e6 = e6  e7 = e7  e8 = e8  e9 = e9  f1 = f1  f2 = f2  f3 = f3  f4 = f4
  a1 = a1  a2 = a2  y1 = y1  y2 = y2  w1 = w1  w2 = w2  z1 = z1  z2 = z2
  d1 = d1  d2 = d2  d3 = d3  d4 = d4  d5 = d5  d6 = d6  d7 = d7  d8 = d8  d9 = d9
  x1 = x1  x2 = x2  x3 = x3  x4 = x4  x5 = x5  x6 = x6  x7 = x7  x8 = x8  x9 = x9
  u1 = u1  u2 = u2  u3 = u3  u4 = u4  u5 = u5  u6 = u6  u7 = u7
  Callers = {c1, c2, c3}  Threshold = 2  Free = free
  Purchases = {b1, b2, b3, b4}  Products = {x, y, z}  ListedAtFirst = {x}  Cart <- MCCart  Price <- MCPrice
  InitialStock <- MCStock  MaxAmount = 5  Nobody = nobody
  People = {ann, bob}  Groups = {g1, g2}  GroupOwner <- MCOwner  Closed = {g2}
  RunsAtFirst = {g1}  MembersAtFirst <- MCMembers
  GroupCalls = {k1, k2, k3, k4, k5, k6, k7, k8, k9, e1, e2, e3, e4, e5, e6, e7, e8, e9, f1, f2, f3, f4}
  GroupCall <- MCGroupCall  MaxGuidelines = 2  MaxGroupCalls = 3
  Requests = {r1, r2}
  Developers = {ann, bob}  Apps = {a1, a2}  AppOwner <- MCAppOwner
  Parts = {y1, y2, w1, w2, z1, z2}  PartOf <- MCPartOf  Keys = {y1, y2}  Hooks = {w1, w2}
  AppsAtFirst = {a1}  PartsAtFirst = {y1, w1, z1}
  DevCalls = {d1, d2, d3, d4, d5, d6, d7, d8, d9, x1, x2, x3, x4, x5, x6, x7, x8, x9, u1, u2, u3, u4, u5, u6, u7}  DevCall <- MCDevCall
  Connections = 2  MaxDevCalls = 2
  Visits = {v1, v2}  OfAuth = {v1, v2}  Bearing = {v1, v2}  Leaving = {v1}
  Window = 2  GlobalMax = 1  AuthMax = 1  FloodSpan = 1  FloodMax = 0  TokenEnds = 3  LastTick = 3
  p1 = p1  p2 = p2  p3 = p3  p4 = p4  p5 = p5  p6 = p6  p7 = p7  p8 = p8  p9 = p9
  q1 = q1  q2 = q2  q3 = q3  q4 = q4  q5 = q5  q6 = q6  q7 = q7  q8 = q8
  Users = {ann, bob}  Errands = {p1, p2, p3, p4, p5, p6, p7, p8, p9, q1, q2, q3, q4, q5, q6, q7, q8}  Errand <- MCErrand
  PageSize = 1  HistoryShown = 1  MaxErrands = 3
INVARIANTS StockIsSold OpenAtThreshold BansHold ProcessHolds KeptAndOwned PoolSuffices LimitHolds
PROPERTIES PurchasesEnd Recovers SignalEnds LoggedOutStaysOut
CHECK_DEADLOCK FALSE
