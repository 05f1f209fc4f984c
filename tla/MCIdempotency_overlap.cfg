SPECIFICATION OverlapSpec
CONSTANTS
  a1 = a1 a2 = a2 a3 = a3 b1 = b1
  keyA = keyA keyB = keyB body = body otherBody = otherBody
  Free = Free NoResponse = NoResponse
  Reqs <- MCReqs Resources = {keyA, keyB} Bodies = {body, otherBody}
  ResOf <- MCResOf BodyOf <- MCBodyOf Faults <- OnlyOverlap
  ann = ann  here = here  there = there  near = near  n1 = n1  n2 = n2  n3 = n3  n4 = n4  n5 = n5  n6 = n6  n7 = n7  n8 = n8
  Names = {ann}  Places = {here, there, near}  Address <- MCAddress  Entries = {n1, n2, n3, n4, n5, n6, n7, n8}  Entry <- MCEntry
  KnownAtFirst = {}  LoginMax = 2  MaxEntries = 3  MaxAtOnce = 2
INVARIANTS AtMostOneEffect
