SPECIFICATION FairSpec
CONSTANTS
  r1 = r1 r2 = r2 r3 = r3
  ann = ann bob = bob eve = eve Ann = Ann bad = bad
  NoId = NoId NoLock = NoLock
  MaxInt32 = 2
  Reqs <- MCReqs Names <- MCNames Ids <- MCUsers Users <- MCUsers Wallets <- MCWallets
  Amounts <- MCAmounts Parse <- MCParse Opening <- MCOpening Calls <- MCCalls
INVARIANTS NoOverdraft SettledOnce BooksBalance
PROPERTIES EveryRequestEnds ImplementsPromise
