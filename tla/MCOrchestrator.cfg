SPECIFICATION FairSpec
CONSTANTS
  realtime = realtime background = background
  w1 = w1 w2 = w2 w3 = w3
  t1 = t1 t2 = t2 t3 = t3 t4 = t4
  Idle = Idle Exited = Exited QueueCap = 1
  StopOrder <- MCStopOrder
  Workers = {w1, w2, w3} WorksFor <- MCWorksFor
  Tasks = {t1, t2, t3, t4} PoolOf <- MCPoolOf Ticks = {t4}
PROPERTIES AcceptedRuns StopReturns KeepsPromise
