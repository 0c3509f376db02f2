CONSTANTS
  l1 = l1  f = f  k = k  u1 = u1  cv = cv  v = v
  l2 = l2  g = g  t = t  c = c  u = u  u2 = u2  l4 = l4  u4 = u4  w = w  d = d
  y = y  e = e  l3 = l3  z = z  u3 = u3  h = h
  BackEdge <- Loop
  Loc <- MCLoc
  Types <- MCTypes
  Reaches <- MCReaches
  Follows <- MCFollows
  Dom <- MCDom
  PostDom <- MCPostDom
  Warnings <- MCWarnings
  LockInfos <- MCLockInfos
  LockLoc <- MCLockLoc
  Unlocks <- MCUnlocks
  IsCtxPrefix <- MCIsCtxPrefix
  SameLockObjs <- SameObject
  CriticalBranches <- MCCriticalBranches
  EscapesLocalHeap <- MCEscapesLocalHeap
  MaxIterations = 3
  MaxLocs = 8
SPECIFICATION LiveSpec
INVARIANTS ThreadsExecutable InsertedAround MutualExclusion
PROPERTIES Answers RollbackExact BuildsSchedule
