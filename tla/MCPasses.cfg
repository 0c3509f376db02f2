CONSTANTS
  Block <- MCBlock
  entryBB <- MCEntryBB
  host <- MCHost
  succ <- MCSucc
  params <- MCParams
  Pointee <- MCPointee
  Home <- MCHome
  LockPairs <- MCLocks
  WordBits = 3
  IntBits = 3
  MaxBlocks = 9
  Entries <- Run
  Module <- MCModule
  Order <- MCOrder
SPECIFICATION MCSpec
INVARIANTS ExecutedIsLive ValuesConstrained KillersKill UnlockPaired TraitExact
