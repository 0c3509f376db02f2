CONSTANTS
  Func <- F
  Decl <- D
  Call <- MCCall
  Block <- B
  Entries <- MCEntries
  Order <- OrderOf
  Passes <- Len
  Calls <- MCCalls
  Callees <- CalleesOf
  Inferred <- MCInferred
  MayKill <- MCKill
  MAX_LOOP_CNT = 2
  MAX_CALLSITE_DEPTH = 2
  MAX_FUNC_PTR = 2
SPECIFICATION LiveSpec
INVARIANTS NothingForgotten
PROPERTIES OncePerContext Ends
