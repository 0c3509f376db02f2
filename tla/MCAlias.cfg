CONSTANTS
  Block <- MCBlock
  entryBB <- MCEntryBB
  host <- MCHost
  succ <- MCSucc
  params <- MCParams
  Order <- MCOrder
  FieldTypes <- MCFieldTypes
  PointeeTy <- MCPointeeTy
  Globals <- MCGlobals
  Presets <- MCPresets
  Allocators = {"malloc"}
  Deallocators = {"free"}
  ListTypes = {}
  PutFunctions = {}
  Tables <- MCTables
  InvalidRets <- MCInvalidRets
  MaxBlocks = 8
  Plans <- MCPlans
  Module <- MCModule
SPECIFICATION Spec
INVARIANTS PointersCovered ConUAFKept SeqUAFKept
