CONSTANTS
  b = b
  c = c
  d = d
  e = e
  Loc <- MCLoc
  Types <- MCTypes
  Reaches <- MCReaches
  Follows <- MCFollows
  Dom <- MCDom
  PostDom <- MCPostDom
  Trace <- MCTrace
SPECIFICATION Spec
INVARIANTS TypeOK NoDup Executable RejectionJustified
