CONSTANTS
  h = h  a = a  b = b  f1 = f1  f2 = f2  u1 = u1  u2 = u2  t = t
  Direct = Direct
  Obj <- MCObj
  Site <- MCSite
  freedObjs <- MCObj
  FreeSites <- MCFreeSites
  AccessSites <- MCAccessSites
  FwdEqv <- MCFwdEqv
  BwdEqv <- MCBwdEqv
  isDummy <- MCisDummy
  inPTEntry <- MCinPTEntry
  validateUAF <- MCvalidateUAF
SPECIFICATION Spec
INVARIANTS WarnedOnce OneAnswer AllAnswered FiredJustified PThreadComplete
