CONSTANTS
  g = g  p = p  pd = pd  q = q  qd = qd  qe = qe  e = e  ed = ed  ee = ee
  l1 = l1  l2 = l2  k = k  l3 = l3  ld = ld  nd = nd
  NoObj = NoObj
  Obj <- MCObj
  Pto <- MCPto
  parent <- MCparent
  getEmbObj <- MCgetEmbObj
  isDummy <- MCisDummy
  type <- MCtype
  RecurTypes = {"list"}
  SameTypes <- MCSameTypes
  MAX_EQV_OBJ_ITER = 3
  MAX_EQV_OBJ_NUM = 16
  MAX_EQV_OBJ_ENUM_CNT = 0
  Queries <- MCQueries
SPECIFICATION LiveSpec
INVARIANTS PathsLead CachesExact Converse
PROPERTY Answered
