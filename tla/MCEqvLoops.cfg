CONSTANTS
  g = g  p = p  so = so  co = co  mo = mo  k = k  pd = pd  sd = sd  cd = cd
  l1 = l1  l2 = l2  ld = ld  nd = nd  w = w  l3 = l3
  NoObj = NoObj
  Obj <- MCObj
  Pto <- MCPto
  parent <- MCparent
  getEmbObj <- MCgetEmbObj
  isDummy <- MCisDummy
  type <- MCtype
  RecurTypes = {"list"}
  SameTypes <- MCSameTypes
  MAX_EQV_OBJ_ITER = 3
  MAX_EQV_OBJ_NUM = 2
  MAX_EQV_OBJ_ENUM_CNT = 0
  Queries <- MCQueries
SPECIFICATION Spec
INVARIANT AsFresh
