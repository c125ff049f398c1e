CONSTANTS
  Fixed = {"private"}
  Grown = {"strings"}
  SetSize <- MCSetSize
  GrowSize <- MCGrowSize
  AsSize = 1
  HdrSize = 1
  NumSlots = 1
  DebugSlots = {0}
  InitBase = 10
  InitMax = 7
  TempBase = 40
  TempMax = 9
  Rtn = {"plain", "rw", "spin"}
  RtnSize <- MCRtnSize
  RwOf <- MCRwOf
  RwSize <- MCRwSize
  Patched = {"rw"}
  SmpSpin = "spin"
  CacheAttr = {0}
  IntrData = {"gicd"}
  DbgDevice = "dbg"
  NoRw = "none"
  NoData = "nodata"
  PageSize = 32
  MaxSplits = 2
SPECIFICATION Spec
INVARIANTS Layout CalloutsRight
PROPERTIES StoreSpec
CHECK_DEADLOCK FALSE
