CONSTANTS
  PageSize = 2
  FullRamPaddr = 4
  StartupSize = 2
  RamSize = 4
  TempSize = 2
  MaxRamList = 6
  MaxAvoidList = 6
  Limit = 26
  MaxGiven = 4
  Bank <- MCBank
  Resmem <- MCResmem
  AllocReq <- MCAllocReq
  WsReq <- MCWsReq
  ReserveReq <- MCReserveReq
  BoardRam <- MCBoardRam
  Trees <- MCTrees
  Maps <- MCMaps
  RegChunk = 8
  RetryMax = 2
  MaxEvents = 3
SPECIFICATION InfoSpec
INVARIANTS MemoryExact FirmwareKept ServicesLeft
PROPERTIES PoolKept
CHECK_DEADLOCK FALSE
