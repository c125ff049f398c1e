SPECIFICATION Spec
CONSTANTS
  NumCpu = 2
  NumGicr = 3
  GicrUnit <- MCGicrUnit
  ProcNum <- MCProcNum
  DevIdBits = 10
  CidBits = 4
  DtEntry = 8
  CtEntry = 8
  HwCollections = 0
  SlotsPerPage = 5
  Tries = 3
  MaxStall = 1
  CpuAff <- MCCpuAff
  ITLines = 3
  EspiLines = 1
  NumLpiBits = 3
  Ppi = {27}
  Spi <- MCSpi
  Espi <- MCEspi
  Lpi <- MCLpi
  Boards <- MCBoards
  Cmd = {tlb}
  MaxRaise = 1
  MaxAsk = 3
INVARIANTS EntriesDisjoint NoLostIpi LpisRight
PROPERTIES MaskedStaysQuiet
CHECK_DEADLOCK FALSE
