CONSTANTS
  PageSize = 2
  NPte4K = 4
  NPte64K = 8
  Contig4K = 2
  Contig64K = 4
  L1L1 = 1
  L1L2 = 2
  L2L2 = 3
  UserPages = 64
  BasePage = 96
  NumCpus = {1, 2}
  Startup <- MCStartup
  Pools <- MCPools
  Files <- MCFiles
  Callouts <- MCCallouts
  SyspageSize = 3
  Images <- MCImages
  MemSize = 32
  EmNative = "aarch64"
  DataNative = "lsb"
  Trees <- MCTrees
  CellBase = 16
  FDT_MAX_NCELLS = 4
  MaxCalls = 3
  MaxCpu = 3
  Lines <- MCLines
  MaxArgs = 19
  Half = 128
  Kilo = 1024
  Thousand = 1000
  NumberOf <- MCNumberOf
  Boards <- MCBoards
  Known <- MCKnown
  AARCH64_IDDUMP_ENTRIES = 2
  Machines <- MCMachines
  BufferSize = 4
  MaxChars = 5
  TagSize <- MCTagSize
  TagAlign <- MCTagAlign
  Attrs <- MCAttrs
  Names = {"dev"}
  MaxItems = 3
  Types = {"m", "h"}
  Texts <- MCTexts
  Word = 4
  Chunk = 6
  MaxAdds = 3
SPECIFICATION LineSpec
INVARIANT SectionsSeen
CHECK_DEADLOCK FALSE
