SPECIFICATION DevicesSpec
CONSTANTS
  Timeout = 8
  StartTime = 3
  BootTime = 7
  Latency = 1
  Width = 32
  WdtSmcId = 3
  CommandLines <- MCCommandLines
  Tables <- MCTables
  Opts <- MCOpts
  Bars <- MCBars
  Msg <- MCMsg
  KMsg <- MCKMsg
  Keys <- MCKeys
  Depth = 2
  Polls = 3
  Chips = {"mc146818", "ds1743", "rtc72423", "ds15x1", "ds1386", "m48t37", "m48t5x"}
  Starts <- MCStarts
  MaxTicks = 3
  Freqs = {1, 3, 6, 7, 8, 1000, 1638, 1639, 9999, 16383}
  Ticks = {1, 9, 100, 1234}
  UMax = 16383
  ULMax = 65535
  NsScale = 4
  MsiChips = {"msi", "qoriq", "pcie"}
  Ctls = 3
  Regs = 2
  MsiWidth = 2
  Used = {0, 1, 2, 5, 9}
  Codes = {1, 7}
  Ports = {8, 12, 23}
  MaxRaise = 3
  MaxAsk = 2
  MemEnd = 11
  Below4G = 7
  Banks <- MCBanks
  Areas <- MCAreas
  Requests <- MCRequests
  MaxEntries = 11
INVARIANTS ResetForCause LineRight ConversionsRight MsiRight AsInfoRight
PROPERTIES UnattendedIsReset CalloutReturns Served
CHECK_DEADLOCK FALSE
