SPECIFICATION Spec
CONSTANTS
  NumCpu = 2
  GicIf <- MCGicIf
  Itn = 64
  Ppi <- MCPpi
  Spi <- MCSpi
  TrigIrqs <- MCTrigIrqs
  Cmd = {tlb}
  MaxRaise = 2
INVARIANTS NoLostIpi NoStuckActive
PROPERTIES MaskedStaysQuiet IpiHandled
CHECK_DEADLOCK FALSE
