SPECIFICATION OSpec
CONSTANTS
  DEPTH = 4
  DW = 2
  CW = 2
  MAX_COMMIT_BR = 1
  MAX_COMMIT_ST = 1
  MAX_COMMIT_LD = 2
  Regs <- MCRegs
  Uops <- MCUopsSfence
  MaxId = 5
  Ports = {1}
  EPOCHS = 8
INVARIANT OperandIsProgramValue
