SPECIFICATION FairSpec
CONSTANTS
  DEPTH = 3
  DW = 2
  CW = 2
  MAX_COMMIT_BR = 1
  MAX_COMMIT_ST = 1
  MAX_COMMIT_LD = 2
  Regs <- MCRegs
  Uops <- MCUops
  MaxId = 4
INVARIANTS Window ExecutedOnce RatExact ExceptionAtHead RobInv
PROPERTIES ImplementsInOrder HeadLeaves
