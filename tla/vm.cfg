SPECIFICATION Spec
CONSTANTS
  MaxRegs = 40
  MaxIndexRK = 3
  FieldsPerFlush = 2
  Chunks <- MCChunks
  Debugged <- MCDebugged
  BreakLines <- MCBreakLines
  InstLimit = 200
  LongSize = 5
  MaxLocals = 6
  Whitelist <- MCWhitelist
  Deployed = {}
  CutSizes <- MCCutSizes
INVARIANTS Agrees FrameSafe DumpLoads
 
CHECK_DEADLOCK FALSE
