CONSTANTS
  Threads = {"t"}
  RingSize = 1
  MaxCalls = 2
  MaxCaptured = 2
  BufferSize = 1
  SubBuffer = 1
  EngineBuffer = 1
  DropOnFull = FALSE
  Modules <- MCModules
  Sticky <- MCSticky
SPECIFICATION FairSpec
INVARIANTS TypeOK EndToEnd OwnArgs
PROPERTIES EventuallyWritten Ends
CHECK_DEADLOCK FALSE
