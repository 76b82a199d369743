SPECIFICATION FairSpec
CONSTANTS
  Loop = Loop
  Emitters = {e1}
  NoWriter = NoWriter
  MaxCalls = 1
  MaxEmits = 1
  NoteMethods = {"log"}
  Unencodable = FALSE
  Signals = FALSE
  Provider = FALSE
  BufferSize = 0
  RequestSizes = {1, 2}
  ResultSizes = {1}
PROPERTY EveryCallReturns
CHECK_DEADLOCK FALSE
