SPECIFICATION FairSpec
CONSTANTS
  Loop = Loop
  Emitters = {e1}
  NoWriter = NoWriter
  MaxCalls = 1
  MaxEmits = 2
  NoteMethods = {"log", "stream_chunk"}
  Unencodable = TRUE
  Signals = TRUE
  Provider = FALSE
  BufferSize = 2
  RequestSizes = {1, 3}
  ResultSizes = {1, 2}
INVARIANTS TypeOK NoCircularWait OwnResponse NotificationsKept StreamBeforeResult
PROPERTIES CallReturns RunReturns
CHECK_DEADLOCK FALSE
