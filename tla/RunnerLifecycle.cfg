SPECIFICATION FairSpec
CONSTANTS
  Registered <- ToolAndChannel
  HostLines <- LifecycleLines
  MaxLines = 3
  MaxEmits = 0
  Unencodable = {"stt_transcribe"}
  Panics = TRUE
  WriterFaults = FALSE
INVARIANTS
  TypeOK
  AnsweredInTurn
  InitializeComplete
  NotReadyStopsInitialize
  ShutdownAllOrNone
  NoCallAfterShutdown
  SignalStopsDispatch
PROPERTIES
  RequestAnswered
  EofReturns
