SPECIFICATION FairSpec
CONSTANTS
  Registered <- ToolAndChannel
  HostLines <- LifecycleLines
  MaxLines = 1
  MaxEmits = 0
  Unencodable = {}
  Panics = FALSE
  WriterFaults = FALSE
PROPERTY SignalReturns
