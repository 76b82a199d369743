SPECIFICATION Spec
CONSTANTS
  Registered <- ToolAndChannel
  HostLines <- LifecycleLines
  MaxLines = 1
  MaxEmits = 0
  Unencodable = {"initialize"}
  Panics = FALSE
  WriterFaults = FALSE
INVARIANT AnsweredInTurn
