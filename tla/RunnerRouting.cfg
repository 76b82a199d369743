SPECIFICATION Spec
CONSTANTS
  Registered <- MostKinds
  HostLines <- AllRequests
  MaxLines = 1
  MaxEmits = 0
  Unencodable = {"stt_transcribe"}
  Panics = TRUE
  WriterFaults = TRUE
INVARIANTS
  NotFoundMeansUnserved
  
