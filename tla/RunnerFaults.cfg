SPECIFICATION FairSpec
CONSTANTS
  Registered = {"provider"}
  HostLines <- StreamLines
  MaxLines = 2
  MaxEmits = 1
  Unencodable = {"provider_stream_message"}
  Panics = TRUE
  WriterFaults = TRUE
INVARIANTS
  ResponsesInOrder
  CodesAreHonest
PROPERTIES
  ServesInTurn
