SPECIFICATION FairSpec
CONSTANTS
  loop = loop
  emitter = emitter
  NoWriter = NoWriter
  Writers <- TwoWriters
  MaxSends = 2
  WriterFaults = TRUE
INVARIANTS
  TypeOK
  MutualExclusion
  SharedTextIsFailed
  AcceptedEndsOneLine
  DecodableMeansAccepted
  CallOrder
PROPERTIES
  AtomicLines
  SendReturns
