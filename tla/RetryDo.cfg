SPECIFICATION FairSpec
CONSTANTS
  AttemptCounts = {0, 1, 4}
  Initials = {0, 2, 4}
  Max = 3
  GrowthNum = 3
  GrowthDen = 2
  Jitter = TRUE
  Errors <- CausesOrWrapped
INVARIANTS TypeOK ReturnIsTruthful OneLateCall WaitsBetweenCalls CancellationIsFinal
PROPERTY DoReturns
