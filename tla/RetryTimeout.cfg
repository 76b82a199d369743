SPECIFICATION Spec
CONSTANTS
  AttemptCounts = {2}
  Initials = {1}
  Max = 2
  GrowthNum = 2
  GrowthDen = 1
  Jitter = FALSE
  Errors <- CausesOrWrapped
INVARIANT TimeoutIsTransient
