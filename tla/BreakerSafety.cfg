SPECIFICATION FairSpec
CONSTANTS
  c1 = c1
  c2 = c2
  c3 = c3
  Callers <- ThreeCallers
  Threshold = 2
  Cooldown = 2
INVARIANTS
  TypeOK
  ThresholdDecides
PROPERTIES
  NoCallDuringCooldown
  FailedProbeReopens
  AdmitsAgain
