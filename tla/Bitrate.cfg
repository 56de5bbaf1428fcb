SPECIFICATION FairSpec
CONSTANTS
  Min = 18
  Max = 26
  Initial = 20
  Increase = 2
  Cooldown = 2
  Window = 3
  EventCap = 1
  ControlCap = 2
  RebuildMayFail = TRUE
  EncoderMayDie = TRUE
  MaxDue = 2
INVARIANT DeferralBounded
INVARIANT CutsPerBacklog
INVARIANT AppliedIsArriving
PROPERTY CutsAreSent
PROPERTY ReachesCeiling
