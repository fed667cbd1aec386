SPECIFICATION InstantsSpec
CONSTANTS
  Millis = 5
  MilliTicks = 2
  Ticks = 10
  PerTick = 2
  Gap = 30
  FiletimeMin = 40
  Half = 2000
  Fine = 3
  Sixty = 4
  Inputs <- MCInputs
INVARIANTS
  FiletimeIsFloored
  EitherFormIsRead
  DurationIsElapsed
  NanosInRange
CHECK_DEADLOCK FALSE
