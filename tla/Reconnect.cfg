SPECIFICATION Spec
CONSTANTS
  OptionSets <- Candidates
  Power2 <- Powers
  MaxFactor = 7
  UnitsPerMilli = 2
  OneDay = 40
  MostRetries = 5
  Counts <- SmallCounts
  Sizes <- SmallSizes
INVARIANTS DelayAsDocumented OutageBounded
PROPERTIES BackoffGrows
CHECK_DEADLOCK FALSE
