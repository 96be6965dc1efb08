SPECIFICATION Spec
CONSTANTS
  Arm <- MCArm
  TaskLen = 98583
  Modes <- MCModes
  Flags <- MCFlags
  Halves <- MCHalves
  Counts <- MCCounts
INVARIANTS TypeOK ArmHoldsMode
PROPERTIES AnswersSpec RunsReturn
