SPECIFICATION FairSpec
CONSTANTS
  Setups <- MCSetups
  MaxBlocks = 6
  MaxValues = 3
INVARIANTS RingSound
PROPERTIES AnswersInOrder EveryValueArrives
CHECK_DEADLOCK FALSE
