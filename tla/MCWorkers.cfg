SPECIFICATION FairSpec
CONSTANTS
  MaxTexts = 3
INVARIANTS
  TextsAreOwned
PROPERTIES
  LatestIsShown
  BarGoes
CHECK_DEADLOCK FALSE
