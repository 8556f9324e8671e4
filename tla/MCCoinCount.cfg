SPECIFICATION RandomSpec
CONSTANTS
  W = 3
  MaxCoins = 7
  MaxSides = 3
  MaxDice = 4
  MaxInt = 255
INVARIANTS
  HeadsWithinCoins
