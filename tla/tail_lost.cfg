SPECIFICATION Spec
CONSTANTS
  Keys <- OneKey
  Values <- TwoValues
  MaxWrites = 2
  MaxCuts = 1
INVARIANT
  DamageSkipped
