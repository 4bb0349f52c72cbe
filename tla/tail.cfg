SPECIFICATION Spec
CONSTANTS
  Keys <- OneKey
  Values <- AllValues
  MaxWrites = 3
  MaxCuts = 2
INVARIANT
  RebuiltUpToDamage
PROPERTY
  RewriteRepairs
