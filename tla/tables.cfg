SPECIFICATION TableSpec
CONSTANTS
  Word = 16
  Type8 = 4
  Sym24 = 4
  Records = 2
  Kinds <- AllSections
  Wide <- EdgeValues
  Linked <- Indexes
  Strings <- ShortStrings
  PoolSize = 4
  Increment = 4
  MaxLen = 8
CHECK_DEADLOCK FALSE
PROPERTY ImplementsArray
PROPERTY ImplementsMap
