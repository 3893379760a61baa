SPECIFICATION Spec
CONSTANTS
  Names = {"f"}
  Versions = {"v1"}
  Sizes = {1}
  MaxSymbols = 5
CHECK_DEADLOCK FALSE
INVARIANT KeysUnique
INVARIANT StrongDefinitionWins
PROPERTY JoinedAtDefinition
