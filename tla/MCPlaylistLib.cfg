CONSTANTS
  Items = {0, 1, 2}
  MaxCalls = 4
SPECIFICATION Spec
INVARIANT TypeOK
INVARIANT ChainCoversCount
