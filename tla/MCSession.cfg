CONSTANTS
  c1 = c1  s1 = s1  s2 = s2  salt1 = salt1
  ClientRandoms <- MCClientRandoms
  ServerRandoms <- MCServerRandoms
  Salts <- MCSalts
  PadLens = {1, 3}
  AssertsEnabled = TRUE
  MaxCalls = 4
SPECIFICATION Spec
INVARIANT TypeOK
INVARIANT KeysMatchReference
INVARIANT FailureClassified
PROPERTY ImplementsSessionAPI
