CONSTANTS
  c1 = c1  c2 = c2  s1 = s1  s2 = s2  salt1 = salt1  salt2 = salt2
  ClientRandoms <- MCClientRandoms
  ServerRandoms <- MCServerRandoms
  Salts <- MCSalts
  PadLens = {0, 1, 3}
  AssertsEnabled = TRUE
SPECIFICATION Spec



INVARIANT NoAbortOnMalformedPacket
