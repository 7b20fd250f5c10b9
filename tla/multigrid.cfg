CONSTANTS
  NX = 4
  LT = 4
  MODULUS = 257
  HALF = 4
  A = 93
  X = 57
  MM = 2
  W = 2
  Version <- Versions
  Program <- Programs
  SERIAL = "SER"
  Junk = {9}
SPECIFICATION Spec
INVARIANTS NoRace HalosFresh SameAsSerial ChargesAtExtremes
