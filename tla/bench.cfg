CONSTANTS
  PRIME = 577
  Program <- Programs
  FirstCall <- StartOf
  Found <- MemoryOf
  ItemsOf <- BodyOf
  AccessBy <- DoesOf
  Accepts <- RightOf
SPECIFICATION Spec
INVARIANTS NoRace InBounds Correct
