SPECIFICATION Spec
CONSTANTS
  Worker = {w1, w2, w3}
  Boss = w1
  w1 = w1
  w2 = w2
  w3 = w3
  main = main
  fa = fa
  fb = fb
  fc = fc
  h1 = h1
  h2 = h2
  h3 = h3
  h4 = h4
  SYNC = SYNC
  NULL = NULL
  Root = main
  Frame <- NestedFrame
  Helper <- NestedHelper
  Body <- NestedBody
INVARIANTS OnePlace CallersWait ReturnClaims ShadowStackMatches OnItsFiber NothingLeftBehind
PROPERTY ImplementsForkJoin
