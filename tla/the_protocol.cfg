CONSTANTS
  Thieves = {t1, t2}
  Owner = owner
  NOBODY = NOBODY
  Depth = 4
  MaxSpawn = 4
SPECIFICATION FairSpec
INVARIANTS
 
  ResumedOnce
  NothingLost
  ExcAtHead
  PromoteClaims
  VisibleFrame
PROPERTIES
  HandlerVerdict
  ImplementsDeque
  LockReleased
