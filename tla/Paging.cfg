SPECIFICATION FairSpec
CONSTANTS
  p1 = p1
  p2 = p2
  Threads = {t1, t2}
  Pages = {p1, p2}
  NULL = NULL
  NumNodes = 4
  NumFrames = 3
  FirstPages <- UpToThree
  Kinds = {"write", "badWrite"}
  MaxOps = 3
INVARIANTS
  TypeOK
  CrashOnlyOnLastPage
  SwapFramesOnce
  NoNodeLeaks
PROPERTIES
  ImplementsPageQueue
  AccessReturns
