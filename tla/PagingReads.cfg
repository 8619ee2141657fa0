SPECIFICATION Spec
CONSTANTS
  p1 = p1
  p2 = p2
  Threads = {t1, t2}
  Pages = {p1, p2}
  NULL = NULL
  NumNodes = 4
  NumFrames = 3
  FirstPages <- Three
  Kinds = {"read"}
  MaxOps = 1
INVARIANT SwapFramesOnce
