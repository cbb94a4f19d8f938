\* A viewer who writes nothing, with the property its source comment states.
SPECIFICATION Spec
CONSTANTS
  t1 = t1  t2 = t2
  Thread <- TwoThreads
  Here <- TwoThreads
  Own <- NoThread
  MaxHead = 2
  MaxReplay = 1
  MaxThreadRefresh = 1
INVARIANT CursorCovers
