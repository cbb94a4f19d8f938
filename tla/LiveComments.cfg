\* Two threads of one viewer, who also writes one of them.
SPECIFICATION FairSpec
CONSTANTS
  t1 = t1  t2 = t2
  Thread <- TwoThreads
  Here <- TwoThreads
  Own <- OneThread
  MaxHead = 2
  MaxReplay = 1
  MaxThreadRefresh = 1
INVARIANTS TypeOK CursorCoversReads RestShowsAll
PROPERTIES ReadsMoveForward ImplementsFollower Converges
