SPECIFICATION Spec
CONSTANTS
  Handler = {h1}
  Batcher = batcher
  Main = main
  Event = {e1, e2}
  SessionEvent = {e1}
  FlushThreshold = 2
INVARIANT
  DeletedStaysDeleted
