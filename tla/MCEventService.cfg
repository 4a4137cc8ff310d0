SPECIFICATION Spec
CONSTANTS
  Handler = {h1, h2}
  Batcher = batcher
  Main = main
  Event = {e1, e2, e3}
  SessionEvent = {e1, e2}
  FlushThreshold = 2
SYMMETRY Symmetry
INVARIANTS
  TypeOK
  NoAcceptedEventLost
  Routing
  OneHolder
  IndexBound
  BufferBound
  StopSettles
PROPERTIES
  GoneForGood
  LedgerSpec
