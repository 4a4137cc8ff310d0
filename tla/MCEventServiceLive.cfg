SPECIFICATION FairSpec
CONSTANTS
  Handler = {h1, h2}
  Batcher = batcher
  Main = main
  Event = {e1, e2}
  SessionEvent = {e1}
  FlushThreshold = 2
PROPERTIES
  ShutdownTerminates
  BufferedIsFlushed
  RequestsAnswered
