SPECIFICATION Spec
CONSTANTS
  Caller = {c1}
  Task = {session_cleanup, stats_refresh}
  MaxStarts = 2
INVARIANT
  StopIsGraceful
