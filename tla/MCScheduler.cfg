SPECIFICATION FairSpec
CONSTANTS
  Caller = {c1, c2}
  Task = {session_cleanup, stats_refresh}
  MaxStarts = 2
INVARIANTS
  StoppedMeansQuiet
  OneRoutinePerTask
  ListedTasksRun
PROPERTIES
  CallsReturn
