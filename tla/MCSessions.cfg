SPECIFICATION Spec
CONSTANTS
  User = {u1}
  Caller = {c1, c2}
  Timeout = 1
  ReturningAfter = 1
  MinSessions = 1
  MaxTime = 2
  Timestamp = {0, 2}
  MaxEvents = 3
SYMMETRY Symmetry
INVARIANTS
  CountsEvents
  EndFollowsLastEvent
  ReturningIsEarned
  OneLiveSession
PROPERTIES
  ExpiredIsFinal
