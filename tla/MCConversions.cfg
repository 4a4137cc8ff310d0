CONSTANTS
  c1 = c1  c2 = c2
  g1 = g1  g2 = g2
  NoGoal = NoGoal
  NoPage = NoPage
  Absent = Absent
  Unknown = Unknown
  NoRate = NoRate
  Client <- MCClient
  Id <- MCId
  Page <- MCPage
  Day <- MCDay
  Pages <- MCPages
  Update <- MCUpdate
  Query <- MCQuery
  MaxGoals = 2
SYMMETRY Symmetry
SPECIFICATION Spec
INVARIANTS CachedIsCurrent FunnelIsOfItsGoal GoalsAreAsGiven
PROPERTIES OnlyCreateBringsBack LeavesInTime
