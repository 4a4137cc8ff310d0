CONSTANTS
  NoString = NoString
  User <- MCUser
  Page <- MCPage
  Device <- MCDevice
  Country <- MCCountry
  Event <- MCEvent
  MaxEvents = 4
  MaxCounted = 2
  MaxChanges = 2
  Second = 2
  Hour = 2
  MaxPathLength = 2
  Goal <- MCGoal
  Funnel <- MCFunnel
  MaxIndex = 3
  Period <- MCPeriod
  Periods <- MCPeriods
  Today <- MCToday
  hourOf <- MCHourOf
  dayOf <- MCDayOf
SPECIFICATION StatsSpec
INVARIANTS ConversionsAddUp PathsRunForward FunnelNarrows TopIsTop CountsAddUp RequestsAddUp
