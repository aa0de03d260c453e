SPECIFICATION AlarmsSpec
CONSTANTS
  Names = {"a1", "a2"}
  Shapes <- MCShapes
  LastInstant = 12
  DayLength = 5
  Offset <- MCOffset
  Horizon = 24
  Weekdays = 2
  LookbackDays = 1
  LookaheadDays = 1
  GapSearch = 2
  VolumeCeiling = 3
  RampCeiling = 2
  SnoozeFloor = 1
  SnoozeCeiling = 2
  LimitFloor = 1
  LimitCeiling = 4
  Before <- MCBefore
  PauseDays <- MCPauseDays
  Channels = {"c1", "c2"}
  Levels = {1}
  MaxEdits = 2
  MaxCrashes = 1
INVARIANTS EveryWakeIsAnswered GivenBack
PROPERTY RingsOnce
CHECK_DEADLOCK FALSE
