SPECIFICATION Spec
CONSTANTS
  Who <- MCWho
  Boxes = {b1}
  FoundOn = {"active"}
  RestartSecs = {0, 1, 2}
  Least = 3
  DrainTimeout = 2
  StartTimeout = 2
  AnswersLost = FALSE
  MaxWords = 2
  MaxExits = 2
  MaxFailures = 2
INVARIANT TheirWordStands
PROPERTIES OnlyProvedIsHandedBack NobodyIsCutOff
CHECK_DEADLOCK FALSE
