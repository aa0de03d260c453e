SPECIFICATION FairSpec
CONSTANTS
  Who <- MCWho
  Boxes = {b1}
  FoundOn = {"active", "inactive"}
  RestartSecs = {0, 1, 2}
  Least = 3
  DrainTimeout = 2
  StartTimeout = 2
  AnswersLost = FALSE
  MaxWords = 2
  MaxExits = 2
  MaxFailures = 1
PROPERTY OnlyProvedIsHandedBack
CHECK_DEADLOCK FALSE
