SPECIFICATION BookSpec
CONSTANTS
  Boxes = {"b1", "c2"}
  Consoles = {"c2"}
  UnreachableTimeout = 0
  WakeWindow = 0
  MaxLag = 0
  MaxNow = 0
  Order <- MCOrder
  PresetsOf <- MCPresets
  Base <- MCBase
  FirstRows <- MCFirstRows
  Typed <- MCTyped
  Measured <- MCMeasured
  Lists = {{"b1", "c2"}, {"c2"}}
  FirstLists <- MCFirstLists
  TurnsAreKept = TRUE
  MaxHappenings = 2
  MaxDrops = 1
  MaxReads = 2
  MaxHandled = 3
  MaxQueue = 2
INVARIANTS ReplySpeedDecidesNothing NoWakeIsLost OtherIsLeftAlone
PROPERTY SeededFromTheFirst
CHECK_DEADLOCK FALSE
