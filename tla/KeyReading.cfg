SPECIFICATION Spec
CONSTANTS
  Boxes = {"a"}
  Holds = {1, 2, 3}
  Scripts <- All
  Window = 3
  BackWindow = 1
  HoldFloor = 1
  HoldCeiling = 3
  HoldWhenUnseen = 2
  LongCeiling = 6
  GestureWindow = 4
  Quiet = 3
  Cap = 6
  GesturePresses = 2
  MinGaps = 1
  MarginFloor = 1
  Rounding = 1
  EchoTail = 1
  FirstWindow = 2
  FirstHold = 3
  WindowRange <- Windows
  HoldRange <- HoldsOf
  Disturbed = FALSE
  Horizon = 6
INVARIANTS NoEchoIsAPress NoPressIsLost WakesDoNotDial NumbersAreWhole
