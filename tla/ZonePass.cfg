SPECIFICATION FairSpec
CONSTANTS
  Boxes = {b1, b2}
  Consoles = {b2}
  Remembered = {b1}
  MaxActs = 1
  MaxFlips = 1
  MaxFaults = 1
  Faults = {"refused", "left", "lost", "deaf", "console", "busy", "unsaved", "backIn", "late"}
INVARIANTS AStopFreesEveryBox NobodyIsMissed
PROPERTIES BelongsGetsIn OffFrees
