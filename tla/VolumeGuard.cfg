SPECIFICATION FairSpec
CONSTANTS
  Top = 2
  FadeSteps = 2
  Moves <- Up
  OwedBefore <- OneDown
  MaxSteps = 1
  MaxJoins = 2
  MaxFails = 2
  MaxLives = 2
  Faults = {"crash", "stop", "unsaved"}
INVARIANTS ComesBackToItsLevel NoStepTwice
PROPERTY SilenceEnds
