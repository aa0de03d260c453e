SPECIFICATION FairSpec
CONSTANTS
  MaxSaves = 3
  MaxLives = 2
INVARIANT OkIsDurable
PROPERTIES ImplementsRecord EveryWriteIsAnswered
