SPECIFICATION FairSpec
CONSTANTS
  radio = radio
  book = book
  tape = tape
  Numbers = {radio, book, tape}
  MpdNumbers = {book, tape}
  Directories = {book}
  Stops = {book}
  NoNumber = NoNumber
  FirstFiles <- FirstFilesHere
  LaterFiles <- LaterFilesHere
  LeftAt <- LeftAtHere
  Gestures <- GesturesHere
  Troubles = {"lost", "restarted", "changed", "unsaved"}
  MaxTroubles = 1
  MaxPlays = 2
  MaxOffs = 1
INVARIANTS LastStartPlays PlaceIsItsOwn
PROPERTIES ComesBackToItsFile EveryStartEnds
