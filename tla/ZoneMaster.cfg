SPECIFICATION FairSpec
CONSTANTS
  b1 = b1
  b2 = b2
  c1 = c1
  c2 = c2
  c3 = c3
  Boxes = {b1}
  Channels = {c1, c2}
  PeerOf <- OneBox
  MaxPlays = 2
INVARIANT NoStaleTarget
PROPERTIES ImplementsSwitch EverybodyEndsUpOnTheStation
