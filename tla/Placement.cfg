SPECIFICATION Spec
CONSTANTS
  Boxes = {b1, b2}
  Framed = {b1, b2}
  Streams <- MCStreams
  Dur = 2
  Lead = 5
  MaxAge = 5
  RateWait = 3
  Every = 2
  Late = 1
  ReadAhead = 2
  Jitter = 1
  Preroll = 17
  Cap = 36
  Chunk = 5
  Window = 3
  EarlyJoins = FALSE
  MaxTime = 19
INVARIANTS InSync BytesAreClose
SYMMETRY MCSymmetry
