SPECIFICATION StubbornSpec
CONSTANTS
  b1 = b1
  b2 = b2
  b3 = b3
  NoBuffer = NoBuffer
  Buffer = {b1, b2, b3}
  InitialPool = {b1}
  Setups <- NoContention
PROPERTIES
  CleanupEnds
