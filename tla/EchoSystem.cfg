\* Four words of two bytes through sockets that hold three bytes; the server
\* reads up to three, so reads cut words.  Both programs may end.
CONSTANTS
  Words = 4
  WordSize = 2
  ReadMax = 3
  WireCap = 3
SPECIFICATION Spec
CHECK_DEADLOCK FALSE
INVARIANTS WordsComeBackWhole
PROPERTIES AllEchoed ClientEnds
