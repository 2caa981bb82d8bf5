SPECIFICATION ProgramLiveSpec

CONSTANTS
  s1 = s1
  s2 = s2
  ServerThreads = 3
  Sessions = {s1, s2}

INVARIANT
  InUseIsAlive

PROPERTIES
  StopEnds
  ClientFlushes
