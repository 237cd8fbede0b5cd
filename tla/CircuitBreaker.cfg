\* The constants of the breaker are those of the code, with the socket timeouts of
\* the default configuration; the times to live and windows are a few ticks.
SPECIFICATION PlatformSpec
CONSTANTS
  Commands = {c1, c2, c3}
  Threshold = 5
  Cooldown = 5
  Timeout = 4
  Callers = {k1, k2, k3}
  Limit = 2
  Window = 1
  MaxKeys = 2
  v1 = v1
  Processes = {a, b}
  RowValues = {v1}
  NoRowValue = NoRowValue
  Garbage = Garbage
  Ttls = {0, 3}
  AbsentTtl = 1
  Jitter = 1
  FlightTime = 1
  MaxWriters = 1
  MaxFalse = 6
  Notes = {n1, n2}
  NoteRequests = {r1, r2}
  UnreadTtl = 2
  MaxAttempts = 2
  MaxCount = 2
  Tasks = {t1, t2}
  ShutdownTimeout = 4
  SoftStopDivisor = 2
INVARIANTS
  PlatformTypeOK
  ProbeRunsAlone FloodBounded BoundedStaleness CounterHeals OrderlyExit
PROPERTIES
  OnlyProbeCloses Recovers AbsentHidesNothing EveryNoteSent ExitsAfterSignal
