\* A prompt system with one coroutine or with several durations, or threads at
\* any speed and stop().  A behaviour ends at a scan that would take the last
\* frame of a bucket and leave another; only several durations get there.
CONSTANTS
  f1 = f1
  f2 = f2
  f3 = f3
  Frames = {f1, f2, f3}
  Null = Null
  Registrars = {r1}
  BUCKET_NUM = 2
  precision = 2
  Scenarios <- AnySpeed
SPECIFICATION FairSpec
CONSTRAINT TailLast
INVARIANTS TypeOK LessThanATickLate SleepersReachable DueAfterScan AppendAssert
PROPERTIES NoEarlyWake LoopExits
