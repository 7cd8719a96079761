\* Two durations in one bucket.
CONSTANTS
  f1 = f1
  f2 = f2
  f3 = f3
  Frames = {f1, f2, f3}
  Null = Null
  Registrars = {r1}
  BUCKET_NUM = 4
  precision = 2
  Scenarios <- Mixed
SPECIFICATION Spec
INVARIANT AppendAssert
