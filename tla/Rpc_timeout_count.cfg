\* Two calls in a row to different servers.
CONSTANTS
  Coros = {c1}
  Workers = {w1}
  Client <- Caller
  Servers <- Three
  Ephemeral <- Port0
  Targets <- PairOrOther
  Conditions <- AllOnly
  Functions = {add}
  Reflected = {add}
  LateWrite = FALSE
  MaxCalls = 2
  MaxRestarts = 0
  None = None
SPECIFICATION Spec
INVARIANT TimeOutAssert
