\* Two calls in a row: the timer of the first during the second.
CONSTANTS
  Coros = {c1}
  Workers = {w1}
  Client <- Caller
  Servers <- Two
  Ephemeral <- Port0
  Targets <- Singles
  Conditions <- AllOnly
  Functions = {add}
  Reflected = {add}
  LateWrite = FALSE
  MaxCalls = 2
  MaxRestarts = 0
  None = None
SPECIFICATION Spec
INVARIANT OwnTimeOut
