\* Two coroutines that call again once nothing of their calls is pending, also
\* after a restart.
CONSTANTS
  Coros = {c1, c2}
  Workers = {w1}
  Client <- Caller
  Servers <- Two
  Ephemeral <- Port0
  Targets <- Lists
  Conditions <- AllOnly
  Functions = {add}
  Reflected = {add}
  LateWrite = TRUE
  MaxCalls = 2
  MaxRestarts = 1
  None = None
SPECIFICATION CleanSpec
SYMMETRY Symmetry
INVARIANT OwnAnswers
PROPERTY RefinesCall
