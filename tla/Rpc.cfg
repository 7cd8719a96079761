\* One coroutine with a call before and after a restart of its process, servers
\* that have not registered every function, two workers, slow connections.
CONSTANTS
  Coros = {c1}
  Workers = {w1, w2}
  Client <- Caller
  Servers <- Two
  Ephemeral <- Port0
  Targets <- Lists
  Conditions <- AllConditions
  Functions = {add, gone}
  Reflected = {add}
  LateWrite = TRUE
  MaxCalls = 1
  MaxRestarts = 1
  None = None
SPECIFICATION FairSpec
INVARIANTS TypeOK CallbackAlive HeldOnce EndsWhenEnough
PROPERTIES CallEnds
