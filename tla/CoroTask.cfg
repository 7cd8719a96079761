\* Three coroutines and two CoroTask variables under every operation.
CONSTANTS
  Frames = {f1, f2, f3}
  Handles = {h1, h2}
  Threads = {t1}
  NULL = NULL
  Uses = {"copy", "move", "reset", "serve", "call"}
  MaxTurns = 1
  MaxRefs = 1
SPECIFICATION FairSpec
INVARIANTS TypeOK NothingDangling ReturnsToCaller OneControl LocalVarOfChain CountsRoots
PROPERTIES DestroysNoneAtWork WaitReturns
CHECK_DEADLOCK FALSE
