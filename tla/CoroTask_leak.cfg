\* Coroutines that are committed or awaited, and never copied, moved or reset.
CONSTANTS
  Frames = {f1, f2}
  Handles = {h1}
  Threads = {t1}
  NULL = NULL
  Uses = {"call"}
  MaxTurns = 1
  MaxRefs = 1
SPECIFICATION Spec
INVARIANT FreedWhenDone
CHECK_DEADLOCK FALSE
