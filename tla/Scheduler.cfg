\* Two frames that compete for one worker, a client, the network and the timer
\* thread, over start and stop.
CONSTANTS
  Workers = {w1}
  Clients = {c1}
  Net = Net
  Timer = Timer
  Frames = {f1, f2}
  None = None
  MaxTurns = 1
SPECIFICATION FairSpec
INVARIANTS TypeOK CountExact HeldOnce NoLostWakeup EarlyWorkFinished
PROPERTIES CommittedFinishes ShutdownCompletes
