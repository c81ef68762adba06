CONSTANTS
  Threads = {t1, t2}
  MaxTimeout = 2
  IdleExit = 3
  StopRepeat = 1
  NoThread = NoThread
  NoDeadline = NoDeadline
SPECIFICATION FairSpec
INVARIANTS
  TypeOK
  ArmedHasThread
  OneTimerThread
  NoLateWake
  StoppedAtDeadline
PROPERTIES
  ImplementsTimedStart
  IdleThreadExits
