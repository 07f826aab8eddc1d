SPECIFICATION Spec
CONSTANTS
  t1 = t1  t2 = t2  t3 = t3  d1 = d1  d2 = d2
  Task = {t1, t2, t3}
  Dispatcher = {d1, d2}
  Calls <- TwoDispatchers
  QueueCount = 2
  QueueSize = 2
  QueuesOf <- BothQueues
  ThreadCount <- ManyThreads
  ChosenQueue <- Second
  NoTask = NoTask
  NoThread = NoThread
  Invalid = Invalid
  Cleared = Cleared
  IntMax = 9
INVARIANTS TypeOK PacketsKept CompletedHaveRun UndisturbedNotPassedOver
PROPERTIES DispatchedRun DispatchReturns FiniReturns
CHECK_DEADLOCK FALSE
