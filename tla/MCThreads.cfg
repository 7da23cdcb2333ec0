SPECIFICATION MCSpec
CONSTANTS
  Thread <- MCThread
  Main = "main"
  UserThread = {"a", "b"}
  NoThread = "none"
  Sem <- MCSem
  Device = {"disk"}
  InitialValue <- MCValue
  MaxValue = 2
  SystemTick = 2
  UserTick = 1
  TimerDelay = {3, 5}
  Latency = {2}
  Loops = 5
  Rounds = 10
INVARIANTS ThreadsInv NoLostWakeup ProgramStateOwn InterruptsInv SelfTestInv
PROPERTIES ReadyRuns ImplementsSemaphore SelfTestCompletes
CHECK_DEADLOCK FALSE
