SPECIFICATION Spec
CONSTANTS
  Job = Job
  Tool = Tool
  Watchdog = Watchdog
  Task = Task
  Settings = Settings
  Procs <- AllProcs
  Nobody = Nobody
  Engines = {e1, e2, e3}
  NoEngine = NoEngine
  Instances = {i1, i2, i3, i4}
  NoInstance = NoInstance
  MayFail = TRUE
  Setups <- OneLocal
  MaxJobs = 1
  MaxToolJobs = 1
  MaxRounds = 1
  MaxCommands = 1
SYMMETRY Names
INVARIANTS ReadyIffAlive NobodyWaitsInVain FailsOnlyUnderReload
CHECK_DEADLOCK FALSE
