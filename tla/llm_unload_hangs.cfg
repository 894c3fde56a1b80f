SPECIFICATION FairSpec
CONSTANTS
  Job = Job
  Tool = Tool
  Watchdog = Watchdog
  Task = Task
  Settings = Settings
  Procs <- AllProcs
  Nobody = Nobody
  Engines = {e1, e2, e3}
  NoEngine = NoEngine
  Instances = {i1, i2, i3}
  NoInstance = NoInstance
  MayFail = TRUE
  Setups <- LlmLocal
  MaxJobs = 1
  MaxToolJobs = 0
  MaxRounds = 1
  MaxCommands = 0
PROPERTY UnloadEnds
CHECK_DEADLOCK FALSE
