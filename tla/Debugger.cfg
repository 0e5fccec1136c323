SPECIFICATION DebuggerSpec
CONSTANTS
  Addresses = {"a", "b", "c"}
  NoAddress = "none"
  MaxCount = 3
  Scans = {0, 77}
  QueueSize = 2
  FrameTicks = 2
  MaxFrames = 2
  FrameCounts = {0}
  BusyTicks = 1
  Keys = {77}
  Modifiers = {0}
  MonitorKeys <- MCMonitorKeys
INVARIANTS DebuggerTypeOK TableConsistent
PROPERTIES NeverPast RunMoves PromptReturns SetSpec 
