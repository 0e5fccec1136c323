SPECIFICATION BoardSpec
CONSTANTS
  Slots = {1}
  Vectors = {"v060", "v0274", "v064"}
  NoVector = "none"
  VectorPSWs = {{"P"}}
  PopPSWs = {{}, {"P"}}
  DebuggerPSWs = {{"P"}}
  ProgramTraps = {"EMT"}
  VM1G = TRUE
  BK0011 = TRUE
  TtyEnables = {TRUE, FALSE}
  MaxVirq = 2
INVARIANTS BoardTypeOK DevicesInStep
PROPERTIES DeferredKeyAnnounced KeyRequestKept
