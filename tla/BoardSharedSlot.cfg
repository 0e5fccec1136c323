SPECIFICATION BoardRunSpec
CONSTANTS
  Slots = {1}
  Vectors = {"v060", "v0274", "v064"}
  NoVector = "none"
  VectorPSWs = {{"P"}}
  PopPSWs = {{}, {"P"}}
  DebuggerPSWs = {}
  ProgramTraps = {"EMT"}
  VM1G = FALSE
  BK0011 = TRUE
  TtyEnables = {TRUE, FALSE}
  MaxVirq = 2
PROPERTY WithdrawsOwnRequest
