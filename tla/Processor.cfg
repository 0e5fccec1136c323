SPECIFICATION RunSpec
CONSTANTS
  Slots = {0, 1}
  Vectors = {"a"}
  NoVector = "none"
  VectorPSWs = {{}, {"P"}}
  PopPSWs = {{}, {"T"}, {"P"}, {"HALT"}}
  DebuggerPSWs = {}
  ProgramTraps = {"BPT", "EMT", "HALT"}
  VM1G = TRUE
  MaxVirq = 3
INVARIANTS TypeOK RequestLinesOK FaultsServed
PROPERTIES PollingEnds WaitEnds
