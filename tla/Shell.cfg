SPECIFICATION ShellSpec
CONSTANTS
  Offsets = {0, 1}
  PlainPorts = {}
  FloppyPorts = {1}
  Value = {"old", "new"}
  Blank = "old"
  HistorySize = 2
  Records = {"instruction", "interrupt"}
  Zeroed = "zeroed"
  NoImage = NoImage
  Machines <- MCMachines
  Writes <- MCWrites
  Registers <- MCRegisters
INVARIANTS ShellTypeOK NoHiddenAlias
PROPERTIES SpaceSpec LogSpec
