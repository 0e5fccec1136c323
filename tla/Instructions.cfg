SPECIFICATION InstructionSpec
CONSTANTS
  RAM <- MCRAM
  ROM <- MCROM
  Cell <- MCCell
  Operands <- MCOperands
  Offsets <- MCOffsets
  Counts = {0, 1, 2}
  StartRegisters <- MCStartRegisters
  StartFlags <- MCStartFlags
  VM1G = TRUE
  MaxSteps = 1
INVARIANTS
  MachineTypeOK ExactArithmetic StacksReturn ListingAgrees
PROPERTY FaultPrecise
CHECK_DEADLOCK FALSE
