SPECIFICATION FrameSpec
CONSTANTS
  Modulus = 4
  Divisor <- MCDivisor
  Reloads = {0, 1, 3}
  ResetReload = 1
  Modes <- MCModes
  FrameTicks = 5
  ProcTicks = 2
  TimerPeriod = 3
  TtyPeriod = 2
  TxTicks = 2
INVARIANTS FrameTypeOK DividerFresh TimerRegular
PROPERTIES CountdownSpec ByteSent
