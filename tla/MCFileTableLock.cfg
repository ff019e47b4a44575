SPECIFICATION TableSpec
CONSTANTS
  ALT_MAX_FD = 5
  Devices = {null, jtag}
  DevNull = null
  NoDevice = none
  StdoutDevice = jtag
  StdinDevice = jtag
  StderrDevice = jtag
INVARIANT
  LockIsExclusive
