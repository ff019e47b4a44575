SPECIFICATION PartsSpec
CONSTANTS
  ByZero = {0, 5, 63}
  Half = 8
  MaxExponent = 9
  MaxModulus = 8
  MaxW = 4
  MaxH = 3
  Coefficients <- MCCoefficients
  ALT_MAX_FD = 7
  Devices = {null, jtag}
  DevNull = null
  NoDevice = none
  StdoutDevice = jtag
  StdinDevice = jtag
  StderrDevice = jtag
  W = 4
  Rate = 2
  MicrosPerTick = 2
  Alarms = {a1, a2, a3}
  alt_alarm_list = alt_alarm_list
  Null = Null
  StartDelays = {0, 2}
  Periods = {0, 3}
  Times = {5}
INVARIANTS
  ComputesPower
  NoOverflow
  BorderExtended
  IsLaplaceOperator
  OneExclusiveHolder
  NothingLeaked
  LinksAgree
  ClockKeepsTime
PROPERTIES
  Terminates
  ImplementsClock
