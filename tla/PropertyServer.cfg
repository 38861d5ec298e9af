SPECIFICATION Spec
CONSTANTS
  N = 2
  Addresses <- MCAddresses
  Requested = {0, 1, 2, 3}
  Reals = {50}
  Unsigneds = {0, 1, 2}
  States = 1
  Null = Null
  DeviceId = 389018
  UdpPort <- MCUdpPort
  InputStates = 3
  AnalogInput = 21
INVARIANTS
  TypeOK
  PresentValueArbitrated
  SlotsShowTheCommands
  RowsServed
  StateTextComplete
PROPERTIES
  ImplementsArbiter
  MoreUrgentHolds
