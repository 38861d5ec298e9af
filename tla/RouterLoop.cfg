SPECIFICATION FairLoopSpec
CONSTANTS
  Instances = {1, 2}
  Ports = {7, 8}
  MaxUdpBindings = 4
  Handles = {h1, h2}
  NoSocket = NoSocket
  MaxQueue = 2
  Rebind = FALSE
  PortOf <- MCPortOf
  BytesPerPoll = 3
  MaxKeys = 4
PROPERTIES
  WithinItsLimits
  ZeroMeansNothing
  QuitEnds
  Served
