CONSTANTS
  Instances = {1, 2}
  Ports = {7, 8}
  MaxUdpBindings = 2
  Handles = {h1, h2}
  NoSocket = NoSocket
  MaxQueue = 2
  Rebind = FALSE
SPECIFICATION FairSpec
INVARIANTS
  TypeOK
  BypassBound
  TableKeyed
  SocketsOwned
  StaysOnOwnNetwork
PROPERTIES
  Attribution
  NoStarvation
