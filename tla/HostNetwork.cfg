SPECIFICATION Spec
CONSTANTS
  Interfaces <- MCInterfaces
  Loopback = "lo"
  Bits = 2
  Configs <- MCConfigs
INVARIANTS
  TargetIsReported
PROPERTIES
  AnnouncesAround
