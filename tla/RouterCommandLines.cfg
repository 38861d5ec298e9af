SPECIFICATION Spec
CONSTANTS
  Keys = {"q"}
  MaxTyped = 1
  PortFlag = PortFlag
  Port2Flag = Port2Flag
  DeviceFlag = DeviceFlag
  HelpFlag = HelpFlag
  Junk = Junk
  Numbers <- MCNumbers
  CommandLines <- MCCommandLines
  Ephemeral <- MCEphemeral
INVARIANTS TypeOK SilentUntilConfigured AnnouncesOnlyWhatItRoutes NetworksSeparate AnnouncedWhereItListens
