SPECIFICATION FairSpec
CONSTANTS
  Keys = {"q", "r", "up"}
  MaxTyped = 1
  PortFlag = PortFlag
  Port2Flag = Port2Flag
  DeviceFlag = DeviceFlag
  HelpFlag = HelpFlag
  Junk = Junk
  Numbers <- MCNoNumbers
  CommandLines <- MCNoArguments
  Ephemeral <- MCEphemeral
INVARIANTS NoPhantomCommand CleanExit
PROPERTIES NeverDeaf QuitOnWindows
