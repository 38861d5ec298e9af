SPECIFICATION FairSpec
CONSTANTS
  Keys = {"h", "q"}
  MaxTyped = 1
  PortFlag = PortFlag
  Port2Flag = Port2Flag
  DeviceFlag = DeviceFlag
  HelpFlag = HelpFlag
  Junk = Junk
  Numbers <- MCNoNumbers
  CommandLines <- MCNoArguments
  Ephemeral <- MCEphemeral
PROPERTY QuitHonoured
