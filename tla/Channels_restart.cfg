\* One window whose writer is started twice.
SPECIFICATION ChannelsSpec
CONSTANTS
  main = main
  portrait = portrait
  tool = tool
  Writers <- AllWriters
  Tools <- TheTool
  Nobody = Nobody
  MaxVerbs = 0
  MaxFaults = 0
  Cells = 1
  MaxFrames = 2
  MaxOpenings = 1
  MaxStarts = 2
PROPERTIES OnlyAFrameReadIsPassedOver
CHECK_DEADLOCK FALSE
