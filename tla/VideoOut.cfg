CONSTANTS
  Device = {d}
  Command = {c1, c2}
  Size = {1080, 720}
  Screen = 1080
  MaxCommands = 2
  NumberMax = 2
  MaxPolls = 2
  Nothing = Nothing
  WIDTH = 1920
  HEIGHT = 1080
  FRAME_BYTES = 16777216
SPECIFICATION VFairSpec
INVARIANTS ScreenShowsFrame ScanoutIsMapped PixelsKeepApart
PROPERTIES CallsReturn
