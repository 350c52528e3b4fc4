CONSTANTS
  ClearDwords = 16
  MaxRows = 8
  MaxCols = 2
  Widths = {31, 32}
  Heights = {1, 8, 9}
  Margins = {0}
  Credits = {20}
SPECIFICATION TSpec
CHECK_DEADLOCK FALSE
INVARIANTS EveryScissorIsTiled
