CONSTANTS
  ClearDwords = 16
  MaxRows = 8
  MaxCols = 2
  Widths = {1, 2, 15, 16, 17, 31, 32, 33, 47, 48, 64}
  Heights = {1, 2, 7, 8, 9, 16, 17}
  Margins = {0, 1}
  Credits = {2, 20}
SPECIFICATION TSpec
CHECK_DEADLOCK FALSE
INVARIANTS PaintsItsScissor
