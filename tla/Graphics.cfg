CONSTANTS
  Memory = {m}
  Budget = 1
  MaxAllocations = 1
  Page = 1
  VaLimit = 2
  Sizes = {1}
  Image = {color, depth}
  Color = {color}
  Sampled = {}
  Depth = {depth}
  Recording = {r1, r2}
  MaxImages = 2
  MaxCommands = 3
  CountMax = 2
  RevisionMax = 2
  Targets = {"UNDEFINED", "COLOR_TARGET", "DEPTH_TARGET"}
  Footprints = {1}
  Nothing = Nothing
SYMMETRY Interchangeable
SPECIFICATION MCSpec
INVARIANTS NothingDangles CountersAreExact RevisionDecides
PROPERTIES TransactionsSpec
