CONSTANTS
  Memory <- MCMemory
  Budget = 4
  MaxAllocations = 2
  Page = 2
  VaLimit = 11
  Sizes = {2}
  Image = {i}
  Color = {i}
  Sampled = {}
  Depth = {}
  Recording = {r}
  MaxImages = 1
  MaxCommands = 4
  CountMax = 3
  RevisionMax = 2
  Targets = {"COLOR_TARGET", "TRANSFER_DESTINATION"}
  Footprints = {1}
  Nothing = Nothing
  Buffer = {b1, b2}
  Source = {b1, b2}
  Destination = {b1, b2}
  Readable = {b1, b2}
  CopyBuffer = {c1, c2}
  Fence <- MCFence
  MaxBuffers = 2
  MaxFences = 2
  MaxCopies = 1
  SequenceMax = 2
  Lengths = {1, 2}
  Requests = {1, 3}
  Value = {0, 1}
  Zero = 0
  m1 = m1
  m2 = m2
  f1 = f1
  f2 = f2
SYMMETRY Interchangeable
SPECIFICATION MCSpec
INVARIANTS UsesAreCounted RecordsStayValid AddressesAreFresh
PROPERTIES SignalsStay SubmissionsSpareImages
