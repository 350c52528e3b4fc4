CONSTANTS
  Memory = {m}
  Budget = 2
  MaxAllocations = 1
  Page = 2
  VaLimit = 4
  Sizes = {2}
  Image = {i, j}
  Color = {i}
  Sampled = {j}
  Depth = {}
  Recording = {r}
  MaxImages = 2
  MaxCommands = 1
  CountMax = 2
  RevisionMax = 2
  Targets = {"COLOR_TARGET", "SHADER_READ"}
  Footprints = {2}
  Nothing = Nothing
  Buffer = {b}
  Source = {}
  Destination = {}
  Readable = {b}
  CopyBuffer = {}
  Fence = {}
  MaxBuffers = 1
  MaxFences = 0
  MaxCopies = 0
  SequenceMax = 0
  Lengths = {1, 2}
  Requests = {}
  Value = {0}
  Zero = 0
  Shader = {v, x, c}
  Vertex = {v}
  Pixel = {x}
  Compute = {c}
  PipelinePlan = {p1, p2}
  Slot = {0}
  MaxArtifacts = 2
  MaxPlans = 2
SPECIFICATION SSpec
INVARIANTS ReferencesAreExact PlansStayWhole
PROPERTIES NothingMoves
