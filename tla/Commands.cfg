SPECIFICATION MCSpec
CONSTANTS
  i1 = i1
  i2 = i2
  z1 = z1
  b1 = b1
  b2 = b2
  m1 = m1
  s1 = s1
  r1 = r1
  p1 = p1
  p2 = p2
  g1 = g1
  q1 = q1
  f1 = f1
  h1 = h1
  h2 = h2
  x1 = x1
  d1 = d1
  k1 = k1
  c1 = c1
  c2 = c2
  Plenty = Plenty
  Nothing = Nothing
  Image <- MCImage
  Color <- MCColor
  Depth <- MCDepth
  Buffer <- MCBuffer
  Source <- MCSource
  Destination <- MCDestination
  Readable <- MCReadable
  VertexData <- MCVertexData
  IndexData <- MCIndexData
  Memory <- MCMemory
  Sampler <- MCSampler
  Pass <- MCPass
  Timeline <- MCTimeline
  Pipeline <- MCPipeline
  QueryPool <- MCQueryPool
  Command <- MCCommand
  Value <- MCValue
  Sampled = {i1}
  Graphical = {g1}
  Textured = {p1}
  Storing = {p1, p2}
  Occlusion = {q1}
  View = {x1}
  Set = {d1}
  CommandPool = {k1}
  CommandBuffer = {c1, c2}
  Fence = {f1}
  Semaphore = {h1, h2}
  Columns = 2
  Rows = 2
  Length = 3
  Staging = 4
  Packet = 2
  PacketRows = 1
  MaxCommands = 3
  PerPool = 2
  Revision = {Plenty, 1}
  Left = {Plenty, 1}
INVARIANTS
  ChildrenAreCounted
  WrappersAreLive
  PassesAreInside
  SubmissionIsItsCommands
  TransfersRestore
PROPERTIES
  SignalsFollowWork
