SPECIFICATION MCSpec
CONSTANTS
  t1 = t1
  t2 = t2
  e1 = e1
  z1 = z1
  up = up
  pk = pk
  un = un
  vx = vx
  ix = ix
  m1 = m1
  s1 = s1
  r1 = r1
  r2 = r2
  p1 = p1
  p2 = p2
  g1 = g1
  q1 = q1
  l1 = l1
  b1 = b1
  b2 = b2
  Plenty = Plenty
  Nothing = Nothing
  Image <- MCImage
  Color <- MCColor
  Depth <- MCDepth
  Texture <- MCTexture
  Buffer <- MCBuffer
  Source <- MCSource
  Destination <- MCDestination
  TargetOf <- MCTargetOf
  Memory <- MCMemory
  Sampler <- MCSampler
  Pass <- MCPass
  Timeline <- MCTimeline
  Pipeline <- MCPipeline
  QueryPool <- MCQueryPool
  Framebuffer <- MCFramebuffer
  Sampled <- MCTexture
  Readable <- MCUniform
  VertexData = {vx}
  IndexData = {ix}
  Graphical = {g1}
  Textured = {p1}
  Storing = {p1, p2}
  Occlusion = {q1}
  Unit = {0, 1}
  Columns = 2
  Rows = 2
  Length = 2
  Staging = 4
  Packet = 2
  PacketRows = 1
  Revision = {Plenty, 1}
  Left = {Plenty, 1}
  Value = {0, 1}
CHECK_DEADLOCK FALSE
INVARIANTS
  NothingBoundIsGone
  FramesAreTheirPasses
  ContextCanEnd
