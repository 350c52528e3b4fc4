SPECIFICATION PSpec
CONSTANTS
  Owner = {m1, m2, r1, r2, r3, vs, ps}
  Memory = {m1, m2}
  Resource = {r1, r2, r3}
  Vertex = vs
  Pixel = ps
  Nothing = Nothing
  HeapBytes = 8
  Align = 2
  MaxBlocks = 3
  WordMax = 9
  MaxBinds = 2
  Sizes = {2, 3, 6, 9}
INVARIANTS HoleIsFound NothingIsOrphaned SpansAreBindings
PROPERTIES HeapSpec ExtentsSpec
