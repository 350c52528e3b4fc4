SPECIFICATION FairSpec
CONSTANTS
  Words = {w}
  Marker = {m}
  Color = {c}
  NoBlock = NoBlock
  NoLine = NoLine
  MaxSequence = 3
  MaxWait = 1
INVARIANTS
  InFlightIsRetained
  MarkerIsOwn
  NoModuleLeaks
PROPERTIES
  CompletionIsReal
  PixelsAreVisible
  LeaseSpec
  AcceptedWorkCompletes
