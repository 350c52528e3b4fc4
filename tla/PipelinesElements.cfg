SPECIFICATION MCSpec
CONSTANTS
  Snapshot = {small, wide, large, huge}
  Patchable = {small, wide, large}
  Linkable = {small, wide}
  Registers <- MCRegisters
  Link = {l1, l2}
  Target = {t}
  Block = {b1, b2, b3}
  Outside = {o}
  Unset = Unset
  Nothing = Nothing
  None = None
  small = small
  wide = wide
  large = large
  huge = huge
  Short = 8
  Length = 4
  Halves = 4
  Contents <- MCContents
  Mask = {1}
  Offsets = {0, 1, 4}
  Strides <- MCStrides
  Spans <- MCSpans
  Counts = {1, 2, 63}
  Firsts = {0, 1, 63}
  Bases <- MCBases
INVARIANTS ElementsStartAtTheirOffset
