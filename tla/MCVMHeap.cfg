CONSTANTS
  Blocks = {b1, b2, b3, b4, b5}
  M = 64
  hb = 3
  lmt = 19
  sth = 4
  aln = 2
  Sizes = {1, 2, 3, 6, 7}
SPECIFICATION Spec
SYMMETRY Symmetry
INVARIANTS DescriptorsConserved InBounds NoOverlap Compacted NoLeak NoFalseOutOfMemory
PROPERTIES LiveBlocksStay ImplementsHeapSpec

