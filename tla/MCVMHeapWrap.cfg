\* A request so large that top + size wraps the word.
CONSTANTS
  Blocks = {b1, b2}
  M = 64
  hb = 3
  lmt = 19
  sth = 4
  aln = 2
  Sizes = {2, 62}
SPECIFICATION Spec
INVARIANT WithinLimit
