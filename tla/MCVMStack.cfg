CONSTANTS
  size = 13
  sb = 2
  CB = 4
  Code = {0, 1}
  len = 2
  entry = 1
  Vals = {0, 1, 2}
  Argc = {0, 1}
  PopCounts = {1, 2}
  RetCounts = {0, 1, 2, 3}
  AllocaReqs <- WholeWords
  NativeFns = {"Getpid", "Stat", "Flock"}
SPECIFICATION Spec
INVARIANTS StackClearOfHeap ReturnNeverAborts
PROPERTY ImplementsCallSpec
CHECK_DEADLOCK FALSE
