CONSTANTS
  Labels = {"main", "L"}
  Vars = {"x", "y"}
  Defines <- MCDefines
  Initializers <- MCInitializers
  Operands <- MCOperands
  MaxErrors = 1
SPECIFICATION Spec
INVARIANTS JumpsResolve OperandsSurvive LayoutAgrees PatchesAreMeant
PROPERTY ExitTellsTheFile
CHECK_DEADLOCK FALSE
