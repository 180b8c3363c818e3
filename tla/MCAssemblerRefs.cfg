\* Checks every kind of reference, labels behind the last instruction and variables declared late included.
CONSTANTS
  Labels = {"main", "L"}
  Vars = {"x", "y"}
  Defines <- MCDefines
  Initializers <- MCInitializers
  Operands <- MCOperands
  MaxErrors = 1
SPECIFICATION Spec
INVARIANT AllReferencesPatched
CHECK_DEADLOCK FALSE
