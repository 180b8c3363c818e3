SPECIFICATION Spec
CONSTANTS
  Mains <- MCMains
  Globals <- Parser
  Argvs <- MCArgvs
INVARIANTS
  ValuesPresent
  RestBehindMarker
PROPERTIES
  NamedFlagIsMeant
  ParsingEnds
CHECK_DEADLOCK FALSE
