CONSTANTS
  Keys <- MCKeys
  MaxNodes = 8
SPECIFICATION Spec
INVARIANTS LinksAgree IterationIsSorted FindsWhatWasAdded OnlyNodeViolates
PROPERTY InsertEnds
