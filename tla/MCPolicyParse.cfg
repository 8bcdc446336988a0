SPECIFICATION Spec
CONSTANTS
  Documents <- MCDocuments
  Nodes <- MCNodes
  Broken = Broken
INVARIANTS AcceptedIsWhole CompleteNotRefused
PROPERTY ActionUnderItsName
