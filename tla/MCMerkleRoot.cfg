SPECIFICATION Spec
CONSTANTS
  MaxLeaves <- MCMaxLeaves
  CBMT <- MCTree
  Zero = Zero
  Witness = Witness
INVARIANTS
  QueueIsLevel
  RootIsCBMT
PROPERTIES
  RootIsFound
CHECK_DEADLOCK FALSE
