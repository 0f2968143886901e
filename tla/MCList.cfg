\* The list methods under the caller contract; reset() only with 0.
CONSTANTS
  Node <- MCNode
  Heads <- MCHeads
  Null = Null
  ResetItems = {Null}
  ForeignRemove = FALSE
SPECIFICATION Spec
INVARIANT WellFormed
PROPERTY Refines
