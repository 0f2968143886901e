\* reset(item) with an item that an earlier reset() dropped.
CONSTANTS
  Node <- MCNode
  Heads <- MCHeads
  Null = Null
  ResetItems = {Null, "n1", "n2", "n3"}
  ForeignRemove = FALSE
SPECIFICATION Spec


PROPERTY Refines
