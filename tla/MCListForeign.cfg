\* remove(x) called on a list x is not on, while x is on another list.
CONSTANTS
  Node <- MCNode
  Heads <- MCHeads
  Null = Null
  ResetItems = {Null}
  ForeignRemove = TRUE
SPECIFICATION Spec


PROPERTY Refines
