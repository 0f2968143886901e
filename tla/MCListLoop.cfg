\* has_loop on every memory over one head and four nodes; the call returns,
\* so its final state has no successor.
CONSTANTS
  Node <- MCNode
  Heads <- MCHeads
  Null = Null
SPECIFICATION Spec
INVARIANT HasLoopCorrect
PROPERTY HasLoopTerminates
CHECK_DEADLOCK FALSE
