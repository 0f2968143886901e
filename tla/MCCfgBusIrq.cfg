CONSTANTS
  Node <- MCNode
  Heads <- MCHeads
  Null = Null
  MaxRaises = 4
  ALLOW_DELETION = TRUE
  REGS_PER_DEVICE = 1024
  DevOf <- MCDevOf
  RegOf <- MCRegOf
SPECIFICATION Spec
PROPERTY NoLostInterrupt
CHECK_DEADLOCK FALSE
