\* A peripheral with no registered handler raising its bit: does irq_poll return?
CONSTANTS
  Node <- MCNode
  Heads <- MCHeads
  Null = Null
  MaxRaises = 4
  ALLOW_DELETION = TRUE
  REGS_PER_DEVICE = 1024
  DevOf <- MCDevOf
  RegOf <- MCRegOf
SPECIFICATION Spec
PROPERTY IsrReturns
CHECK_DEADLOCK FALSE
