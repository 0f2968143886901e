CONSTANTS
  SUBNS_PER_NSEC = 2
  NSEC_PER_USEC = 2
  USEC_PER_SEC = 3
  TICKS_PER_SUBNS = 4
  NominalHz = 8
  ActualHz = 9
  RATE_ONE = 3
  RATE_BITS = 8
  Dts <- MCDts
  Amounts <- MCAmounts
  SetTimes <- MCSetTimes
  Offsets <- MCOffsets
  MaxSteps = 5
SPECIFICATION Spec
INVARIANT NcoConservesTicks
INVARIANT RtcRoundsToNearest
CHECK_DEADLOCK FALSE
