CONSTANTS
  OnDemand = {o1, o2}
  Always = {a1}
  Timers = {"t1", "t2"}
  Period <- MCPeriod
  USEC_PER_MSEC = 2
  Dts = {1, 3}
  MaxUsec = 6
  MaxRequests = 3
  None = None
SPECIFICATION Spec
INVARIANT RequestNotLost
PROPERTY TimerFires
CHECK_DEADLOCK FALSE
