\* Poll context and interrupt sharing one list under AtomicLock: no request
\* is lost, and every request raised by either context is serviced.
CONSTANTS
  Node <- MCNode
  Heads <- MCHeads
  Null = Null
  MaxRequests = 4
SPECIFICATION Spec
INVARIANT NoLostRequest
PROPERTY RequestServiced
