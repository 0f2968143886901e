\* ptp::Time fields taken apart and rebuilt by the constructor.
CONSTANTS
  SUBNS_PER_NSEC = 4
  NSEC_PER_USEC = 1
  USEC_PER_SEC = 3
  Secs <- MCSecs
SPECIFICATION Spec
INVARIANT FieldsRoundTrip
