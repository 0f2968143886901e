CONSTANTS
  Hosts <- MCHosts
  Layer = "udp"
  Echoes <- MCUdpEchoes
  Requests <- MCUdpRequests
  NoPort = NoPort
  MaxRequests = 2
SPECIFICATION Spec
PROPERTY EchoQuiesces
CHECK_DEADLOCK FALSE
