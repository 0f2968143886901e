----------------------------- MODULE MCNetEcho -----------------------------
EXTENDS NetEcho

\* Two hosts, each with an echo service, that also ping each other.
MCHosts == {"A", "B"}

\* Ethernet: echo EtherType REQ back as ACK, on both hosts (net_echo.h
\* line 41: request and reply EtherTypes differ).
MCEthEchoes == {EthEcho(h, "REQ", "ACK") : h \in MCHosts}

\* Pings both ways, a stray ACK, and a frame of an unbound EtherType.
MCEthRequests ==
  {Frame("A", "B", "REQ", NoPort), Frame("B", "A", "REQ", NoPort),
   Frame("A", "B", "ACK", NoPort), Frame("B", "A", "OTHER", NoPort)}

\* UDP: udp::ProtoEcho on PORT_ECHO on both hosts.
MCUdpEchoes == {UdpEcho(h, "PORT_ECHO") : h \in MCHosts}

\* A ping from an ephemeral port, and a datagram whose source port is
\* PORT_ECHO (an echo reply, or a datagram sent from that port).
MCUdpRequests ==
  {Frame("A", "B", "PORT_ECHO", "P4000"), Frame("A", "B", "PORT_ECHO", "PORT_ECHO")}
=============================================================================
