------------------------------ MODULE NetEcho ------------------------------
(***************************************************************************)
(* ProtoEcho (satcat5/net_echo.h) attached to a Dispatch on each of a few  *)
(* hosts, which exchange frames over a network that may lose and reorder   *)
(* them.  A frame is abstracted to its addressing: source and destination  *)
(* host, the Type the receiving Dispatch demultiplexes on, and (for UDP)   *)
(* the source port.  Payloads are copied unchanged and left out.           *)
(*                                                                         *)
(*  - eth::ProtoEcho(iface, type_req, type_ack): frames of EtherType       *)
(*    type_req are copied back to their sender as type_ack.                *)
(*  - udp::ProtoEcho(iface, port): datagrams to port are copied back to    *)
(*    the sender's source port, from port.                                 *)
(*                                                                         *)
(* Dispatch delivery and open_reply (net_dispatch.cc, not in this          *)
(* repository) follow spec 4.G: the first registered protocol whose Type   *)
(* matches gets the frame, an unmatched frame is dropped and counted, and  *)
(* the reply address latched for frame_rcvd is the frame's sender.         *)
(***************************************************************************)
EXTENDS Naturals, Bags, BagsExt

CONSTANTS
  Hosts,        \* hosts, each with one Dispatch
  Layer,        \* "eth" or "udp": which ProtoEcho wrapper the hosts use
  Echoes,       \* the ProtoEcho objects: [host, req, ack]
  Requests,     \* frames a host's other code may send (the requests)
  NoPort,       \* the source port of an Ethernet frame (there is none)
  MaxRequests   \* requests sent per behaviour (bounds the model)

ASSUME Layer \in {"eth", "udp"}

VARIABLES
  net,       \* bag of frames in flight
  sent,      \* requests sent so far
  dropped    \* frames the Dispatches dropped as unmatched

vars == <<net, sent, dropped>>

Frame(s, d, t, sp) == [src |-> s, dst |-> d, type |-> t, sport |-> sp]

\* The udp wrapper passes its one port as both type_req and type_ack.
UdpEcho(h, port) == [host |-> h, req |-> port, ack |-> port]
EthEcho(h, req, ack) == [host |-> h, req |-> req, ack |-> ack]

\* Dispatch::deliver: the protocols of host h registered for Type t.
Bound(h, t) == {p \in Echoes : p.host = h /\ p.req = t}

(***************************************************************************)
(* ProtoEcho::frame_rcvd: open_reply(m_replytype) and copy the frame.  The *)
(* reply goes to the latched sender: for Ethernet with EtherType type_ack; *)
(* for UDP to the sender's source port, from the echo's own port.          *)
(***************************************************************************)
Reply(p, f) ==
  IF Layer = "udp" THEN Frame(p.host, f.src, f.sport, p.ack)
                   ELSE Frame(p.host, f.src, p.ack, NoPort)

Init == net = EmptyBag /\ sent = 0 /\ dropped = 0

\* A host's own code sends a request (e.g. a ping client).
Send(f) ==
  /\ sent < MaxRequests
  /\ net' = BagAdd(net, f)
  /\ sent' = sent + 1
  /\ UNCHANGED dropped

\* The Dispatch of f.dst receives f: the first matching protocol's
\* frame_rcvd replies; with none, the frame is dropped with a counter.
Deliver(f) ==
  /\ BagIn(f, net)
  /\ IF Bound(f.dst, f.type) = {}
       THEN /\ net' = BagRemove(net, f)
            /\ dropped' = dropped + 1
       ELSE LET p == CHOOSE q \in Bound(f.dst, f.type) : TRUE
            IN  /\ net' = BagAdd(BagRemove(net, f), Reply(p, f))
                /\ UNCHANGED dropped
  /\ UNCHANGED sent

\* The network loses a frame.
Lose(f) ==
  /\ BagIn(f, net)
  /\ net' = BagRemove(net, f)
  /\ UNCHANGED <<sent, dropped>>

Next ==
  \/ \E f \in Requests : Send(f)
  \/ \E f \in BagToSet(net) : Deliver(f) \/ Lose(f)

(***************************************************************************)
(* Fairness: a frame in flight is eventually delivered or lost (the        *)
(* network and the receiving poll loop keep running).  Senders get none.   *)
(***************************************************************************)
Spec == Init /\ [][Next]_vars /\ WF_vars(\E f \in BagToSet(net) : Deliver(f) \/ Lose(f))

-----------------------------------------------------------------------------
TypeOK ==
  /\ IsABag(net) /\ sent \in 0 .. MaxRequests /\ dropped \in Nat

(***************************************************************************)
(* Echo traffic dies out: after the requests stop, the network eventually  *)
(* stays empty -- every reply is consumed or dropped by its receiver and   *)
(* does not trigger another echo.  net_echo.h line 41 warns that an echo   *)
(* whose reply Type is its request Type can answer itself forever.         *)
(***************************************************************************)
EchoQuiesces == <>[](net = EmptyBag)

=============================================================================
