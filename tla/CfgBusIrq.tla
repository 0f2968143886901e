----------------------------- MODULE CfgBusIrq -----------------------------
(***************************************************************************)
(* The shared ConfigBus interrupt (satcat5/cfgbus_core.h, spec 4.E).       *)
(* Every peripheral's interrupt-status bit feeds one interrupt line, the   *)
(* logical OR of them.  Handlers (cfg::Interrupt) are kept on the          *)
(* intrusive list ConfigBus::m_irq_list.  When the line rises, the         *)
(* interrupt controller latches an event; ConfigBusMmap::irq_event then    *)
(* runs irq_poll(), which walks the list and, for every handler whose      *)
(* status bit is set, acknowledges it and calls the handler.  Status bits  *)
(* set during the walk, behind the walk's position, leave the line high    *)
(* with no new edge, so at the end of the walk irq_poll polls again while  *)
(* the line is high and only then re-arms (spec 4.E, "follow-up poll").    *)
(*                                                                         *)
(* register_irq / unregister_irq run in the poll context under an          *)
(* AtomicLock, so they never interleave with the walk.  The walk runs in   *)
(* interrupt context one handler per step, interleaved only with the       *)
(* peripherals, which may raise their status bits at any time.  The bodies *)
(* of register_irq, unregister_irq and irq_poll are in cfgbus_core.cc,     *)
(* which this repository does not hold, and are written from spec 4.E.     *)
(***************************************************************************)
EXTENDS ListCore

CONSTANTS
  MaxRaises,        \* interrupts raised by the peripherals (bounds the model)
  ALLOW_DELETION,   \* the build option SATCAT5_ALLOW_DELETION (types.h)
  REGS_PER_DEVICE,  \* registers per ConfigBus device
  DevOf,            \* DevOf[x]: device address of peripheral x
  RegOf             \* RegOf[x]: register index of x's interrupt control

\* The gateware decodes address REGS_PER_DEVICE * device + register with
\* register below REGS_PER_DEVICE (spec section 6): one register each.
HwAddr(x) == REGS_PER_DEVICE * DevOf[x] + RegOf[x]
Addrs == {HwAddr(x) : x \in Node}

ASSUME /\ MaxRaises \in Nat /\ ALLOW_DELETION \in BOOLEAN
       /\ \A x \in Node : RegOf[x] \in 0 .. REGS_PER_DEVICE - 1
       /\ \A x, y \in Node : HwAddr(x) = HwAddr(y) => x = y

VARIABLES
  mem,      \* m_irq_list and every handler's m_next
  regs,     \* regs[a]: the interrupt-status bit at register address a
  pending,  \* history: pending[x] = x raised since its last callback
  latch,    \* the interrupt controller holds an event not yet taken
  inIsr,    \* irq_event / irq_poll is running
  cur,      \* the handler irq_poll visits next (Null: end of the list)
  raises,   \* interrupts raised so far
  alive     \* handler objects not yet destroyed

vars == <<mem, regs, pending, latch, inIsr, cur, raises, alive>>

\* ConfigBus::m_irq_list.
Q == CHOOSE h \in Heads : TRUE

Registered(x) == contains(mem, Q, x)

\* Mutant: the arguments of get_regaddr taken in the wrong order.
RegaddrSwapped(dev, reg) == REGS_PER_DEVICE * reg + dev

\* ConfigBus::get_regaddr: combined address of a device's register.
get_regaddr(dev, reg) == REGS_PER_DEVICE * dev + reg

\* The register a handler polls and acknowledges: get_register(dev, reg).
CtrlAddr(x) == get_regaddr(DevOf[x], RegOf[x])

\* ConfigBusMmap::read / write of a status bit; an address no peripheral
\* decodes reads as 0 and ignores writes.
ReadReg(a) == a \in Addrs /\ regs[a]
AckReg(a) == IF a \in Addrs THEN [regs EXCEPT ![a] = FALSE] ELSE regs

\* The shared line: "the logical OR of interrupts from all attached
\* peripherals" (cfgbus_core.h 150-151), whether or not a handler is
\* registered for them.
LineOf(r) == \E x \in Node : r[HwAddr(x)]

\* The controller latches a rising edge of the line.
LatchEdge == latch' = (latch \/ (~LineOf(regs) /\ LineOf(regs')))

Init ==
  /\ mem = [l \in Loc |-> Null]
  /\ regs = [a \in Addrs |-> FALSE] /\ pending = [x \in Node |-> FALSE]
  /\ latch = FALSE /\ inIsr = FALSE /\ cur = Null
  /\ raises = 0
  /\ alive = Node

\* register_irq(obj): add obj to m_irq_list, once (list.h line 29).
RegisterIrq(x) ==
  /\ ~inIsr
  /\ x \in alive /\ ~Registered(x)
  /\ mem' = add(mem, Q, x)
  /\ latch' = latch
  /\ UNCHANGED <<regs, pending, inIsr, cur, raises, alive>>

\* unregister_irq(obj): remove obj from m_irq_list.
UnregisterIrq(x) ==
  /\ ~inIsr
  /\ mem' = remove(mem, Q, x)
  /\ latch' = latch
  /\ UNCHANGED <<regs, pending, inIsr, cur, raises, alive>>

\* The handler's destructor, declared SATCAT5_OPTIONAL_DTOR: with
\* SATCAT5_ALLOW_DELETION it unregisters the handler (spec 9, "unregister
\* on drop"); without, its body is the empty placeholder.
OptionalDtor(m, x) == IF ALLOW_DELETION THEN remove(m, Q, x) ELSE m

\* The poll context destroys a handler object.
Destroy(x) ==
  /\ ~inIsr
  /\ x \in alive
  /\ alive' = alive \ {x}
  /\ mem' = OptionalDtor(mem, x)
  /\ latch' = latch
  /\ UNCHANGED <<regs, pending, inIsr, cur, raises>>

\* A peripheral raises its interrupt-status bit (hardware, at any time).
Raise(x) ==
  /\ raises < MaxRaises
  /\ ~regs[HwAddr(x)]
  /\ regs' = [regs EXCEPT ![HwAddr(x)] = TRUE]
  /\ pending' = [pending EXCEPT ![x] = TRUE]
  /\ raises' = raises + 1
  /\ UNCHANGED <<mem, inIsr, cur, alive>>
  /\ LatchEdge

\* The controller enters ConfigBusMmap::irq_event, which calls irq_poll():
\* the walk starts at the head of the list.
IrqEvent ==
  /\ latch /\ ~inIsr
  /\ latch' = FALSE /\ inIsr' = TRUE
  /\ cur' = mem[Q]
  /\ UNCHANGED <<mem, regs, pending, raises, alive>>

\* irq_poll visits one handler: if its status register reads set,
\* acknowledge it and issue the callback; then move on to the next one.
IrqVisit ==
  /\ inIsr /\ cur /= Null
  /\ IF ReadReg(CtrlAddr(cur))
       THEN regs' = AckReg(CtrlAddr(cur)) /\ pending' = [pending EXCEPT ![cur] = FALSE]
       ELSE UNCHANGED <<regs, pending>>
  /\ cur' = next(mem, cur)
  /\ latch' = latch
  /\ UNCHANGED <<mem, inIsr, raises, alive>>

\* Mutant: irq_poll re-arms at the end of the walk without a follow-up poll.
IrqDoneNoFollowUp ==
  /\ inIsr /\ cur = Null
  /\ inIsr' = FALSE
  /\ UNCHANGED <<mem, regs, pending, latch, cur, raises, alive>>

\* End of the walk: poll again while the line is still high, else re-arm.
IrqDone ==
  /\ inIsr /\ cur = Null
  /\ IF LineOf(regs)
       THEN cur' = mem[Q] /\ inIsr' = TRUE
       ELSE inIsr' = FALSE /\ cur' = cur
  /\ UNCHANGED <<mem, regs, pending, latch, raises, alive>>

Isr == IrqEvent \/ IrqVisit \/ IrqDone

Next ==
  \/ \E x \in Node : RegisterIrq(x) \/ UnregisterIrq(x) \/ Destroy(x) \/ Raise(x)
  \/ Isr

(***************************************************************************)
(* Fairness: a latched event is taken once interrupts are enabled, and the *)
(* handler runs to its end -- weak fairness on the interrupt's steps.      *)
(* Registration and the peripherals get none: they may stop at any time.   *)
(***************************************************************************)
Spec == Init /\ [][Next]_vars /\ WF_vars(Isr)

-----------------------------------------------------------------------------
TypeOK ==
  /\ mem \in Mem /\ regs \in [Addrs -> BOOLEAN] /\ pending \in [Node -> BOOLEAN]
  /\ latch \in BOOLEAN /\ inIsr \in BOOLEAN /\ cur \in Ptr
  /\ raises \in 0 .. MaxRaises /\ alive \subseteq Node

(***************************************************************************)
(* No interrupt is lost: a peripheral raised while its handler is         *)
(* registered eventually gets its handler's callback, or is unregistered.  *)
(* It fails if a bit set behind the walk's position, while another bit     *)
(* keeps the line high, is left for an edge that never comes; or if two    *)
(* handlers' register addresses (get_regaddr) do not match the gateware's, *)
(* so one handler acknowledges another's bit.                              *)
(***************************************************************************)
NoLostInterrupt ==
  \A x \in Node : (pending[x] /\ Registered(x)) ~> (~pending[x] \/ ~Registered(x))

(***************************************************************************)
(* Every interrupt returns: once irq_event has started, irq_poll           *)
(* eventually re-arms and leaves interrupt context.  It fails if a         *)
(* peripheral with no registered handler (never registered, unregistered   *)
(* or destroyed with its bit set) holds the shared line high: no walk      *)
(* acknowledges its bit, so the follow-up poll repeats forever and the     *)
(* poll context, register_irq included, never runs again.                  *)
(***************************************************************************)
IsrReturns == inIsr ~> ~inIsr

=============================================================================
