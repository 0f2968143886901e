# TLA+ models of the satcat5 C++ library

This directory holds TLA+ models of the parts of the satcat5 C++ library
(`src/src/cpp/`) that TLC can check, and the TLC configurations that check
them. `PROJECT.json` lists the components, runs, mutants, findings and
hazards, and maps each definition to the source lines it models.

## 1. The system and its parts (inventory)

The repository holds seven C++ files of the library. `spec.md` describes the
rest of the library (polling, network stack, PTP, ConfigBus drivers).

| Part | Source in the repository | State | Operations that change state |
|---|---|---|---|
| Intrusive list | `satcat5/list.h` (complete) | `List::m_head` and one `m_next` pointer in every item | add, add_safe, add_list, push_front, push_back, insert_after, pop_front, remove, reset; also the readers contains, len, get_index, has_loop, next |
| PTP time value | `satcat5/ptp_time.h` (the inline half; the arithmetic is in ptp_time.cc, not present) | `m_secs` (s64), `m_subns` (sub-nanoseconds, 1/65536 ns) | constructors, the field_\* and round_\* accessors, correction, +, -, scaling |
| Simulated clock and timer | `hal_test/ptp_simclock.cc` | `m_rtc`, `m_nco_accum`, `m_offset`, the coarse and fine counters; the timer's `m_treg` | clock_adjust, clock_set, clock_rate, run(dt), SimulatedTimer::run(dt) |
| ConfigBus core | `satcat5/cfgbus_core.h` (declarations and the address helper) | register map; `m_irq_list` of interrupt handlers | read/write, register_irq, unregister_irq, irq_poll (called from ConfigBusMmap::irq_event) |
| Polling (Always, OnDemand, Timer, timekeeper) | forward declarations in `types.h` | intrusive lists of pollers, request flags, timer counters | request_poll, the service loop, the timer tick |
| Network dispatch, protocols, echo | `net_echo.h` (declarations); the rest not present | per-Dispatch list of protocols | deliver, bind, unbind, echo reply |
| Ethernet/ARP, IPv4/routing, UDP | forward declarations only | ARP cache, route table, socket table | probe, reply, lookup, bind |
| PTP client and controllers | forward declarations only | client state, timestamps, filter state | message handlers, the rate and step policy |
| PCAP reader and writer | `hal_posix/file_pcap.h` (declarations) | file position, the `m_buff` buffer | open, read, write |
| Build options | `satcat5/types.h` | none (`SATCAT5_ALLOW_DELETION` selects whether destructors run) | none |

### How the parts interact

The intrusive list sits under almost everything. Pollers, timers, interrupt
handlers, ConfigBus IRQ handlers and network protocols all register by
linking their own `m_next` into a list. Interrupt handlers run against the
poll loop. `list.h:33` leaves it to the caller to take `AtomicLock` around
list calls that an interrupt can interleave with.

The shared ConfigBus interrupt walks `m_irq_list` in interrupt context. The
PTP client reads timestamps from a clock and corrects it through
`clock_adjust` and `clock_rate`. `SimulatedClock` stands in for that clock in
the tests, and `SimulatedTimer` drives the poll timekeeper.

### What is hard in this code

- **List pointer writes.** The list's pointer writes happen in sequence. An
  interrupt between two of them loses an item or makes a loop. So does a
  pointer found by a scan and used after the list changed.
- **Unchecked list misuse.** Items can be added twice, reset with stale
  `m_next` values, or removed from the wrong list. Nothing checks this at run
  time. Walks over a looped list (`len`, `contains`) never return; only
  `has_loop` survives one.
- **Edges on the shared IRQ line.** The interrupt is an OR of all the
  attached peripherals, registered or not. A bit raised behind the walk,
  while the line is held high, produces no new edge. A bit that no
  registered handler acknowledges holds the line high for ever.
- **Handler lifetime.** Destroying a registered handler is safe only if its
  destructor, which the build can compile out, unregisters it.
- **Fixed-width clock arithmetic.** This covers sub-nanosecond carries, the
  split of a Time into PTP fields, remainders kept or dropped at every step, the
  u64 cast of a trimmed rate, and microsecond rounding in the timer.

### Correctness properties, by part

- **List.** Every list is a finite chain and no item is reachable twice.
  Every method changes the item sequences as its name says. `has_loop`
  always returns, and returns the right answer. With the lock, no request
  pushed by an interrupt is lost, and every request is eventually serviced.
- **Time and SimulatedClock.** The PTP fields rebuild the Time. Rounding
  carries into the seconds. The NCO
  loses and invents no tick. The timekeeper's timer does not drift from the
  time the test advanced.
- **ConfigBus interrupts.** No interrupt of a registered peripheral is lost.
  Every interrupt returns; it does not when a peripheral with no registered
  handler has its bit set (`cfgbus_irq_storm`).

## 2. Modules

| Module | Models | State and actions |
|---|---|---|
| `ListCore` | the `ListCore` templates, `list.h:42-172` | Not a state machine. The memory is `mem \in [Loc -> Ptr]`, with `Loc = Heads \cup Node`. List heads and `m_next` fields are both cells that hold a pointer, so a `T**` is a `Loc`. Each template is an operator from memory to memory, with its EXCEPTs in the code's assignment order. Walks are RECURSIVE with fuel `Cardinality(Node)+1`. `Cyclic` is the pigeonhole reference definition of a loop. |
| `ListSeq` | what `List<T>` promises | The abstract specification: `lists[h]` is a sequence of distinct items, and each method is one action on the sequences. |
| `List` | the `List<T>` methods, `list.h:175-214` | `mem`. One action per mutating method, each guarded by the caller contract of `list.h:18-33`. `Refines` checks it against `INSTANCE ListSeq WITH lists <- AbsLists`, where `AbsLists` is the chain from each head. |
| `ListLoop` | `ListCore::has_loop`, `list.h:99-112` | `slow`, `fast`, `pc`, `result`. One loop iteration per step, started on every memory of 1 head and 4 nodes. |
| `ListIrq` | the poll context against an interrupt, on one list | The poll context runs `add_safe`, `pop_front` and `remove` one statement per step, inside an `AtomicLock`. An interrupt runs a whole `add_safe` whenever interrupts are unmasked. `pending` is a history variable. |
| `PtpTime` | `ptp::Time`, `ptp_time.h` | Not a state machine. A Time is the record `[secs, subns]`; the inline accessors are operators, and the scale factors are CONSTANTS. `operator+`, `delta_subns`, `delta_usec` and `util::div_round` are in files that are not present and are written from spec 4.A. |
| `PtpTimeOps` | the PTP fields of `ptp::Time`, `ptp_time.h:61-71` and `105-109` | A test bench for the field accessors. The state is one Time `a`, and `Operand` moves to any other. `TimeFields` is the `Time(seconds, ns, subns)` constructor, from spec 4.A because its body is in `ptp_time.cc`, which is not present. |
| `SimClock` | `SimulatedClock` and `SimulatedTimer`, `ptp_simclock.cc` | `rtc`, `accum` (the NCO accumulator), `offset`, the two counters, `treg`, and the timekeeper's poll request. One action per method. `ticks` and `elapsed` are history variables: what the clock and the timer were given. |
| `CfgBusIrq` | the shared ConfigBus interrupt, `cfgbus_core.h` and spec 4.E, over `ListCore` | `mem` (`m_irq_list`), `regs` (the interrupt-status registers, one per gateware address `1024·device + register`; `pending` is a history of raises not yet called back), the controller's edge latch, `inIsr` and `cur` (the `irq_poll` walk, one handler per step), and the set of live handler objects. Register, unregister and destroy are atomic poll-context steps (under `AtomicLock`). Peripherals raise their bits at any time. A handler reads and acknowledges the register at `get_regaddr(dev, reg)` through `WrappedRegister`/`ConfigBusMmap`. An address that no peripheral decodes reads 0. `ALLOW_DELETION` is `SATCAT5_ALLOW_DELETION`. |
| `NetEcho` | `eth::ProtoEcho` and `udp::ProtoEcho` (`net_echo.h`) on one Dispatch per host, spec 4.G | `net` is the bag of frames in flight, `sent` counts requests, `dropped` counts frames no protocol matched. A frame is reduced to its source, destination, Type and UDP source port. `Send` is a host's own traffic. `Deliver` is the receiving Dispatch: the matching echo copies the frame back to the sender with its reply Type, and an unmatched frame is dropped and counted. `Lose` is the network dropping a frame. Using a bag lets frames be reordered. |
| `Polling` | the `poll` scheduler (spec 4.D and section 5; only forward declarations are in `types.h`), with `SimulatedTimer`'s `m_treg` as its clock | `raw` is the microsecond clock; `SimulatedTimer::run` advances it. `tref` and `nowMs` belong to the timekeeper. `flag` and `queue` hold the OnDemand requests, and `batch` is the cycle's share of them. `phase`, `todo` and `running` are the service cycle. `deadline` holds each Timer's deadline. `wanted` is a history variable. `RequestPoll` can come from an interrupt at any step or from inside a callback. A cycle is `StartCycle` (tick, then take the queue), then `ServeOnDemand`, `ServeAlways` and `ServeTimer` phases joined by `NextPhase`. Each callback ends in `Return`. `Unregister` cancels or destroys a task from another callback or between cycles: the task leaves the queue, the cycle's snapshot and its phase. From the task's own callback, `Unregister` sets `cancel`, and `Return` honours it (spec 5). `reg` is the set of registered tasks. |

`MCList`, `MCListLoop`, `MCListIrq`, `MCPtpTime`, `MCSimClock`, `MCCfgBusIrq`, `MCNetEcho` and `MCPolling` give the
constants their model values.

## 3. Runs

| Run | Config | Expect | What it shows |
|---|---|---|---|
| list_contract | `MCList.cfg` | pass | Under the caller contract, every sequence of calls on 2 lists and 3 items keeps `WellFormed` and refines `ListSeq`. |
| list_reset_resurrects | `MCListReset.cfg` | violation | `reset(item)` with an item that an earlier `reset()` dropped brings back the item's old successors: add n1, add n2, reset(n3), reset(n2) gives `[n2, n1]`. |
| list_remove_foreign | `MCListForeign.cfg` | violation | `remove(x)` on a list that does not hold `x` still sets `x->m_next = 0`, which cuts the list `x` is on. |
| has_loop | `MCListLoop.cfg` | pass | `has_loop` returns, and returns true exactly on the looped memories, over all 5^5 memories of 1 head and 4 nodes. |
| list_irq | `MCListIrq.cfg` | pass | With the lock held, the list always holds exactly the requested items, each once; and every request is eventually popped or removed, under the fairness below. |
| ptp_time_ops | `MCPtpTime.cfg` | pass | `FieldsRoundTrip`: on every Time with seconds in -5..5, `field_secs`, `field_nsec` and `correction` form a valid timestamp, and the constructor turns them back into the same Time, as the comment of `ptp_time.h:69` says. |
| sim_clock | `MCSimClock.cfg` | pass | `NcoConservesTicks`: the reading times ticks-per-subns, plus the leftover, always equals the ticks the clock was given, and the leftover stays below one subns. `RtcRoundsToNearest`: `(round_secs, round_nsec)` is a valid timestamp within half a nanosecond of the reading. |
| sim_timer_drift | `MCSimTimer.cfg` | violation | `SimulatedTimer::run` rounds each `dt` to whole microseconds. After three runs of a sub-microsecond `dt`, the timer still reads 0 although 3 subns have passed. |
| cfgbus_irq | `MCCfgBusIrq.cfg` | pass | `NoLostInterrupt` holds with 3 peripherals on two devices and 4 raises, the line being the OR of every attached peripheral. A peripheral may be raised behind the walk while another holds the line high, and handlers may be registered, unregistered and destroyed between walks. |
| cfgbus_irq_storm | `MCCfgBusIrqStorm.cfg` | violation | `IsrReturns` fails. A peripheral raises its bit while no handler for it is registered: before `register_irq`, or after its handler was unregistered or destroyed. No walk acknowledges the bit, so the line stays high and the follow-up poll repeats for ever. |
| echo_udp_loop | `MCNetEchoUdp.cfg` | violation | Two hosts each run `udp::ProtoEcho` on PORT_ECHO. A datagram from A:PORT_ECHO to B:PORT_ECHO is echoed from B:PORT_ECHO back to A:PORT_ECHO, and so on forever. |
| polling_cycle | `MCPolling.cfg` | pass | Requests arrive from interrupts at any step and from inside callbacks. The poll loop is late against two timers of different periods. Clock steps straddle millisecond boundaries. Tasks are also cancelled, from other callbacks and from their own. Under all of this: `RequestNotLost`, a request whose callback has not started is queued for this cycle or the next; `TimerFires`, a timer whose deadline has been reached eventually runs, without the clock having to move on. |

Every property of a passing run has a mutant in `PROJECT.json`: a plausible
bug in the modelled code that TLC shows breaks the property. The mutants are:

- `push_front` with its two assignments swapped;
- `push_back` without the `m_next = 0`;
- `has_loop` starting the hare on the head;
- `has_loop` with the hare moving one step at a time;
- the list calls made without the lock;
- `pop_front` returning 0 while the list holds one item;
- `run` dropping the NCO leftover;
- `round_nsec` without the carry;
- `field_nsec` rounding to nearest instead of down;
- `irq_poll` without the follow-up poll;
- `get_regaddr` with its arguments swapped;
- an OnDemand flag that is never lowered;
- a timer due only once its deadline is strictly past.

### Bounds

- **Lists:** 2 heads and 3 items. That covers an item on another list, a
  middle item, and `add_list` of a 2-item list. Every pointer bug met during
  modelling showed within 3 items.
- **`has_loop`:** 4 nodes. That gives cycles of length 1 to 4 with tails of
  length 0 to 3, odd and even, which is what matters to a hare that moves two
  steps at a time.
- **`ListIrq`:** 3 items and `MaxRequests = 4` requests from both contexts.
  That is enough for an interrupt during each statement of each poll call,
  and for a re-request after service.
- **`MCSimClock`:** Time is scaled to 2 subns/ns, 2 ns/us and 3 us/s (12
  subns per second). There are 4 NCO ticks per subns, an 8 Hz nominal and a
  9 Hz actual oscillator (NCO increment 6, trimmed to 4, 6 or 8), and
  `MaxSteps = 5` calls.
  - `dt` values: 1 subns (below one cycle), 5 subns (not a whole
    microsecond) and 1 s.
  - Steps: -3 and +1 subns, which cross second boundaries.
  - Sets: 11 subns (half a ns before a second) and -1 (negative).
  - These values reach every carry and borrow, and every rounding case.
- **`MCPtpTime`:** 4 subns/ns, 1 ns/us and 3 us/s, so 12 subns per second,
  and seconds over -5..5: 132 Times. `correction` takes every residual 0..3,
  `field_nsec` every value 0..2, and negative Times are included.
- **`CfgBusIrq`:** 3 peripherals and 4 raises. Losing an interrupt needs two
  raised peripherals and a re-raise of the first during the walk. A third
  lets the walk pass a registered handler that was not raised. The
  devices and register indices (p1 at 0:1, p2 at 1:0, p3 at 1:1) make
  two handlers' addresses collide if `get_regaddr`'s arguments are mixed
  up.

- **`NetEcho`:** 2 hosts and `MaxRequests = 3`. One request from PORT_ECHO is enough for the reply loop; the others let requests in both directions be in flight together, reordered and lost.

- **`Polling`:** 2 OnDemand tasks, 1 Always task, and timers of period 1 and 2 ms. There are 2 clock units per ms, steps of 1 and 3 units, the clock stops at 6, and there are 3 requests. A step of 3 straddles a millisecond boundary. A 3-unit step makes the 1 ms timer late while the 2 ms timer is on time. The 3 requests are enough for a re-request of a task during its own callback, next to an interrupt request.

### Fairness

- **`ListLoop`:** weak fairness on the loop. A call that has started keeps
  executing.
- **`ListIrq`:** weak fairness on the poll context's statements, because an
  interrupt always returns. Strong fairness on beginning a `pop_front`,
  because the poll loop services its list whenever it is idle.
  - Requests are bounded by `MaxRequests`. With unbounded requests,
    `RequestServiced` fails. `add` pushes at the front and `pop_front` takes
    the front, so the list behaves as a stack and the oldest request can
    starve.
  - The real service loop (`polling.cc`) is not in this repository.
    Recorded as a hazard.
- **`CfgBusIrq`:** weak fairness on the interrupt's steps. The controller
  takes a latched event once interrupts are unmasked, and the handler runs to
  its end. Registration, destruction and the peripherals get no fairness.
  `IsrReturns` fails under this fairness: the interrupt keeps running,
  but it cannot clear a bit that no registered handler owns.
- **`NetEcho`:** weak fairness on "deliver or lose some frame in flight". The network and each host's poll loop keep running. Which of the two happens is left open, and senders get no fairness.
- **`Polling`:** weak fairness on the poll loop's steps, because spec section 5 says handlers never block and the loop is called forever. `TimerFires` depends on it. Interrupts, cancellation and the clock get no fairness, so the clock may stop at any point.
- **`PtpTimeOps`:** no fairness. The operators keep no state, so only
  safety is checked.
- **`SimClock`:** no fairness. It is checked for safety only.

## 4. Findings

- **`List::reset(item)` (`list.h:213`) resurrects stale successors.** Nothing
  says that `item->m_next` must be 0.
- **`ListCore::remove` (`list.h:171`) clears `m_next` even when the item was
  not found.** The `if (ptr)` guard makes removing an absent item look
  harmless. If the item is on another list, that list is cut.
- **`SimulatedTimer::run` (`ptp_simclock.cc:77`) accumulates rounding.** It
  adds each call's rounding of `delta_usec()`, so the timekeeper drifts from
  the simulated time when a test steps by fractions of a microsecond.
  `SimulatedClock::run` keeps its remainder, so the two simulated clocks
  part.
- **The ConfigBus interrupt storms on a peripheral with no registered
  handler (`cfgbus_core.h:151`).** The line is the OR of all attached
  peripherals, and spec 4.E's `irq_poll` acknowledges only the handlers on
  `m_irq_list` and polls again while the line is high. A bit set before
  `register_irq`, or left set by a handler that was unregistered or
  destroyed, is never cleared, so the interrupt never returns
  (`cfgbus_irq_storm`). Nothing says a peripheral's interrupt must be off
  while it has no handler.
- **`SimulatedClock`'s constructor leaves `m_offset` unset**
  (`ptp_simclock.cc:16-24`). This is a hazard only, because the header that
  might initialise it is not in the repository.

- **`udp::ProtoEcho` cannot follow the warning of `net_echo.h:41`.** The
  warning says request and reply types must differ, and it is given only for
  `eth::ProtoEcho`. The UDP wrapper takes one port and replies from it
  (`net_echo.h:60`). A datagram that arrives from another echo port, or was
  sent from PORT_ECHO, is answered forever by two UDP echo services
  (`echo_udp_loop`). Losing the frame in flight ends the loop, but nothing
  forces a loss, and no host stops answering.

## 5. Plan (in order; later modules build on earlier ones)

1. `ListCore`, `ListSeq`, `List`: done.
2. `ListLoop`: done.
3. `ListIrq`: done.
4. `PtpTime` and `SimClock`: done. Still open:
   - `rtc` refined to an ideal clock running at the actual/nominal rate.
5. `CfgBusIrq`: done. Still open:
   - a handler that unregisters itself during its own callback (spec 4.E and
     §7);
   - the `ListIrq` lock discipline composed with the walk.
6. `Polling`: done. It covers requests, the service cycle, timers and the
   timekeeper. Still open:
   - registration of new tasks at run time;
   - the OnDemand queue as a `ListIrq` list.
7. `PacketBuffer` write, finalize and read, with the `sum(enq) == sum(deq)`
   property of spec 8. From the spec.
8. `NetEcho`: done. It covers delivery by type, the echo reply and the
   reply loop. Still open: bind and unbind of protocols over the list while
   frames arrive.
9. ARP probe and retry, and longest-prefix route lookup as a pure operator
   checked against a reference definition. From the spec.
10. The PTP exchange (Sync, Follow_Up, Delay_Req, Delay_Resp) with lost and
    reordered messages, against an abstract "offset measured from one matched
    exchange" specification.

At most half of the mapped definitions may be written from the spec. Each
step therefore keeps the code under `src/` as its mapped core.

## 6. Not modelled

- **The PCAP codec:** byte-level file I/O, and its bodies are not present.
- **The tracking filters' numerics:** floating and wide fixed point, out of
  TLC's useful reach. Only the step-or-trim policy is planned.
- **ConfigBus bulk transfers (`read_array`, `write_repeat`, ...) and
  register values other than the interrupt-status bits:** these are data
  paths with no control. Only the status registers that `irq_poll` reads
  and acknowledges are modelled.
- **`ptp::Time` arithmetic and comparisons (`-`, unary `-`, `*`, `/`,
  `abs`, `==`, `<`, `>`):** their bodies are in `ptp_time.cc`, which is not
  present. A model written from spec 4.A is exact integer arithmetic, and a
  property about it would only restate the definitions. The inline `!=`,
  `<=` and `>=` are one-line negations of those operators.
- **Echo quiescence for `eth::ProtoEcho`:** whether echo traffic dies out
  depends only on whether the configured request and reply types form a
  cycle. A passing run would show the configuration, not the code, so only
  the UDP reply loop is checked.
- **Polling's bookkeeping invariants:** timers on their period grid, the
  timekeeper's remainder, and no callback after unregistration. Each of them
  restates a single assignment of the scheduler model, which is written from
  the spec, so the run checks only the request queue and timer liveness.
- **`ptp::Time` wire and text forms, and 64-bit overflow:** `read_from` and
  `write_to` carry u48 seconds, and the scaling warning of `ptp_time.h:126`
  is about s64 overflow. TLC's integers are 32-bit, so neither width can be
  kept. `log_to` is formatting, and `to_datetime` is in a file that is not
  present.
- **The `double` arithmetic of `SimulatedClock::run`:** `dt_secs` and the
  cycle count are modelled as exact rational arithmetic with round-half-up,
  so double rounding is not modelled.
- **`ConfigBusRemote`:** spec 4.F and section 5 give one pending transaction,
  a timeout and no retry. They do not say how a reply that arrives after its
  timeout is told apart from the reply to the next request. A model would
  have to invent that, and it is where the interesting behaviour is.
- **Ethernet/ARP, IPv4, UDP sockets, the PTP client and the controllers:**
  the repository holds only their forward declarations, and spec 4.H-4.L
  describe them in a few sentences each. `NetEcho` covers the part of the
  dispatch that the echo uses.
