------------------------------ MODULE Polling ------------------------------
(***************************************************************************)
(* The cooperative scheduler satcat5::poll (spec 4.D and section 5).  The  *)
(* repository holds only its forward declarations (types.h); the model is  *)
(* written from the spec.                                                  *)
(*                                                                         *)
(*  - OnDemand tasks are serviced once after request_poll().  A request    *)
(*    publishes a flag and queues the task (request order); a second       *)
(*    request while the flag is up is absorbed.  Requests come from        *)
(*    interrupt context at any time, or from a callback in poll context.   *)
(*  - Always tasks are serviced every cycle.                               *)
(*  - Timers fire when their deadline has passed; the next deadline is the *)
(*    old one plus the period (deadlines, not cumulative sleep).           *)
(*  - The timekeeper turns a monotonic microsecond clock into the          *)
(*    millisecond count the timers use, at the start of each cycle.        *)
(*                                                                         *)
(* One cycle: tick, take the OnDemand queue, service it in request order,  *)
(* then every Always task, then the due Timers in deadline order.  A task  *)
(* requested during the cycle is queued for the next one.  Each callback   *)
(* is two steps (start, return) so that requests can happen inside it.     *)
(***************************************************************************)
EXTENDS Naturals, Sequences
LOCAL INSTANCE SequencesExt

CONSTANTS
  OnDemand,        \* poll::OnDemand objects
  Always,          \* poll::Always objects
  Timers,          \* poll::Timer objects
  Period,          \* Period[t]: timer t's period in ms
  USEC_PER_MSEC,   \* clock units per timekeeper tick (scaled down)
  Dts,             \* increments of the hardware clock, in its units
  MaxUsec,         \* clock reading at which the model stops time
  MaxRequests,     \* request_poll calls per behaviour (bounds the model)
  None             \* no callback running

ASSUME None \notin OnDemand \cup Always \cup Timers

VARIABLES
  raw,        \* the monotonic clock's reading
  tref,       \* timekeeper: clock reading that nowMs accounts for
  nowMs,      \* timekeeper: milliseconds since start
  flag,       \* flag[o]: o's request is published
  queue,      \* OnDemand tasks requested for the next cycle, in order
  batch,      \* OnDemand tasks of this cycle not yet started
  phase,      \* "idle", "ondemand", "always", "timers"
  todo,       \* Always or Timer tasks of this phase not yet started
  running,    \* the task whose callback is running, or None
  deadline,   \* deadline[t] in ms
  wanted,     \* history: o requested and its callback not yet started
  reqs,       \* request_poll calls so far
  reg,        \* tasks registered (not yet unregistered or destroyed)
  cancel      \* the running callback unregistered its own task

vars == <<raw, tref, nowMs, flag, queue, batch, phase, todo,
          running, deadline, wanted, reqs, reg, cancel>>

Init ==
  /\ raw = 0 /\ tref = 0 /\ nowMs = 0
  /\ flag = [o \in OnDemand |-> FALSE] /\ wanted = [o \in OnDemand |-> FALSE]
  /\ queue = <<>> /\ batch = <<>>
  /\ phase = "idle" /\ todo = {} /\ running = None
  /\ deadline = [t \in Timers |-> Period[t]]
  /\ reqs = 0 /\ reg = OnDemand \cup Always \cup Timers /\ cancel = FALSE

\* The hardware clock advances.
Advance(dt) ==
  /\ raw + dt <= MaxUsec
  /\ raw' = raw + dt
  /\ UNCHANGED <<tref, nowMs, flag, queue, batch, phase, todo,
                 running, deadline, wanted, reqs, reg, cancel>>

\* OnDemand::request_poll(): publish the flag and queue the task, unless
\* the flag is already up.
RequestPoll(o) ==
  /\ o \in reg /\ reqs < MaxRequests
  /\ reqs' = reqs + 1
  /\ wanted' = [wanted EXCEPT ![o] = TRUE]
  /\ IF flag[o] THEN UNCHANGED <<flag, queue>>
                ELSE flag' = [flag EXCEPT ![o] = TRUE] /\ queue' = Append(queue, o)
  /\ UNCHANGED <<raw, tref, nowMs, batch, phase, todo, running,
                 deadline, reg, cancel>>

\* Timekeeper tick: count whole milliseconds since tref, and move tref by
\* exactly those, keeping the remainder for the next tick.
Tick ==
  LET ms == (raw - tref) \div USEC_PER_MSEC
  IN  nowMs' = nowMs + ms /\ tref' = tref + ms * USEC_PER_MSEC

\* Start of a cycle: tick, and take the requests made so far.
StartCycle ==
  /\ phase = "idle"
  /\ Tick
  /\ batch' = queue /\ queue' = <<>>
  /\ phase' = "ondemand"
  /\ UNCHANGED <<raw, flag, todo, running, deadline, wanted, reqs, reg, cancel>>

\* Mutant: the request flag is never lowered.
KeepFlag(o) == UNCHANGED flag

\* Lower the flag before the callback, so a request made during it queues
\* the task again.
ClearBeforeCallback(o) == flag' = [flag EXCEPT ![o] = FALSE]

\* Start the callback of the next OnDemand task of the cycle.
ServeOnDemand ==
  /\ phase = "ondemand" /\ running = None /\ batch /= <<>>
  /\ running' = Head(batch) /\ batch' = Tail(batch)
  /\ ClearBeforeCallback(Head(batch))
  /\ wanted' = [wanted EXCEPT ![Head(batch)] = FALSE]
  /\ UNCHANGED <<raw, tref, nowMs, queue, phase, todo, deadline, reqs,
                 reg, cancel>>

\* Mutant: a timer is due only once its deadline is strictly past.
DueStrict == {t \in Timers \cap reg : deadline[t] < nowMs}

\* Timers due at the start of the timer phase.
Due == {t \in Timers \cap reg : deadline[t] <= nowMs}

\* Move to the next phase when the current one has no task left.
NextPhase ==
  /\ running = None
  /\ \/ phase = "ondemand" /\ batch = <<>> /\ phase' = "always" /\ todo' = Always \cap reg
     \/ phase = "always" /\ todo = {} /\ phase' = "timers" /\ todo' = Due
     \/ phase = "timers" /\ todo = {} /\ phase' = "idle" /\ todo' = {}
  /\ UNCHANGED <<raw, tref, nowMs, flag, queue, batch, running,
                 deadline, wanted, reqs, reg, cancel>>

\* Start the callback of an Always task (registration order is not
\* observed by the properties, so any order is allowed).
ServeAlways(a) ==
  /\ phase = "always" /\ running = None /\ a \in todo
  /\ running' = a /\ todo' = todo \ {a}
  /\ UNCHANGED <<raw, tref, nowMs, flag, queue, batch, phase, deadline,
                 wanted, reqs, reg, cancel>>

\* The next deadline: the old deadline plus the period.
Rearm(t) == deadline[t] + Period[t]

\* Start the callback of the due timer with the earliest deadline.
ServeTimer(t) ==
  /\ phase = "timers" /\ running = None /\ t \in todo
  /\ \A u \in todo : deadline[t] <= deadline[u]
  /\ running' = t /\ todo' = todo \ {t}
  /\ deadline' = [deadline EXCEPT ![t] = Rearm(t)]
  /\ UNCHANGED <<raw, tref, nowMs, flag, queue, batch, phase, wanted, reqs,
                 reg, cancel>>

\* Remove a task from the OnDemand tasks this cycle took from the queue.
PurgeBatch(s, x) == SelectSeq(s, LAMBDA y : y /= x)

\* Unregistration: the task leaves its list, the request queue, the
\* cycle in progress, and its flag is lowered.
Deregister(x) ==
  /\ reg' = reg \ {x}
  /\ queue' = SelectSeq(queue, LAMBDA y : y /= x)
  /\ batch' = PurgeBatch(batch, x)
  /\ todo' = todo \ {x}
  /\ flag' = [o \in OnDemand |-> flag[o] /\ o /= x]
  /\ wanted' = [o \in OnDemand |-> wanted[o] /\ o /= x]

\* The poll context (another task's callback, or between cycles) cancels
\* or destroys task x.  From x's own callback, it takes effect when the
\* callback returns (spec 5).
Unregister(x) ==
  /\ x \in reg /\ (running /= None \/ phase = "idle")
  /\ IF running = x
       THEN cancel' = TRUE /\ UNCHANGED <<reg, queue, batch, todo, flag, wanted>>
       ELSE Deregister(x) /\ UNCHANGED cancel
  /\ UNCHANGED <<raw, tref, nowMs, phase, running, deadline, reqs>>

\* The running callback returns; a cancellation it made is honoured now.
Return ==
  /\ running /= None
  /\ running' = None
  /\ IF cancel THEN Deregister(running) /\ cancel' = FALSE
               ELSE UNCHANGED <<reg, queue, batch, todo, flag, wanted, cancel>>
  /\ UNCHANGED <<raw, tref, nowMs, phase, deadline, reqs>>

PollStep ==
  \/ StartCycle \/ ServeOnDemand \/ NextPhase \/ Return
  \/ \E a \in Always : ServeAlways(a)
  \/ \E t \in Timers : ServeTimer(t)

Next ==
  \/ \E dt \in Dts : Advance(dt)
  \/ \E o \in OnDemand : RequestPoll(o)
  \/ \E x \in OnDemand \cup Always \cup Timers : Unregister(x)
  \/ PollStep

(***************************************************************************)
(* Fairness: the poll loop is called forever and every callback returns    *)
(* (spec 5: handlers never block) -- weak fairness on the poll steps.      *)
(* Interrupts and the clock get none.                                      *)
(***************************************************************************)
Spec == Init /\ [][Next]_vars /\ WF_vars(PollStep)

-----------------------------------------------------------------------------
TypeOK ==
  /\ raw \in 0 .. MaxUsec /\ tref \in 0 .. raw /\ nowMs \in Nat
  /\ flag \in [OnDemand -> BOOLEAN] /\ wanted \in [OnDemand -> BOOLEAN]
  /\ queue \in Seq(OnDemand) /\ batch \in Seq(OnDemand)
  /\ phase \in {"idle", "ondemand", "always", "timers"}
  /\ todo \subseteq Always \cup Timers
  /\ running \in OnDemand \cup Always \cup Timers \cup {None}
  /\ deadline \in [Timers -> Nat]
  /\ reqs \in 0 .. MaxRequests
  /\ reg \subseteq OnDemand \cup Always \cup Timers /\ cancel \in BOOLEAN

(***************************************************************************)
(* No request is lost: a task requested (from an interrupt or from any     *)
(* callback, its own included) whose callback has not started since is    *)
(* queued for this cycle or the next.  A flag lowered after the callback   *)
(* absorbs the requests made during it.                                    *)
(***************************************************************************)
RequestNotLost ==
  \A o \in OnDemand : wanted[o] => o \in ToSet(queue) \cup ToSet(batch)

(***************************************************************************)
(* Every timer fires at its deadline: once the timekeeper's count reaches  *)
(* a registered timer's deadline, the poll loop eventually runs the timer  *)
(* (re-arming it past now) or the timer is cancelled -- without waiting   *)
(* for the clock to move on.                                               *)
(***************************************************************************)
TimerFires ==
  \A t \in Timers :
    (t \in reg /\ deadline[t] <= nowMs) ~> (t \notin reg \/ deadline[t] > nowMs)

=============================================================================
