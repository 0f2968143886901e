------------------------------ MODULE ListIrq -------------------------------
(***************************************************************************)
(* One intrusive list shared by the poll loop and an interrupt handler,    *)
(* the use list.h line 33 ("Caller is responsible for calling AtomicLock") *)
(* and spec section 5 describe: an ISR pushes items onto a lock-protected  *)
(* list (a request_poll() raised from interrupt context), and the poll     *)
(* context services the list by pop_front, unregisters items by remove,    *)
(* and raises requests itself by add_safe.                                 *)
(*                                                                         *)
(* The poll context runs a list call statement by statement, inside an     *)
(* AtomicLock (interrupts masked) taken before and released after it.  An  *)
(* interrupt runs whenever interrupts are not masked and runs to the end   *)
(* before the poll context resumes, so its add_safe is one step.  The scan *)
(* of contains / find_ptr is one step: it reads the list, and what matters *)
(* is that its result is used by the writes that follow it.                *)
(***************************************************************************)
EXTENDS ListCore

CONSTANT MaxRequests  \* add_safe calls, from either context (bounds the model)

ASSUME MaxRequests \in Nat

VARIABLES
  mem,      \* list head and m_next cells
  irqOff,   \* interrupts masked by the poll context's AtomicLock
  pc,       \* poll context: "idle", "lock", a statement label, "unlock"
  op,       \* the list call in progress: "add", "pop" or "remove"
  item,     \* its item argument, or pop_front's local "item"
  ptr,      \* remove's local "T** ptr" (a Loc, or Null)
  pending,  \* history: the items requested and not since popped or removed
  reqs      \* add_safe calls begun so far

vars == <<mem, irqOff, pc, op, item, ptr, pending, reqs>>

\* The shared list.
Q == CHOOSE h \in Heads : TRUE

Init ==
  /\ mem = [l \in Loc |-> Null]
  /\ irqOff = FALSE
  /\ pc = "idle" /\ op = "none" /\ item = Null /\ ptr = Null
  /\ pending = {}
  /\ reqs = 0

Goto(l) == pc' = l

-----------------------------------------------------------------------------
(* Poll context.  Begin: the call and its argument; then the AtomicLock.   *)

Begin(o, x) ==
  /\ pc = "idle"
  /\ o = "add" => reqs < MaxRequests
  /\ op' = o /\ item' = x
  /\ reqs' = IF o = "add" THEN reqs + 1 ELSE reqs
  /\ Goto("lock")
  /\ UNCHANGED <<mem, irqOff, ptr, pending>>

\* AtomicLock constructor: mask interrupts.
Lock ==
  /\ pc = "lock"
  /\ irqOff' = TRUE
  /\ Goto(CASE op = "add" -> "add_scan" [] op = "pop" -> "pop_read"
                [] op = "remove" -> "rm_find")
  /\ UNCHANGED <<mem, op, item, ptr, pending, reqs>>

\* AtomicLock destructor: unmask interrupts.
Unlock ==
  /\ pc = "unlock"
  /\ irqOff' = FALSE
  /\ Goto("idle") /\ op' = "none" /\ item' = Null /\ ptr' = Null
  /\ UNCHANGED <<mem, pending, reqs>>

\* add_safe: if (!contains(list, item)) ...
AddScan ==
  /\ pc = "add_scan"
  /\ Goto(IF contains(mem, Q, item) THEN "unlock" ELSE "add_link")
  /\ UNCHANGED <<mem, irqOff, op, item, ptr, pending, reqs>>

\* ... push_front: item->m_next = list;
AddLink ==
  /\ pc = "add_link"
  /\ mem' = [mem EXCEPT ![item] = mem[Q]]
  /\ Goto("add_head")
  /\ UNCHANGED <<irqOff, op, item, ptr, pending, reqs>>

\* ... list = item;
AddHead ==
  /\ pc = "add_head"
  /\ mem' = [mem EXCEPT ![Q] = item]
  /\ pending' = pending \cup {item}
  /\ Goto("unlock")
  /\ UNCHANGED <<irqOff, op, item, ptr, reqs>>

\* Mutant: pop_front returns 0 while the list holds a single item.
PopReadSkipLast ==
  /\ pc = "pop_read"
  /\ item' = mem[Q]
  /\ Goto(IF mem[Q] = Null \/ mem[mem[Q]] = Null THEN "unlock" ELSE "pop_unlink")
  /\ UNCHANGED <<mem, irqOff, op, ptr, pending, reqs>>

\* pop_front: if (!list) return 0; T* item = list;
PopRead ==
  /\ pc = "pop_read"
  /\ item' = mem[Q]
  /\ Goto(IF mem[Q] = Null THEN "unlock" ELSE "pop_unlink")
  /\ UNCHANGED <<mem, irqOff, op, ptr, pending, reqs>>

\* list = item->m_next;
PopUnlink ==
  /\ pc = "pop_unlink"
  /\ mem' = [mem EXCEPT ![Q] = mem[item]]
  /\ Goto("pop_clear")
  /\ UNCHANGED <<irqOff, op, item, ptr, pending, reqs>>

\* item->m_next = 0; the item is handed to its poll callback.
PopClear ==
  /\ pc = "pop_clear"
  /\ mem' = [mem EXCEPT ![item] = Null]
  /\ pending' = pending \ {item}
  /\ Goto("unlock")
  /\ UNCHANGED <<irqOff, op, item, ptr, reqs>>

\* remove: T** ptr = find_ptr(&list, item);
RmFind ==
  /\ pc = "rm_find"
  /\ ptr' = find_ptr(mem, Q, item)
  /\ Goto("rm_unlink")
  /\ UNCHANGED <<mem, irqOff, op, item, pending, reqs>>

\* if (ptr) *ptr = item->m_next;
RmUnlink ==
  /\ pc = "rm_unlink"
  /\ mem' = IF ptr = Null THEN mem ELSE [mem EXCEPT ![ptr] = mem[item]]
  /\ Goto("rm_clear")
  /\ UNCHANGED <<irqOff, op, item, ptr, pending, reqs>>

\* item->m_next = 0;
RmClear ==
  /\ pc = "rm_clear"
  /\ mem' = [mem EXCEPT ![item] = Null]
  /\ pending' = pending \ {item}
  /\ Goto("unlock")
  /\ UNCHANGED <<irqOff, op, item, ptr, reqs>>

-----------------------------------------------------------------------------
(* Interrupt: add_safe(list, x) in full, whenever interrupts are unmasked. *)

\* Mutant: the list calls are made without an AtomicLock.
IrqEnabledNoLock == TRUE

IrqEnabled == ~irqOff

IsrRequest(x) ==
  /\ IrqEnabled
  /\ reqs < MaxRequests
  /\ mem' = add_safe(mem, Q, x)
  /\ pending' = pending \cup {x}
  /\ reqs' = reqs + 1
  /\ UNCHANGED <<irqOff, pc, op, item, ptr>>

-----------------------------------------------------------------------------
PollStep ==
  Lock \/ Unlock \/ AddScan \/ AddLink \/ AddHead \/ PopRead \/ PopUnlink
  \/ PopClear \/ RmFind \/ RmUnlink \/ RmClear

Next ==
  \/ \E x \in Node : Begin("add", x) \/ Begin("remove", x) \/ IsrRequest(x)
  \/ Begin("pop", Null)
  \/ PollStep

(***************************************************************************)
(* Fairness.  A call in progress runs to its end (the poll context is only *)
(* ever preempted by an interrupt that returns).  The poll loop services   *)
(* its queue on every cycle, so a pop is begun infinitely often if the     *)
(* poll context is idle infinitely often: strong fairness on Begin(pop).   *)
(***************************************************************************)
Spec ==
  /\ Init /\ [][Next]_vars
  /\ WF_vars(PollStep)
  /\ SF_vars(Begin("pop", Null))

-----------------------------------------------------------------------------
TypeOK ==
  /\ mem \in Mem /\ irqOff \in BOOLEAN
  /\ op \in {"none", "add", "pop", "remove"} /\ item \in Ptr
  /\ ptr \in Loc \cup {Null} /\ pending \subseteq Node /\ reqs \in 0 .. MaxRequests

(***************************************************************************)
(* Whenever the poll context is between calls, the list holds exactly the  *)
(* requested items, each once, in a finite chain: no request raised by the *)
(* interrupt was lost to a head the poll context read before the interrupt *)
(* and wrote after it, and no item was linked twice.                       *)
(***************************************************************************)
NoLostRequest ==
  pc = "idle" =>
    /\ ~Cyclic(mem, Q)
    /\ {Items(mem, Q)[i] : i \in 1 .. len(mem, Q)} = pending
    /\ len(mem, Q) = Cardinality(pending)

(***************************************************************************)
(* Every request is eventually serviced: an item requested (from either    *)
(* context) is eventually popped by the poll loop, or removed.  Checked    *)
(* for at most MaxRequests requests: pop_front takes the item pushed last, *)
(* so under an endless stream of requests the oldest may wait forever.     *)
(***************************************************************************)
RequestServiced == \A x \in Node : x \in pending ~> x \notin pending

=============================================================================
