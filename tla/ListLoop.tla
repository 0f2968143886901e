------------------------------ MODULE ListLoop ------------------------------
(***************************************************************************)
(* ListCore::has_loop (satcat5/list.h), the "tortoise and hare" walk, one  *)
(* loop iteration per step, started on every memory the heads and nodes    *)
(* can form -- including the looped ones that adding an item twice makes   *)
(* (list.h line 60), which is what has_loop exists to detect.              *)
(***************************************************************************)
EXTENDS ListCore

VARIABLES
  mem,      \* the memory the call inspects (never written)
  slow,     \* const T* slow
  fast,     \* const T* fast
  pc,       \* "call", "loop" or "done"
  result    \* the value returned, once pc = "done"

vars == <<mem, slow, fast, pc, result>>

\* The list inspected: the first head.
L == CHOOSE h \in Heads : TRUE

Init ==
  /\ mem \in Mem
  /\ slow = Null /\ fast = Null
  /\ pc = "call"
  /\ result = FALSE

\* Mutant: fast starts at the head too ("fast = list").
StartSameNode ==
  /\ pc = "call"
  /\ IF mem[L] = Null
       THEN pc' = "done" /\ result' = FALSE /\ UNCHANGED <<slow, fast>>
       ELSE /\ slow' = mem[L] /\ fast' = mem[L]
            /\ pc' = "loop" /\ UNCHANGED result
  /\ UNCHANGED mem

\* if (!list) return false; slow = list; fast = list->m_next;
Start ==
  /\ pc = "call"
  /\ IF mem[L] = Null
       THEN pc' = "done" /\ result' = FALSE /\ UNCHANGED <<slow, fast>>
       ELSE /\ slow' = mem[L] /\ fast' = mem[mem[L]]
            /\ pc' = "loop" /\ UNCHANGED result
  /\ UNCHANGED mem

\* The loop condition: while (fast && fast->m_next).
Running == fast /= Null /\ mem[fast] /= Null

\* The loop falls through: return false.
ReachEnd ==
  /\ pc = "loop"
  /\ ~Running
  /\ pc' = "done" /\ result' = FALSE
  /\ UNCHANGED <<mem, slow, fast>>

\* if (slow == fast || slow == fast->m_next) return true;
Meet ==
  /\ pc = "loop"
  /\ Running
  /\ slow = fast \/ slow = mem[fast]
  /\ pc' = "done" /\ result' = TRUE
  /\ UNCHANGED <<mem, slow, fast>>

\* Mutant: the hare moves one node per iteration, like the tortoise.
AdvanceOneStep ==
  /\ pc = "loop"
  /\ Running
  /\ slow /= fast /\ slow /= mem[fast]
  /\ slow' = mem[slow] /\ fast' = mem[fast]
  /\ UNCHANGED <<mem, pc, result>>

\* slow = slow->m_next; fast = fast->m_next->m_next;
Advance ==
  /\ pc = "loop"
  /\ Running
  /\ slow /= fast /\ slow /= mem[fast]
  /\ slow' = mem[slow] /\ fast' = mem[mem[fast]]
  /\ UNCHANGED <<mem, pc, result>>

Next == Start \/ ReachEnd \/ Meet \/ Advance

\* The call runs in one context, which keeps executing it.
Spec == Init /\ [][Next]_vars /\ WF_vars(Next)

-----------------------------------------------------------------------------
TypeOK ==
  /\ mem \in Mem /\ slow \in Ptr /\ fast \in Ptr
  /\ pc \in {"call", "loop", "done"} /\ result \in BOOLEAN

(***************************************************************************)
(* has_loop answers true exactly when the walk from the head never reaches *)
(* 0 (Cyclic, the pigeonhole reference), for every shape of memory: a tail *)
(* of any length entering a cycle of any length, or a plain chain.         *)
(***************************************************************************)
HasLoopCorrect == pc = "done" => result = Cyclic(mem, L)

(***************************************************************************)
(* has_loop always returns, also on a looped list, unlike len and contains *)
(* (which list.h lets run forever on one).                                 *)
(***************************************************************************)
HasLoopTerminates == <>(pc = "done")

=============================================================================
