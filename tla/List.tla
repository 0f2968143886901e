-------------------------------- MODULE List --------------------------------
(***************************************************************************)
(* satcat5::util::List<T> (satcat5/list.h): the methods that change a list *)
(* called one after another from a single context, with every argument     *)
(* the caller contract at list.h lines 18-33 allows.  The memory holds the *)
(* list heads and every node's m_next; each action is one method call.     *)
(***************************************************************************)
EXTENDS ListCore

CONSTANTS
  ResetItems,     \* arguments passed to List::reset (Null is reset())
  ForeignRemove   \* may remove(x) name a list other than the one x is on?

ASSUME ResetItems \subseteq Ptr /\ ForeignRemove \in BOOLEAN

VARIABLE mem

vars == <<mem>>

\* The item is on no list (the contract: an item MUST NOT be added to a
\* list while it is on one, through the same m_next).
Free(x) == \A h \in Heads : ~contains(mem, h, x)

\* Constructors: List() sets m_head = 0, and every item MUST set m_next = 0.
Init == mem = [l \in Loc |-> Null]

\* List::add and List::push_front (both ListCore::push_front).
Add(h, x) ==
  /\ Free(x)
  /\ mem' = add(mem, h, x)

\* List::add_safe: the item may already be on this list, not on another.
AddSafe(h, x) ==
  /\ \A g \in Heads \ {h} : ~contains(mem, g, x)
  /\ mem' = add_safe(mem, h, x)

PushBack(h, x) ==
  /\ Free(x)
  /\ mem' = push_back(mem, h, x)

\* List::insert_after, with "where" an item of list h.
InsertAfter(h, w, x) ==
  /\ contains(mem, h, w)
  /\ Free(x)
  /\ mem' = insert_after(mem, w, x)

PopFront(h) == mem' = pop_front(mem, h)

\* List::remove of an item on this list or on none (an unregister after the
\* item was popped); with ForeignRemove, also of an item on another list.
Remove(h, x) ==
  /\ ForeignRemove \/ contains(mem, h, x) \/ Free(x)
  /\ mem' = remove(mem, h, x)

AddList(h, g) ==
  /\ h /= g
  /\ mem' = add_list(mem, h, g)

\* List::reset(item): item is 0 or an item on no list.
Reset(h, x) ==
  /\ x = Null \/ Free(x)
  /\ mem' = reset(mem, h, x)

Next ==
  \/ \E h, g \in Heads, x, w \in Node :
       \/ Add(h, x) \/ AddSafe(h, x) \/ PushBack(h, x) \/ InsertAfter(h, w, x)
       \/ PopFront(h) \/ Remove(h, x) \/ AddList(h, g)
  \/ \E h \in Heads, r \in ResetItems : Reset(h, r)

Spec == Init /\ [][Next]_vars

-----------------------------------------------------------------------------
TypeOK == mem \in Mem

(***************************************************************************)
(* Every list stays a finite chain and no node is reachable twice: from    *)
(* two heads, or twice from one.  A wrong assignment order in push_front,  *)
(* insert_after or remove, or a stale m_next picked up by a later call,    *)
(* shows up here as a loop or a shared tail.                               *)
(***************************************************************************)
WellFormed ==
  \A h, g \in Heads :
    /\ ~Cyclic(mem, h)
    /\ \A i \in 1 .. len(mem, h), j \in 1 .. len(mem, g) :
         Items(mem, h)[i] = Items(mem, g)[j] => h = g /\ i = j

(***************************************************************************)
(* Refinement: read as sequences (the chain from each head), the lists     *)
(* change exactly as ListSeq says each method changes them.  This relates  *)
(* every pointer write of a call to the whole list before and after it.    *)
(***************************************************************************)
AbsLists == [h \in Heads |-> Items(mem, h)]

Abs == INSTANCE ListSeq WITH lists <- AbsLists

Refines == Abs!Spec

=============================================================================
