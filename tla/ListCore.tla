------------------------------ MODULE ListCore ------------------------------
(***************************************************************************)
(* The function templates of satcat5::util::ListCore (satcat5/list.h) as   *)
(* operators on a memory of pointers.                                      *)
(*                                                                         *)
(* An intrusive list is a chain of "m_next" pointers.  A list head (the    *)
(* "T*& list" argument, List::m_head) and the m_next field of every node   *)
(* are both cells that hold a node pointer, so the whole memory is one     *)
(* function mem \in [Loc -> Ptr] with Loc = Heads \cup Node, and a      *)
(* "T**" is a Loc.  Every operator takes the memory and returns the new memory;     *)
(* the order of the EXCEPTs is the order of the assignments in the code.   *)
(***************************************************************************)
EXTENDS Naturals, Sequences, FiniteSets

CONSTANTS
  Node,   \* objects that carry an m_next pointer
  Heads,  \* list heads: List::m_head, or a raw "T* list" variable
  Null    \* the null pointer, written 0 in list.h

ASSUME Node \cap Heads = {} /\ Null \notin Node \cup Heads

Loc == Heads \cup Node
Ptr == Node \cup {Null}
Mem == [Loc -> Ptr]

(***************************************************************************)
(* Every walk in list.h follows m_next until it reads 0.  On an acyclic    *)
(* memory it does so within Cardinality(Node) steps; Fuel bounds the       *)
(* recursion, and a walk that uses all of it is one the code never ends.   *)
(***************************************************************************)
Fuel == Cardinality(Node) + 1

RECURSIVE Chain(_, _, _)
Chain(mem, p, k) ==
  IF p = Null \/ k = 0 THEN <<>> ELSE <<p>> \o Chain(mem, mem[p], k - 1)

\* The items of the list whose head pointer is held at loc, first to last.
Items(mem, loc) == Chain(mem, mem[loc], Fuel)

\* Reference definition of a loop: a walk longer than Cardinality(Node)
\* repeats a node (pigeonhole), so it never reads 0.
Cyclic(mem, loc) == Len(Items(mem, loc)) = Fuel

\* ListCore::contains: scan from the head for the item.
contains(mem, loc, item) ==
  \E i \in 1 .. Len(Items(mem, loc)) : Items(mem, loc)[i] = item

\* ListCore::len: count the nodes up to the terminating 0.
len(mem, loc) == Len(Items(mem, loc))

\* ListCore::get_index: the idx-th item (from 0), or 0 if idx >= length.
get_index(mem, loc, idx) ==
  IF idx < len(mem, loc) THEN Items(mem, loc)[idx + 1] ELSE Null

\* ListCore::next: the item after item.
next(mem, item) == mem[item]

\* ListCore::find_ptr: the cell whose content is item (checked before the
\* end-of-list test, so find_ptr(list, 0) is the terminating cell), or 0.
RECURSIVE FindPtrFrom(_, _, _, _)
FindPtrFrom(mem, ptr, item, k) ==
  CASE mem[ptr] = item          -> ptr
    [] mem[ptr] = Null \/ k = 0 -> Null
    [] OTHER                    -> FindPtrFrom(mem, mem[ptr], item, k - 1)

find_ptr(mem, loc, item) == FindPtrFrom(mem, loc, item, Fuel)

\* Mutant: the two assignments of push_front in the other order.
PushFrontSwapped(mem, loc, item) ==
  LET m1 == [mem EXCEPT ![loc] = item] IN [m1 EXCEPT ![item] = m1[loc]]

\* ListCore::push_front: item->m_next = list; list = item.
push_front(mem, loc, item) == [[mem EXCEPT ![item] = mem[loc]] EXCEPT ![loc] = item]

\* ListCore::add pushes to the front.
add(mem, loc, item) == push_front(mem, loc, item)

\* ListCore::add_safe: add unless the list already contains the item.
add_safe(mem, loc, item) ==
  IF contains(mem, loc, item) THEN mem ELSE add(mem, loc, item)

\* ListCore::insert_after: if (where && item) { item->m_next = where->m_next;
\* where->m_next = item; } -- a push_front onto the cell where->m_next.
insert_after(mem, where, item) ==
  IF where = Null \/ item = Null THEN mem ELSE push_front(mem, where, item)

\* ListCore::pop_front: the item removed (0 if the list is empty) ...
pop_item(mem, loc) == mem[loc]

\* ... and the memory after list = item->m_next; item->m_next = 0.
pop_front(mem, loc) ==
  LET item == mem[loc]
  IN  IF item = Null THEN mem
      ELSE [[mem EXCEPT ![loc] = mem[item]] EXCEPT ![item] = Null]

\* Mutant: push_back without "item->m_next = 0".
PushBackNoClear(mem, loc, item) == [mem EXCEPT ![find_ptr(mem, loc, Null)] = item]

\* ListCore::push_back: *find_ptr(&list, 0) = item; item->m_next = 0.
push_back(mem, loc, item) ==
  LET ptr == find_ptr(mem, loc, Null)
  IN  [[mem EXCEPT ![ptr] = item] EXCEPT ![item] = Null]

\* ListCore::remove: if (ptr) *ptr = item->m_next; then item->m_next = 0,
\* whether or not the item was found.
remove(mem, loc, item) ==
  LET ptr   == find_ptr(mem, loc, item)
      unlnk == IF ptr = Null THEN mem ELSE [mem EXCEPT ![ptr] = mem[item]]
  IN  [unlnk EXCEPT ![item] = Null]

\* ListCore::add_list: while (item = pop_front(list2)) add(list1, item).
RECURSIVE AddListFrom(_, _, _, _)
AddListFrom(mem, l1, l2, k) ==
  IF mem[l2] = Null \/ k = 0 THEN mem
  ELSE AddListFrom(add(pop_front(mem, l2), l1, pop_item(mem, l2)), l1, l2, k - 1)

add_list(mem, l1, l2) == AddListFrom(mem, l1, l2, Fuel)

\* List::reset: m_head = item.  The old items keep their m_next values.
reset(mem, loc, item) == [mem EXCEPT ![loc] = item]

=============================================================================
