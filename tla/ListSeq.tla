------------------------------ MODULE ListSeq ------------------------------
(***************************************************************************)
(* What satcat5::util::List promises its users (list.h comments and spec   *)
(* sections 3 and 4.C): each list is a sequence of distinct items, an item *)
(* is on at most one list, and every operation changes one or two lists in *)
(* the way its name says.  The pointer-level module List refines this.     *)
(***************************************************************************)
EXTENDS Naturals, Sequences
LOCAL SX == INSTANCE SequencesExt
LOCAL INSTANCE Functions

CONSTANTS Node, Heads, Null,
  ResetItems   \* the arguments List::reset is called with

VARIABLE lists    \* lists[h]: the items of list h, head first

OnList(h, x) == \E i \in 1 .. Len(lists[h]) : lists[h][i] = x
Free(x)      == \A h \in Heads : ~OnList(h, x)

\* The orders in which add_list may hand over the items of s
\* ("pushed to the front or back in any convenient order").
Orders(s) == {p \in [1 .. Len(s) -> SX!ToSet(s)] : IsInjective(p)}

TypeOK == lists \in [Heads -> Seq(Node)]

Init == lists = [h \in Heads |-> <<>>]

Add(h, x) ==
  /\ Free(x)
  /\ lists' = [lists EXCEPT ![h] = <<x>> \o @]

AddSafe(h, x) ==
  /\ \A g \in Heads \ {h} : ~OnList(g, x)
  /\ lists' = IF OnList(h, x) THEN lists ELSE [lists EXCEPT ![h] = <<x>> \o @]

PushBack(h, x) ==
  /\ Free(x)
  /\ lists' = [lists EXCEPT ![h] = Append(@, x)]

InsertAfter(h, w, x) ==
  /\ Free(x)
  /\ \E i \in 1 .. Len(lists[h]) :
       /\ lists[h][i] = w
       /\ lists' = [lists EXCEPT ![h] = SX!InsertAt(@, i + 1, x)]

PopFront(h) ==
  lists' = [lists EXCEPT ![h] = IF @ = <<>> THEN @ ELSE Tail(@)]

\* Removing an item from a list touches that list only.
Remove(h, x) ==
  lists' = [lists EXCEPT ![h] = SelectSeq(@, LAMBDA y : y /= x)]

AddList(h, g) ==
  /\ h /= g
  /\ \E p \in Orders(lists[g]) :
       lists' = [lists EXCEPT ![h] = p \o @, ![g] = <<>>]

\* reset(item) makes the list hold exactly item, like List(item).
Reset(h, x) ==
  lists' = [lists EXCEPT ![h] = IF x = Null THEN <<>> ELSE <<x>>]

Next ==
  \/ \E h, g \in Heads, x, w \in Node :
       \/ Add(h, x) \/ AddSafe(h, x) \/ PushBack(h, x) \/ InsertAfter(h, w, x)
       \/ PopFront(h) \/ Remove(h, x) \/ AddList(h, g)
  \/ \E h \in Heads, r \in ResetItems : Reset(h, r)

Spec == Init /\ [][Next]_lists

=============================================================================
