------------------------------ MODULE MCListIrq -----------------------------
(* One shared list and three items: a pop, a remove or an add of one item  *)
(* can be interrupted by a request for another while the list holds a     *)
(* third, so the unlinked cell is the head or an m_next in the middle.    *)
EXTENDS ListIrq

MCNode  == {"n1", "n2", "n3"}
MCHeads == {"q"}

=============================================================================
