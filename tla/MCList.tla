------------------------------- MODULE MCList -------------------------------
(* Three nodes and two list heads: enough for add_list between two non-    *)
(* empty lists, insert_after in the middle of a list, and a node moving    *)
(* from one list to the other.                                             *)
EXTENDS List

MCNode == {"n1", "n2", "n3"}
MCHeads == {"h1", "h2"}

=============================================================================
