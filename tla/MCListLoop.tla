----------------------------- MODULE MCListLoop -----------------------------
(* One list head and four nodes: chains of length 0 to 4 and cycles of     *)
(* length 1 to 4 entered after tails of length 0 to 3.                     *)
EXTENDS ListLoop

MCNode  == {"n1", "n2", "n3", "n4"}
MCHeads == {"h1"}

=============================================================================
