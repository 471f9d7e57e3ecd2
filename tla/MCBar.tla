------------------------------- MODULE MCBar -------------------------------
(* A small instance of Bar for TLC: a title is wider than the name of a     *)
(* workspace that has none, by more than the gap between two tiles.         *)
EXTENDS Bar

MCPillWidth == [p \in Ids \X Names |-> IF p[2] = None THEN 1 ELSE 3]
=============================================================================
