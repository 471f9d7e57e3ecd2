--------------------------- MODULE MCWorkspaces ---------------------------
(* Small instances of Workspaces for TLC: e1, e2, e3 are toplevels of the   *)
(* Emacs process, a1 and a2 of another client.                              *)
EXTENDS Workspaces, TLC

CONSTANTS e1, e2, e3, a1, a2, emacs, app

MCOwner == [w \in Windows |-> IF w \in {a1, a2} THEN app ELSE emacs]

(* Toplevels of one client are interchangeable.                             *)
MCSymmetry ==
  Permutations(Windows \cap {e1, e2, e3}) \cup Permutations(Windows \cap {a1, a2})
===========================================================================
