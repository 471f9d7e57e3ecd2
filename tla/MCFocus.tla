------------------------------ MODULE MCFocus ------------------------------
(* Small instances of Focus for TLC: e1 and e2 are toplevels of the Emacs   *)
(* process, a1 and a2 of another client, l1 and l2 layer surfaces.          *)
EXTENDS Focus, TLC

CONSTANTS e1, e2, a1, a2, l1, l2, emacs, app

MCOwner == [w \in Windows |-> IF w \in {a1, a2} THEN app ELSE emacs]

(* Toplevels of one client are interchangeable, and so are layer surfaces.  *)
MCSymmetry ==
  Permutations(Windows \cap {e1, e2}) \cup Permutations(Windows \cap {a1, a2})
    \cup Permutations(Layers)
============================================================================
