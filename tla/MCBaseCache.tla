---------------------------- MODULE MCBaseCache ----------------------------
(***************************************************************************)
(* BaseCache for TLC.  View hides what no step can read: the entry of an   *)
(* element nothing points at.                                              *)
(***************************************************************************)
EXTENDS BaseCache, TLC

Symmetry == Permutations(Proc) \cup Permutations(Key) \cup Permutations(Elem)

View ==
    <<mu, cache, ll, [e \in Elem |-> IF e \in Free THEN Nil ELSE ent[e]],
      max, mem, pc, loc>>
=============================================================================
