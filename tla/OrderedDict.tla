---------------------------- MODULE OrderedDict ----------------------------
(***************************************************************************)
(* What Map promises: a dictionary that remembers the order in which its   *)
(* keys came.  Overwriting a key keeps its place, deleting one keeps the   *)
(* order of the others, and only a sort reorders them.                     *)
(***************************************************************************)
EXTENDS SequencesExt

CONSTANTS Key, Val

VARIABLE pairs   \* sequence of <<key, value>>

KeyAt(i) == pairs[i][1]

Init ==
    /\ pairs \in Seq(Key \X Val)
    /\ \A i, j \in DOMAIN pairs : KeyAt(i) = KeyAt(j) => i = j

Add(k, v) ==
    /\ \A i \in DOMAIN pairs : KeyAt(i) # k
    /\ pairs' = Append(pairs, <<k, v>>)

Overwrite(i, v) == pairs' = [pairs EXCEPT ![i] = <<@[1], v>>]

Delete(i) == pairs' = RemoveAt(pairs, i)

Wipe == pairs' = <<>>

Reorder ==
    \E f \in Bijection(DOMAIN pairs, DOMAIN pairs) :
        pairs' = [i \in DOMAIN pairs |-> pairs[f[i]]]

Next ==
    \/ \E k \in Key, v \in Val : Add(k, v)
    \/ \E i \in DOMAIN pairs : Delete(i) \/ \E v \in Val : Overwrite(i, v)
    \/ Wipe
    \/ Reorder

Spec == Init /\ [][Next]_pairs
=============================================================================
