------------------------------- MODULE Locals -------------------------------
(***************************************************************************)
(* What a Holder promises: every goroutine has a variable of its own.  Each*)
(* operation is a step, and nobody else's steps can be told from none.     *)
(***************************************************************************)
CONSTANTS Proc, Value, NoValue, Zero, HasInit

VARIABLES
    cell,   \* each goroutine's value, or NoValue
    got     \* what its last Get or Del returned

Init == cell = [p \in Proc |-> NoValue] /\ got = [p \in Proc |-> NoValue]

Set(p, v) == cell' = [cell EXCEPT ![p] = v] /\ UNCHANGED got

Get(p) == cell[p] # NoValue /\ got' = [got EXCEPT ![p] = cell[p]] /\ UNCHANGED cell

Make(p, v) ==
    /\ cell[p] = NoValue /\ HasInit
    /\ cell' = [cell EXCEPT ![p] = v] /\ got' = [got EXCEPT ![p] = v]

GetNothing(p) ==
    /\ cell[p] = NoValue /\ ~HasInit
    /\ got' = [got EXCEPT ![p] = Zero] /\ UNCHANGED cell

Del(p) ==
    /\ got' = [got EXCEPT ![p] = IF cell[p] = NoValue THEN Zero ELSE cell[p]]
    /\ cell' = [cell EXCEPT ![p] = NoValue]

Next ==
    \E p \in Proc :
        \/ Get(p) \/ GetNothing(p) \/ Del(p)
        \/ \E v \in Value : Set(p, v) \/ Make(p, v)

Spec == Init /\ [][Next]_<<cell, got>>
=============================================================================
