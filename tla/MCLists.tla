------------------------------ MODULE MCLists -------------------------------
(* The list functions for TLC: a call of Flex, or an array to sort and filter. *)
EXTENDS Flex, ListOps, TLC

CONSTANTS nilv, zero, one

MCFlatAnswers == {<<>>, <<one, zero>>, <<nilv, one>>}

VARIABLE part   \* what this behaviour is about: "flex" or "arrays"

listsVars == <<part, vars, listVars>>

FlexRests ==
    /\ opts = (CHOOSE o \in Option : TRUE) /\ n = 0 /\ i = 1 /\ pc = "returned" /\ alive = TRUE
    /\ result = <<>> /\ did = <<>> /\ at = <<>> /\ out = <<>> /\ group = NewGroup

ListsInit ==
    \/ part = "flex" /\ Init /\ ListInit
    \/ part = "arrays" /\ FlexRests /\ ListInit

InFlex(Step) == part = "flex" /\ alive /\ Step /\ UNCHANGED <<part, listVars>>

InArrays(Step) == part = "arrays" /\ Step /\ UNCHANGED <<part, vars>>

ListsNext ==
    \/ InFlex(CallFn)
    \/ InFlex(Go)
    \/ InFlex(Return)
    \/ \E k \in 1..n : InFlex(FnReturn(k))
    \/ \E k \in 1..n : InFlex(FnPanic(k))
    \/ \E k \in 1..n : InFlex(Store(k))
    \/ \E k \in 1..n : InFlex(Leave(k))
    \/ \E k \in 1..n : InFlex(CountOut(k))
    \/ \E k \in 1..n : InFlex(Crash(k))
    \/ InArrays(Grow)
    \/ InArrays(AddOpt)

ListsSpec == ListsInit /\ [][ListsNext]_listsVars /\ Fairness
=============================================================================
