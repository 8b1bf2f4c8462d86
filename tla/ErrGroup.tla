------------------------------ MODULE ErrGroup ------------------------------
(***************************************************************************)
(* golang.org/x/sync/errgroup with a limit, as this repository uses it: a  *)
(* semaphore that Go waits on in the caller, and a count that Wait waits   *)
(* on.  A task that is over gives back its place before it is counted out. *)
(***************************************************************************)
EXTENDS Integers

CONSTANT Limit   \* what SetLimit was given

ASSUME ErrGroupAssumption == Limit \in Nat \ {0}

GroupType == [places : 0..Limit, tasks : Nat]

NewGroup == [places |-> Limit, tasks |-> 0]

(* Go waits for a place. *)
HasPlace(g) == g.places > 0

Started(g) == [places |-> g.places - 1, tasks |-> g.tasks + 1]

PlaceGiven(g) == [g EXCEPT !.places = @ + 1]

CountedOut(g) == [g EXCEPT !.tasks = @ - 1]

(* Wait waits for every task. *)
AllOut(g) == g.tasks = 0
=============================================================================
