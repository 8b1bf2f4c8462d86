------------------------------- MODULE GoList -------------------------------
(***************************************************************************)
(* Go's container/list at the level of its pointers, as BaseCache uses it  *)
(* (src/y/cache_base.go).  A list is a ring of nodes closed by a sentinel, *)
(* Root, that carries no value:                                            *)
(*   next, prev  the two pointers of every node                            *)
(*   on          the elements whose back pointer "list" names this list    *)
(*   len         the length field, kept apart from the ring                *)
(* Init resets the sentinel and the length but not the elements that were  *)
(* on the list: they keep claiming to be on it.  This is why the list is   *)
(* modelled as a ring and not as a sequence.                               *)
(***************************************************************************)
EXTENDS Integers, FiniteSets

CONSTANTS
    Elem,   \* the list elements the program can hold at a time
    Root,   \* the sentinel node
    Nil     \* the nil pointer

ASSUME GoListAssumption ==
    IsFiniteSet(Elem) /\ Root \notin Elem /\ Nil \notin Elem /\ Root # Nil

Node == Elem \cup {Root}

ListType ==
    [next : [Node -> Node \cup {Nil}],
     prev : [Node -> Node \cup {Nil}],
     on   : SUBSET Elem,
     len  : Int]

EmptyList ==
    [next |-> [n \in Node |-> IF n = Root THEN Root ELSE Nil],
     prev |-> [n \in Node |-> IF n = Root THEN Root ELSE Nil],
     on   |-> {},
     len  |-> 0]

(* Init: the sentinel points at itself; the elements are left as they are. *)
Reset(l) ==
    [next |-> [l.next EXCEPT ![Root] = Root],
     prev |-> [l.prev EXCEPT ![Root] = Root],
     on |-> l.on, len |-> 0]

(* Mutant: the other end. *)
First(l) == IF l.len = 0 THEN Nil ELSE l.next[Root]

(* Back: nil on an empty list, otherwise whatever Root.prev holds. *)
Back(l) == IF l.len = 0 THEN Nil ELSE l.prev[Root]

(* (e).Prev(): nil when e has left the list or is its first element. *)
PrevOf(l, e) == IF e \in l.on /\ l.prev[e] # Root THEN l.prev[e] ELSE Nil

(* The two pointer updates that take e out of the ring. *)
Unlinked(l, e) ==
    [next |-> [l.next EXCEPT ![l.prev[e]] = l.next[e]],
     prev |-> [l.prev EXCEPT ![l.next[e]] = l.prev[e]],
     on |-> l.on, len |-> l.len]

(* The four pointer updates that put e behind the sentinel. *)
Linked(l, e) ==
    [next |-> [l.next EXCEPT ![e] = l.next[Root], ![Root] = e],
     prev |-> [l.prev EXCEPT ![e] = Root, ![l.next[Root]] = e],
     on |-> l.on, len |-> l.len]

PushFront(l, e) ==
    [next |-> Linked(l, e).next, prev |-> Linked(l, e).prev,
     on |-> l.on \cup {e}, len |-> l.len + 1]

(* Remove does nothing unless e still claims to be on the list. *)
Remove(l, e) ==
    IF e \in l.on
    THEN [next |-> [Unlinked(l, e).next EXCEPT ![e] = Nil],
          prev |-> [Unlinked(l, e).prev EXCEPT ![e] = Nil],
          on |-> l.on \ {e}, len |-> l.len - 1]
    ELSE l

MoveToFront(l, e) ==
    IF e \in l.on /\ l.next[Root] # e THEN Linked(Unlinked(l, e), e) ELSE l
=============================================================================
