------------------------------ MODULE LruCache ------------------------------
(***************************************************************************)
(* What a cache client relies on, without pointers, locks or loops: at most*)
(* one entry per key, kept in the order of their last use; an entry leaves *)
(* because the client overwrites or deletes its key, because it expired,   *)
(* because everything is cleared, or because it is the oldest and a limit  *)
(* presses.  BaseCache implements this for a single goroutine, and for any *)
(* number of them without a memory limit.                                  *)
(***************************************************************************)
EXTENDS Sequences, SequencesExt

CONSTANTS
    Elem, Key,
    CanClear   \* whether clients clear the cache

VARIABLES
    order,     \* the entries, most recently used first
    key,       \* the key of each entry in order
    stale,     \* the entries that have expired
    wanted,    \* the keys the running call overwrites or deletes
    pressure   \* a limit is exceeded

vars == <<order, key, stale, wanted, pressure>>

Held == Range(order)

Init == order = <<>> /\ key = <<>> /\ stale = {} /\ wanted = {} /\ pressure \in BOOLEAN

Insert(e) ==
    /\ e \notin Held
    /\ order' = <<e>> \o order
    /\ key'[e] \in wanted /\ \A d \in Held : key[d] # key'[e]

(* The i-th entry of the order is used, or goes. *)
Touch(i) == order' = <<order[i]>> \o RemoveAt(order, i)

Discard(i) ==
    /\ order[i] \in stale \/ key[order[i]] \in wanted
    /\ order' = RemoveAt(order, i)

EvictOldest == pressure /\ order # <<>> /\ order' = Front(order)

ClearAll == CanClear /\ order' = <<>>

(* Entries keep their keys, and an expired one stays expired. *)
Keep ==
    /\ \A e \in Held \cap Range(order') : key'[e] = key[e]
    /\ stale \cap Range(order') \subseteq stale'

Next ==
    /\ \/ order' = order
       \/ \E e \in Elem : Insert(e)
       \/ \E i \in DOMAIN order : Touch(i) \/ Discard(i)
       \/ EvictOldest
       \/ ClearAll
    /\ Keep

Spec == Init /\ [][Next]_vars
=============================================================================
