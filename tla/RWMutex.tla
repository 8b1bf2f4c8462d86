------------------------------ MODULE RWMutex ------------------------------
(***************************************************************************)
(* Go's sync.RWMutex as this repository uses it.  A writer first keeps the *)
(* other writers out, then announces itself, which keeps new readers out,  *)
(* then waits for the readers that are in.  Nothing is recorded about who  *)
(* holds it: a goroutine that asks again waits like any other.             *)
(***************************************************************************)
EXTENDS Integers

CONSTANTS
    Proc,     \* the goroutines
    NoOwner   \* no writer

ASSUME RWMutexAssumption == NoOwner \notin Proc

RWType == [writer : Proc \cup {NoOwner}, readers : [Proc -> Nat]]

RWFree == [writer |-> NoOwner, readers |-> [p \in Proc |-> 0]]

(* RLock must wait. *)
RBlocked(rw) == rw.writer # NoOwner

RLocked(rw, p) == [rw EXCEPT !.readers[p] = @ + 1]

RUnlocked(rw, p) == [rw EXCEPT !.readers[p] = @ - 1]

(* Lock's first half, the announcement, must wait. *)
WBlocked(rw) == rw.writer # NoOwner

Announced(rw, p) == [rw EXCEPT !.writer = p]

(* Lock's second half must wait. *)
Drained(rw) == \A p \in Proc : rw.readers[p] = 0

Unlocked(rw) == [rw EXCEPT !.writer = NoOwner]
=============================================================================
