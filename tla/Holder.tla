------------------------------- MODULE Holder -------------------------------
(***************************************************************************)
(* Holder: one value per goroutine in a map from goroutine ids, under a    *)
(* read-write lock that the first call makes.  InitFunc runs without the   *)
(* lock, and may panic; it does not use the Holder itself.                 *)
(***************************************************************************)
EXTENDS RWMutex

CONSTANTS
    Value,      \* what is kept, and what InitFunc makes
    NoValue,    \* no entry
    Zero,       \* the zero value
    HasInit     \* whether there is an InitFunc

ASSUME HolderAssumption ==
    /\ Zero \in Value /\ NoValue \notin Value /\ HasInit \in BOOLEAN

VARIABLES
    rw,     \* the RWMutex
    once,   \* the sync.Once: "fresh", "running" or "done"
    mp,     \* the map
    at,     \* where each goroutine is in its call
    op,     \* the call it is in, and the value it brings or has made
    got     \* what its last Get or Del returned

holderVars == <<rw, once, mp, at, op, got>>

Place == {"idle", "init", "initing", "rlock", "read", "runlock", "initfunc", "lock", "drain", "write", "unlock"}

Op == [name : {"Get", "Set", "Del"}, value : Value \cup {NoValue}]

TypeOK ==
    /\ rw \in RWType
    /\ once \in {"fresh", "running", "done"}
    /\ mp \in [Proc -> Value \cup {NoValue}] /\ got \in [Proc -> Value \cup {NoValue}]
    /\ at \in [Proc -> Place] /\ op \in [Proc -> Op]

HolderInit ==
    /\ rw = RWFree /\ once = "fresh"
    /\ mp = [p \in Proc |-> NoValue] /\ got = [p \in Proc |-> NoValue]
    /\ at = [p \in Proc |-> "idle"]
    /\ op = [p \in Proc |-> [name |-> "Get", value |-> NoValue]]

Go(p, from, to) == at[p] = from /\ at' = [at EXCEPT ![p] = to]

(* Mutant: everybody has the same id. *)
goidShared(p) == CHOOSE q \in Proc : TRUE

(* The goroutine's id, which no other has, before or after. *)
goid(p) == p

Call(p) ==
    /\ Go(p, "idle", "init")
    /\ \E o \in Op : (o.name = "Set" <=> o.value # NoValue) /\ op' = [op EXCEPT ![p] = o]
    /\ UNCHANGED <<rw, once, mp, got>>

(* init: the first caller makes lock and map, the others wait until it has. *)
InitBegin(p) ==
    /\ Go(p, "init", "initing")
    /\ once = "fresh" /\ once' = "running"
    /\ UNCHANGED <<rw, mp, op, got>>

InitEnd(p) ==
    /\ at[p] = "initing" /\ at' = [at EXCEPT ![p] = "init"]
    /\ once' = "done" /\ rw' = RWFree /\ mp' = [q \in Proc |-> NoValue]
    /\ UNCHANGED <<op, got>>

(* Mutant: a call goes on while another still makes the lock. *)
InitBegun == once # "fresh"

InitOver == once = "done"

Begin(p) ==
    /\ InitOver
    /\ Go(p, "init", IF op[p].name = "Get" THEN "rlock" ELSE "lock")
    /\ UNCHANGED <<rw, once, mp, op, got>>

RLock(p) ==
    /\ Go(p, "rlock", "read") /\ ~RBlocked(rw)
    /\ rw' = RLocked(rw, p)
    /\ UNCHANGED <<once, mp, op, got>>

(* Get looks for an entry, ... *)
Read(p) ==
    /\ Go(p, "read", "runlock")
    /\ op' = [op EXCEPT ![p].value = mp[goid(p)]]
    /\ got' = [got EXCEPT ![p] = IF mp[goid(p)] = NoValue THEN @ ELSE mp[goid(p)]]
    /\ UNCHANGED <<rw, once, mp>>

(* ... gives up the lock, and without an entry and InitFunc returns the zero
   value. *)
RUnlock(p) ==
    /\ Go(p, "runlock", IF op[p].value = NoValue /\ HasInit THEN "initfunc" ELSE "idle")
    /\ rw' = RUnlocked(rw, p)
    /\ got' = [got EXCEPT ![p] = IF op[p].value = NoValue /\ ~HasInit THEN Zero ELSE @]
    /\ UNCHANGED <<once, mp, op>>

InitFunc(p) ==
    /\ Go(p, "initfunc", "lock")
    /\ \E v \in Value : op' = [op EXCEPT ![p].value = v]
    /\ UNCHANGED <<rw, once, mp, got>>

InitFuncPanics(p) == Go(p, "initfunc", "idle") /\ UNCHANGED <<rw, once, mp, op, got>>

Lock(p) ==
    /\ Go(p, "lock", "drain") /\ ~WBlocked(rw)
    /\ rw' = Announced(rw, p)
    /\ UNCHANGED <<once, mp, op, got>>

Locked(p) == Go(p, "drain", "write") /\ Drained(rw) /\ UNCHANGED <<rw, once, mp, op, got>>

(* Get stores what InitFunc made, Set its argument; Del takes the entry out. *)
Write(p) ==
    /\ Go(p, "write", "unlock")
    /\ mp' = [mp EXCEPT ![goid(p)] = op[p].value]
    /\ got' = [got EXCEPT ![p] = CASE op[p].name = "Get" -> op[p].value
                                   [] op[p].name = "Set" -> @
                                   [] op[p].name = "Del" -> IF mp[goid(p)] = NoValue THEN Zero ELSE mp[goid(p)]]
    /\ UNCHANGED <<rw, once, op>>

Unlock(p) ==
    /\ Go(p, "unlock", "idle")
    /\ rw' = Unlocked(rw)
    /\ UNCHANGED <<once, mp, op, got>>

Step(p) ==
    \/ Call(p) \/ InitBegin(p) \/ InitEnd(p) \/ Begin(p)
    \/ RLock(p) \/ Read(p) \/ RUnlock(p) \/ InitFunc(p) \/ InitFuncPanics(p)
    \/ Lock(p) \/ Locked(p) \/ Write(p) \/ Unlock(p)

HolderNext == \E p \in Proc : Step(p)

HolderSpec == HolderInit /\ [][HolderNext]_holderVars

-----------------------------------------------------------------------------
(* The map is read under the lock and written under the lock that nobody shares,
   and neither is used before the one goroutine that makes both has made them
   (init, Get, Set, Del). *)
Guarded ==
    \A p \in Proc :
        /\ at[p] \notin {"idle", "init", "initing"} => once = "done"
        /\ at[p] = "initing" => once = "running"
        /\ at[p] \in {"read", "runlock"} => rw.readers[p] > 0
        /\ \A q \in Proc \ {p} : at[p] = "write" => at[q] \notin {"read", "write", "initing"}

(* Whatever the others do between its steps, a goroutine finds in the Holder what
   it left there itself: the Holder is a variable per goroutine. *)
Cells == INSTANCE Locals WITH cell <- mp

LocalSpec == Cells!Spec
=============================================================================
