---------------------------- MODULE HolderProofs ----------------------------
(***************************************************************************)
(* What holds of a Holder for any number of goroutines and any values: the *)
(* map is never touched without the lock, and every goroutine has a        *)
(* variable of its own.                                                    *)
(***************************************************************************)
EXTENDS Holder, TLAPS

(* Who holds the lock, and how. *)
Locks ==
    /\ \A p \in Proc : rw.writer = p <=> at[p] \in {"drain", "write", "unlock"}
    /\ \A p \in Proc : rw.readers[p] = IF at[p] \in {"read", "runlock"} THEN 1 ELSE 0
    /\ \A p \in Proc : at[p] \in {"write", "unlock"} => \A q \in Proc : rw.readers[q] = 0

(* One goroutine makes lock and map, and no other gets past the making. *)
Made ==
    /\ \A p \in Proc : at[p] = "initing" => once = "running"
    /\ \A p, q \in Proc : at[p] = "initing" /\ at[q] = "initing" => p = q
    /\ \A p \in Proc : at[p] \notin {"idle", "init", "initing"} => once = "done"
    /\ once # "done" => mp = [p \in Proc |-> NoValue]

(* A Get that found nothing still has nothing. *)
Missed ==
    \A p \in Proc :
        /\ at[p] = "runlock" /\ op[p].value = NoValue => mp[p] = NoValue
        /\ at[p] \in {"initfunc", "lock", "drain", "write"} /\ op[p].name = "Get" =>
             /\ mp[p] = NoValue /\ HasInit

(* What a call brings to the map. *)
Brings ==
    \A p \in Proc :
        /\ at[p] \in {"rlock", "read", "runlock", "initfunc"} => op[p].name = "Get"
        /\ op[p].name = "Set" => op[p].value # NoValue
        /\ at[p] # "idle" /\ op[p].name = "Del" => op[p].value = NoValue
        /\ at[p] \in {"lock", "drain", "write"} /\ op[p].name = "Get" => op[p].value # NoValue

Inv == TypeOK /\ Locks /\ Made /\ Missed /\ Brings

-----------------------------------------------------------------------------
LEMMA InitInv == HolderInit => Inv
<1> SUFFICES ASSUME HolderInit PROVE Inv
  OBVIOUS
<1> USE RWMutexAssumption, HolderAssumption
<1>1. TypeOK
  BY DEF HolderInit, TypeOK, RWFree, RWType, Place, Op
<1>2. Locks
  BY DEF HolderInit, Locks, RWFree
<1>3. Made /\ Missed /\ Brings
  BY DEF HolderInit, Made, Missed, Brings
<1> QED BY <1>1, <1>2, <1>3 DEF Inv

(* A step keeps the types. *)
LEMMA TypeStep ==
    ASSUME TypeOK, Locks, NEW p \in Proc, Step(p)
    PROVE  TypeOK'
<1> USE RWMutexAssumption, HolderAssumption DEF TypeOK, Go
<1>1. CASE Call(p)
  BY <1>1 DEF Call, Place
<1>2. CASE InitBegin(p)
  BY <1>2 DEF InitBegin, Place
<1>3. CASE InitEnd(p)
  BY <1>3 DEF InitEnd, RWFree, RWType, Place
<1>4. CASE Begin(p)
  BY <1>4 DEF Begin, Place
<1>5. CASE RLock(p)
  BY <1>5 DEF RLock, RLocked, RWType, Place
<1>6. CASE Read(p)
  BY <1>6 DEF Read, goid, Op, Place
<1>7. CASE RUnlock(p)
  <2>1. rw.readers[p] = 1
    BY <1>7 DEF RUnlock, Locks
  <2>2. rw' \in RWType
    BY <1>7, <2>1 DEF RUnlock, RUnlocked, RWType
  <2> QED BY <1>7, <2>2 DEF RUnlock, Place
<1>8. CASE InitFunc(p)
  BY <1>8 DEF InitFunc, Op, Place
<1>9. CASE InitFuncPanics(p)
  BY <1>9 DEF InitFuncPanics, Place
<1>10. CASE Lock(p)
  BY <1>10 DEF Lock, Announced, RWType, Place
<1>11. CASE Locked(p)
  BY <1>11 DEF Locked, Place
<1>12. CASE Write(p)
  BY <1>12 DEF Write, goid, Op, Place
<1>13. CASE Unlock(p)
  BY <1>13 DEF Unlock, Unlocked, RWType, Place
<1> QED BY <1>1, <1>2, <1>3, <1>4, <1>5, <1>6, <1>7, <1>8, <1>9, <1>10, <1>11, <1>12, <1>13 DEF Step

(* A step keeps the lock's account of who holds it. *)
LEMMA LocksStep ==
    ASSUME TypeOK, Locks, Made, NEW p \in Proc, Step(p)
    PROVE  Locks'
<1> USE RWMutexAssumption, HolderAssumption DEF Locks, TypeOK, Go
<1>1. CASE Call(p)
  BY <1>1 DEF Call
<1>2. CASE InitBegin(p)
  BY <1>2 DEF InitBegin
<1>3. CASE InitEnd(p)
  BY <1>3 DEF InitEnd, RWFree, Made
<1>4. CASE Begin(p)
  BY <1>4 DEF Begin
<1>5. CASE RLock(p)
  BY <1>5 DEF RLock, RBlocked, RLocked, RWType
<1>6. CASE Read(p)
  BY <1>6 DEF Read
<1>7. CASE RUnlock(p)
  BY <1>7 DEF RUnlock, RUnlocked, RWType
<1>8. CASE InitFunc(p)
  BY <1>8 DEF InitFunc
<1>9. CASE InitFuncPanics(p)
  BY <1>9 DEF InitFuncPanics
<1>10. CASE Lock(p)
  BY <1>10 DEF Lock, WBlocked, Announced, RWType
<1>11. CASE Locked(p)
  BY <1>11 DEF Locked, Drained
<1>12. CASE Write(p)
  BY <1>12 DEF Write
<1>13. CASE Unlock(p)
  BY <1>13 DEF Unlock, Unlocked, RWType
<1> QED BY <1>1, <1>2, <1>3, <1>4, <1>5, <1>6, <1>7, <1>8, <1>9, <1>10, <1>11, <1>12, <1>13 DEF Step

(* A step keeps the making of lock and map apart from their use. *)
LEMMA MadeStep ==
    ASSUME TypeOK, Made, NEW p \in Proc, Step(p)
    PROVE  Made'
<1> USE RWMutexAssumption, HolderAssumption DEF Made, TypeOK, Go
<1>1. CASE Call(p)
  BY <1>1 DEF Call
<1>2. CASE InitBegin(p)
  BY <1>2 DEF InitBegin
<1>3. CASE InitEnd(p)
  BY <1>3 DEF InitEnd
<1>4. CASE Begin(p)
  BY <1>4 DEF Begin, InitOver
<1>5. CASE RLock(p)
  BY <1>5 DEF RLock
<1>6. CASE Read(p)
  BY <1>6 DEF Read
<1>7. CASE RUnlock(p)
  BY <1>7 DEF RUnlock
<1>8. CASE InitFunc(p)
  BY <1>8 DEF InitFunc
<1>9. CASE InitFuncPanics(p)
  BY <1>9 DEF InitFuncPanics
<1>10. CASE Lock(p)
  BY <1>10 DEF Lock
<1>11. CASE Locked(p)
  BY <1>11 DEF Locked
<1>12. CASE Write(p)
  BY <1>12 DEF Write, goid
<1>13. CASE Unlock(p)
  BY <1>13 DEF Unlock
<1> QED BY <1>1, <1>2, <1>3, <1>4, <1>5, <1>6, <1>7, <1>8, <1>9, <1>10, <1>11, <1>12, <1>13 DEF Step

(* A step of one goroutine leaves what another has not found as it is. *)
LEMMA MissedStep ==
    ASSUME TypeOK, Made, Brings, Missed, NEW p \in Proc, Step(p)
    PROVE  Missed'
<1> USE RWMutexAssumption, HolderAssumption DEF Missed, TypeOK, Go
<1>1. CASE Call(p)
  BY <1>1 DEF Call
<1>2. CASE InitBegin(p)
  BY <1>2 DEF InitBegin
<1>3. CASE InitEnd(p)
  BY <1>3 DEF InitEnd, Made
<1>4. CASE Begin(p)
  BY <1>4 DEF Begin, Brings
<1>5. CASE RLock(p)
  BY <1>5 DEF RLock
<1>6. CASE Read(p)
  BY <1>6 DEF Read, goid
<1>7. CASE RUnlock(p)
  BY <1>7 DEF RUnlock
<1>8. CASE InitFunc(p)
  BY <1>8 DEF InitFunc
<1>9. CASE InitFuncPanics(p)
  BY <1>9 DEF InitFuncPanics
<1>10. CASE Lock(p)
  BY <1>10 DEF Lock
<1>11. CASE Locked(p)
  BY <1>11 DEF Locked
<1>12. CASE Write(p)
  BY <1>12 DEF Write, goid, Brings
<1>13. CASE Unlock(p)
  BY <1>13 DEF Unlock
<1> QED BY <1>1, <1>2, <1>3, <1>4, <1>5, <1>6, <1>7, <1>8, <1>9, <1>10, <1>11, <1>12, <1>13 DEF Step

(* A step keeps what a call is about to store. *)
LEMMA BringsStep ==
    ASSUME TypeOK, Brings, NEW p \in Proc, Step(p)
    PROVE  Brings'
<1> USE RWMutexAssumption, HolderAssumption DEF Brings, TypeOK, Go
<1>1. CASE Call(p)
  BY <1>1 DEF Call, Op
<1>2. CASE InitBegin(p)
  BY <1>2 DEF InitBegin
<1>3. CASE InitEnd(p)
  BY <1>3 DEF InitEnd
<1>4. CASE Begin(p)
  <2>1. CASE op[p].name = "Get"
    BY <1>4, <2>1 DEF Begin
  <2>2. CASE op[p].name # "Get"
    BY <1>4, <2>2 DEF Begin
  <2> QED BY <2>1, <2>2
<1>5. CASE RLock(p)
  BY <1>5 DEF RLock
<1>6. CASE Read(p)
  BY <1>6 DEF Read, goid
<1>7. CASE RUnlock(p)
  BY <1>7 DEF RUnlock
<1>8. CASE InitFunc(p)
  BY <1>8 DEF InitFunc, Op
<1>9. CASE InitFuncPanics(p)
  BY <1>9 DEF InitFuncPanics
<1>10. CASE Lock(p)
  BY <1>10 DEF Lock
<1>11. CASE Locked(p)
  BY <1>11 DEF Locked
<1>12. CASE Write(p)
  BY <1>12 DEF Write
<1>13. CASE Unlock(p)
  BY <1>13 DEF Unlock
<1> QED BY <1>1, <1>2, <1>3, <1>4, <1>5, <1>6, <1>7, <1>8, <1>9, <1>10, <1>11, <1>12, <1>13 DEF Step

(* The invariant is inductive. *)
LEMMA InvStep == Inv /\ [HolderNext]_holderVars => Inv'
<1> SUFFICES ASSUME Inv, [HolderNext]_holderVars PROVE Inv'
  OBVIOUS
<1>1. CASE HolderNext
  <2>1. PICK p \in Proc : Step(p)
    BY <1>1 DEF HolderNext
  <2>2. TypeOK' /\ Locks' /\ Made' /\ Missed' /\ Brings'
    BY <2>1, TypeStep, LocksStep, MadeStep, MissedStep, BringsStep DEF Inv
  <2> QED BY <2>2 DEF Inv
<1>2. CASE UNCHANGED holderVars
  BY <1>2 DEF holderVars, Inv, TypeOK, Locks, Made, Missed, Brings
<1> QED BY <1>1, <1>2

(* The invariant holds of every behaviour. *)
LEMMA AlwaysInv == HolderSpec => []Inv
<1> QED BY InitInv, InvStep, PTL DEF HolderSpec

(* For any number of goroutines, the map is read and written only under the lock,
   and lock and map are used only once they are made (init, Get, Set, Del). *)
THEOREM GuardCorrect == HolderSpec => []Guarded
<1>1. ASSUME Inv PROVE Guarded
  <2> SUFFICES ASSUME NEW p \in Proc
               PROVE  /\ at[p] \notin {"idle", "init", "initing"} => once = "done"
                      /\ at[p] = "initing" => once = "running"
                      /\ at[p] \in {"read", "runlock"} => rw.readers[p] > 0
                      /\ \A q \in Proc \ {p} : at[p] = "write" => at[q] \notin {"read", "write", "initing"}
    BY DEF Guarded
  <2>1. /\ at[p] \notin {"idle", "init", "initing"} => once = "done"
        /\ at[p] = "initing" => once = "running"
    BY <1>1 DEF Inv, Made
  <2>2. at[p] \in {"read", "runlock"} => rw.readers[p] > 0
    BY <1>1 DEF Inv, Locks
  <2>3. ASSUME NEW q \in Proc \ {p}, at[p] = "write"
        PROVE  at[q] \notin {"read", "write", "initing"}
    BY <1>1, <2>1, <2>3 DEF Inv, Locks, Made, TypeOK
  <2> QED BY <2>1, <2>2, <2>3
<1> QED BY <1>1, AlwaysInv, PTL

-----------------------------------------------------------------------------
(* A step of a goroutine is a step of the variables' specification, or none. *)
LEMMA StepRefines ==
    ASSUME Inv, NEW p \in Proc, Step(p)
    PROVE  Cells!Next \/ UNCHANGED <<mp, got>>
<1> USE HolderAssumption DEF Go, goid
<1>1. CASE Call(p) \/ InitBegin(p) \/ Begin(p) \/ RLock(p) \/ InitFunc(p) \/ InitFuncPanics(p)
             \/ Lock(p) \/ Locked(p) \/ Unlock(p)
  BY <1>1 DEF Call, InitBegin, Begin, RLock, InitFunc, InitFuncPanics, Lock, Locked, Unlock
<1>2. CASE InitEnd(p)
  BY <1>2 DEF InitEnd, Inv, Made
<1>3. CASE Read(p)
  <2>1. CASE mp[p] = NoValue
    BY <1>3, <2>1 DEF Read, Inv, TypeOK
  <2>2. CASE mp[p] # NoValue
    <3>1. Cells!Get(p)
      BY <1>3, <2>2 DEF Read, Cells!Get
    <3> QED BY <3>1 DEF Cells!Next
  <2> QED BY <2>1, <2>2
<1>4. CASE RUnlock(p)
  <2>1. CASE op[p].value = NoValue /\ ~HasInit
    <3>1. mp[p] = NoValue
      BY <1>4, <2>1 DEF RUnlock, Inv, Missed
    <3>2. Cells!GetNothing(p)
      BY <1>4, <2>1, <3>1 DEF RUnlock, Cells!GetNothing
    <3> QED BY <3>2 DEF Cells!Next
  <2>2. CASE ~(op[p].value = NoValue /\ ~HasInit)
    BY <1>4, <2>2 DEF RUnlock, Inv, TypeOK
  <2> QED BY <2>1, <2>2
<1>5. CASE Write(p)
  <2>1. op[p].name \in {"Get", "Set", "Del"} /\ op[p].value \in Value \cup {NoValue}
    BY DEF Inv, TypeOK, Op
  <2>2. CASE op[p].name = "Get"
    <3>1. mp[p] = NoValue /\ HasInit /\ op[p].value \in Value
      BY <1>5, <2>1, <2>2 DEF Write, Inv, Missed, Brings
    <3>2. Cells!Make(p, op[p].value)
      BY <1>5, <2>2, <3>1 DEF Write, Cells!Make
    <3> QED BY <3>1, <3>2 DEF Cells!Next
  <2>3. CASE op[p].name = "Set"
    <3>1. op[p].value \in Value
      BY <2>1, <2>3 DEF Inv, Brings
    <3>2. Cells!Set(p, op[p].value)
      BY <1>5, <2>3 DEF Write, Cells!Set, Inv, TypeOK
    <3> QED BY <3>1, <3>2 DEF Cells!Next
  <2>4. CASE op[p].name = "Del"
    <3>1. op[p].value = NoValue
      BY <1>5, <2>4 DEF Write, Inv, Brings
    <3>2. Cells!Del(p)
      BY <1>5, <2>4, <3>1 DEF Write, Cells!Del
    <3> QED BY <3>2 DEF Cells!Next
  <2> QED BY <2>1, <2>2, <2>3, <2>4
<1> QED BY <1>1, <1>2, <1>3, <1>4, <1>5 DEF Step

(* For any number of goroutines, with an InitFunc and without, a Holder is a
   variable per goroutine: no interleaving of Get, Set and Del shows one of them
   anything of another (Get, Set, Del). *)
THEOREM LocalCorrect == HolderSpec => LocalSpec
<1>1. HolderInit => Cells!Init
  BY DEF HolderInit, Cells!Init
<1>2. Inv /\ [HolderNext]_holderVars => [Cells!Next]_<<mp, got>>
  <2> SUFFICES ASSUME Inv, [HolderNext]_holderVars PROVE [Cells!Next]_<<mp, got>>
    OBVIOUS
  <2>1. CASE HolderNext
    BY <2>1, StepRefines DEF HolderNext
  <2>2. CASE UNCHANGED holderVars
    BY <2>2 DEF holderVars
  <2> QED BY <2>1, <2>2
<1> QED BY <1>1, <1>2, AlwaysInv, PTL DEF HolderSpec, LocalSpec, Cells!Spec
=============================================================================
