------------------------------ MODULE MCTicks -------------------------------
(* Move and When, and the Holder in which When keeps its cache, for TLC: a
   behaviour is one of the dates or one of a Holder. *)
EXTENDS MCTick, Holder, TLC

CONSTANTS p1, p2, p3, v1, v2

VARIABLE part   \* what this behaviour is about: "dates" or "holder"

ticksVars == <<part, vars, holderVars>>

TicksInit == part \in {"dates", "holder"} /\ Init /\ HolderInit

InDates(Act) == part = "dates" /\ Act /\ UNCHANGED <<part, holderVars>>

InHolder(Act) == part = "holder" /\ Act /\ UNCHANGED <<part, vars>>

TicksNext ==
    \/ \E val \in Moved \cup {Nil}, ptr \in BOOLEAN : InDates(MoveCall(val, ptr))
    \/ \E m \in Movements : InDates(MoveBy(m))
    \/ InDates(MoveReturn)
    \/ InDates(WhenMiscounted)
    \/ \E left \in Compared : InDates(WhenCall(left))
    \/ \E op1 \in Operators, right \in Compared : InDates(Compare(op1, right))
    \/ InDates(WhenReturn)
    \/ \E text \in DOMAIN parsed : InDates(Forget(text))
    \/ InDates(Again)
    \/ \E p \in Proc : InHolder(Call(p))
    \/ \E p \in Proc : InHolder(InitBegin(p))
    \/ \E p \in Proc : InHolder(InitEnd(p))
    \/ \E p \in Proc : InHolder(Begin(p))
    \/ \E p \in Proc : InHolder(RLock(p))
    \/ \E p \in Proc : InHolder(Read(p))
    \/ \E p \in Proc : InHolder(RUnlock(p))
    \/ \E p \in Proc : InHolder(InitFunc(p))
    \/ \E p \in Proc : InHolder(InitFuncPanics(p))
    \/ \E p \in Proc : InHolder(Lock(p))
    \/ \E p \in Proc : InHolder(Locked(p))
    \/ \E p \in Proc : InHolder(Write(p))
    \/ \E p \in Proc : InHolder(Unlock(p))

\* Holder treats its goroutines alike
Alike == Permutations(Proc)

TicksSpec == TicksInit /\ [][TicksNext]_ticksVars
=============================================================================
