----------------------------- MODULE MCObjects ------------------------------
(* The object functions for TLC: a call of Clone, a call of Pick, or casts of
   two goroutines. *)
EXTENDS MCClone, MCPick, MCConverter

VARIABLE part   \* what this behaviour is about: "clone", "pick" or "cast"

objectVars == <<part, vars, pickVars, castVars>>

CloneRests ==
    /\ graph = <<B>> /\ visited = <<>> /\ heap = <<>> /\ stack = <<>>
    /\ call = NoCall /\ status = "done"

PickRests ==
    /\ called = [object |-> Single, rules |-> <<>>, want |-> {}, breaks |-> {}, distinct |-> FALSE]
    /\ pickers = <<>> /\ ended = "returned" /\ answer = <<>>

CastRests ==
    /\ jobs = [p \in Proc |-> <<>>] /\ ask = jobs /\ build = jobs
    /\ fieldCache = <<>> /\ outcome = [p \in Proc |-> None]

ObjectInit ==
    \/ part = "clone" /\ Init /\ PickRests /\ CastRests
    \/ part = "pick" /\ CloneRests /\ PickInit /\ CastRests
    \/ part = "cast" /\ CloneRests /\ PickRests /\ CastInit

InClone(Step) == part = "clone" /\ Step /\ UNCHANGED <<part, pickVars, castVars>>

InPick(Step) == part = "pick" /\ Step /\ UNCHANGED <<part, vars, castVars>>

InCast(Step) == part = "cast" /\ Step /\ UNCHANGED <<part, vars, pickVars>>

CloneSteps ==
    \/ InClone(CallShared)
    \/ InClone(CallNil)
    \/ InClone(clonePtr)
    \/ InClone(CallInto)
    \/ InClone(cloneChan)
    \/ InClone(NextElem)
    \/ InClone(PtrElem)
    \/ InClone(InterfaceElem)
    \/ InClone(NextEntry)
    \/ InClone(NextField)
    \/ InClone(NextPrivateField)
    \/ InClone(Return)

PickSteps ==
    \/ \E r \in DOMAIN Rules : InPick(Parse(r))
    \/ \E r \in DOMAIN Rules : InPick(WalkRoot(r))
    \/ \E r \in DOMAIN Rules : InPick(WalkKid(r))
    \/ \E r \in DOMAIN Rules : InPick(WalkReturn(r))
    \/ \E r \in DOMAIN Rules : InPick(Store(r))
    \/ InPick(PickReturn)
    \/ InPick(Wait)

CastSteps ==
    \/ \E p \in Proc : InCast(Hit(p) /\ UNCHANGED <<jobs, outcome>>)
    \/ \E p \in Proc : InCast(Miss(p) /\ UNCHANGED <<jobs, outcome>>)
    \/ \E p \in Proc : InCast(AddField(p) /\ UNCHANGED <<jobs, outcome>>)
    \/ \E p \in Proc : InCast(StoreMap(p) /\ UNCHANGED <<jobs, outcome>>)
    \/ \E p \in Proc : InCast(Converted(p))

ObjectNext == CloneSteps \/ PickSteps \/ CastSteps

ObjectSpec == ObjectInit /\ [][ObjectNext]_objectVars /\ WF_vars(Next)
=============================================================================
