------------------------------- MODULE Clone -------------------------------
(***************************************************************************)
(* Clone's walk over an object graph, one step per call of deepCloneValue, *)
(* per element, and per return.  A value is a node: `kind` is what the     *)
(* switch of deepCloneValue sees, `kids` are a pointer's target, an        *)
(* interface's content, elements, a map's values, fields, or what a        *)
(* channel holds.  A pointer, slice, map or interface without kids is nil. *)
(* All fields of a "struct" are exported, and none of a "private".         *)
(***************************************************************************)
EXTENDS Integers, Sequences

CONSTANTS
    Graphs,       \* the object graphs Clone is called with: sequences of nodes
    StackLimit    \* the depth at which Go's stack overflows

Shared   == {"basic", "named", "func"}   \* returned as they are; named: of a named basic type
Inline   == {"struct", "private", "array"}
Nillable == {"ptr", "slice", "map", "iface"}

ASSUME CloneAssumption ==
    /\ StackLimit \in Nat
    /\ \A g \in Graphs :
         /\ g # <<>>
         /\ g \in Seq([kind : Shared \cup Inline \cup Nillable \cup {"chan"}, kids : Seq(DOMAIN g)])

VARIABLES
    graph,     \* what is cloned; node 1 is the argument
    visited,   \* from the addresses pointed to, to the pointers made for them
    heap,      \* the copies made: of which node, and what they hold so far
    stack,     \* the calls of deepCloneValue under way
    call,      \* the value about to be cloned, or NoCall
    status     \* "running", "done", "error", or "overflow"

vars == <<graph, visited, heap, stack, call, status>>

KindOf(n) == graph[n].kind
Kids(n) == graph[n].kids

(* reflect.Value: what it is (a node, a copy as a negative number, or 0, a zero
   value), whether it has an address, and whether it was reached through an
   unexported field, after which it cannot be set to anything. *)
Val(n, addr, ro) == [n |-> n, addr |-> addr, ro |-> ro]
NoCall == Val(0, FALSE, FALSE)

Of(v) == IF v < 0 THEN heap[-v].of ELSE v

(* A pointer to a struct has the address of a pointer to its first field. *)
Address(n) ==
    LET holders(m) == {s \in DOMAIN graph : KindOf(s) \in Inline /\ Kids(s) # <<>> /\ Kids(s)[1] = m}
        address[m \in DOMAIN graph] ==
            IF holders(m) = {} THEN m ELSE address[CHOOSE s \in holders(m) : TRUE]
    IN  address[n]

Target(p) == Kids(p)[1]

-----------------------------------------------------------------------------
Init ==
    /\ graph \in Graphs
    /\ visited = <<>> /\ heap = <<>> /\ stack = <<>>
    /\ call = Val(1, FALSE, FALSE) /\ status = "running"

(* A frame is a call at work on the kid `next`; `d` is the copy it fills. *)
Frame(v, d) == [v |-> v, d |-> d, next |-> 1]

Top == stack[Len(stack)]

(* Value.Set panics for a value reached through an unexported field, as a map
   does for such a key, and for a pointer found under the address of another
   type, unless the place is an interface. *)
Settable(frame, v, ro) ==
    LET kid == Kids(frame.v.n)[frame.next]
    IN  /\ ~ro
        /\ ~(KindOf(frame.v.n) = "map" /\ frame.v.ro)
        /\ \/ KindOf(frame.v.n) = "iface" \/ KindOf(kid) = "iface"
           \/ v >= 0 \/ KindOf(kid) # "ptr"
           \/ Target(Of(v)) = Target(kid)

Placed(h, d, v) == [h EXCEPT ![d].kids = Append(@, v)]

(* deepCloneValue returns `v` to the call that waits in `frames`.  At the end
   Clone asks whether the result may be assigned to the type of its parameter,
   which panics if that type is an interface; a panic becomes its error. *)
Result(v, ro, h, frames) ==
    /\ call' = NoCall
    /\ IF frames = <<>>
       THEN heap' = h /\ stack' = frames /\ status' \in {"done", "error"}
       ELSE LET k == Len(frames)
            IN  IF Settable(frames[k], v, ro)
                THEN /\ heap' = Placed(h, frames[k].d, v)
                     /\ stack' = [frames EXCEPT ![k].next = @ + 1]
                     /\ UNCHANGED status
                ELSE status' = "error" /\ UNCHANGED <<heap, stack>>

New(n) == Append(heap, [of |-> n, kids |-> <<>>])

Push(v) ==
    IF Len(stack) < StackLimit
    THEN /\ heap' = New(v.n) /\ stack' = Append(stack, Frame(v, Len(heap) + 1))
         /\ call' = NoCall /\ UNCHANGED status
    ELSE status' = "overflow" /\ UNCHANGED <<heap, stack, call>>

Called(kinds) == status = "running" /\ call # NoCall /\ KindOf(call.n) \in kinds

IsNil(n) == KindOf(n) \in Nillable /\ Kids(n) = <<>>

(* deepCloneValue: basic values and functions are their own copies. *)
CallShared ==
    /\ Called(Shared)
    /\ Result(call.n, call.ro, heap, stack) /\ UNCHANGED <<graph, visited>>

CallNil ==
    /\ Called(Nillable) /\ IsNil(call.n)
    /\ Result(0, FALSE, heap, stack) /\ UNCHANGED <<graph, visited>>

(* Mutant: the pointer is not remembered. *)
RememberedNever(a, k) == UNCHANGED visited

(* The new pointer is remembered before its target is cloned. *)
Remembered(a, k) ==
    visited' = [x \in DOMAIN visited \cup {a} |-> IF x = a THEN -k ELSE visited[x]]

clonePtr ==
    /\ Called({"ptr"}) /\ ~IsNil(call.n)
    /\ LET a == Address(Target(call.n))
       IN  IF a \in DOMAIN visited
           THEN Result(visited[a], FALSE, heap, stack) /\ UNCHANGED visited
           ELSE Push(call) /\ Remembered(a, Len(heap) + 1)
    /\ UNCHANGED graph

(* cloneArray, cloneSlice, cloneMap, cloneStruct, cloneInterface begin. *)
CallInto ==
    /\ Called((Inline \cup Nillable) \ {"ptr"}) /\ ~IsNil(call.n)
    /\ Push(call) /\ UNCHANGED <<graph, visited>>

(* Mutant: the channel is shared. *)
cloneChanShared ==
    /\ Called({"chan"})
    /\ Result(call.n, FALSE, heap, stack) /\ UNCHANGED <<graph, visited>>

(* A new channel, empty whatever the old one holds. *)
cloneChan ==
    /\ Called({"chan"})
    /\ Result(-(Len(heap) + 1), FALSE, New(call.n), stack) /\ UNCHANGED <<graph, visited>>

-----------------------------------------------------------------------------
AtKid(kinds) ==
    /\ status = "running" /\ call = NoCall /\ stack # <<>>
    /\ KindOf(Top.v.n) \in kinds /\ Top.next <= Len(Kids(Top.v.n))

Kid == Kids(Top.v.n)[Top.next]

CallKid(v) == call' = v /\ UNCHANGED <<heap, stack, status>>

(* cloneArray and cloneSlice: an element of a slice has an address, one of an
   array has one if the array has. *)
NextElem ==
    /\ AtKid({"array", "slice"})
    /\ CallKid(Val(Kid, KindOf(Top.v.n) = "slice" \/ Top.v.addr, Top.v.ro))
    /\ UNCHANGED <<graph, visited>>

PtrElem ==
    /\ AtKid({"ptr"})
    /\ CallKid(Val(Kid, TRUE, Top.v.ro)) /\ UNCHANGED <<graph, visited>>

InterfaceElem ==
    /\ AtKid({"iface"})
    /\ CallKid(Val(Kid, FALSE, Top.v.ro)) /\ UNCHANGED <<graph, visited>>

NextField ==
    /\ AtKid({"struct"})
    /\ CallKid(Val(Kid, Top.v.addr, Top.v.ro)) /\ UNCHANGED <<graph, visited>>

Skip == /\ stack' = [stack EXCEPT ![Len(stack)].next = @ + 1]
        /\ UNCHANGED <<heap, call, status>>

(* Value.Interface takes an interface off a map's value; a nil one leaves
   nothing, and its entry is not copied. *)
NextEntry ==
    /\ AtKid({"map"})
    /\ IF KindOf(Kid) # "iface" \/ Top.v.ro THEN CallKid(Val(Kid, FALSE, Top.v.ro))
       ELSE IF IsNil(Kid) THEN Skip
       ELSE CallKid(Val(Target(Kid), FALSE, FALSE))
    /\ UNCHANGED <<graph, visited>>

ReachedByAddress(v) == v.addr

(* An unexported field is reached through the address of its struct, as if it
   were exported.  In a struct without one a field of a basic kind is rebuilt,
   which panics if its type has a name, and any other is cloned as it is. *)
NextPrivateField ==
    /\ AtKid({"private"})
    /\ IF ReachedByAddress(Top.v) THEN CallKid(Val(Kid, TRUE, FALSE))
       ELSE CASE KindOf(Kid) = "basic" ->
                   /\ heap' = Placed(heap, Top.d, Kid)
                   /\ stack' = [stack EXCEPT ![Len(stack)].next = @ + 1]
                   /\ UNCHANGED <<call, status>>
              [] KindOf(Kid) = "named" -> status' = "error" /\ UNCHANGED <<heap, stack, call>>
              [] OTHER -> CallKid(Val(Kid, FALSE, TRUE))
    /\ UNCHANGED <<graph, visited>>

(* The copy is complete and is what the call returns. *)
Return ==
    /\ status = "running" /\ call = NoCall /\ stack # <<>>
    /\ Top.next > Len(Kids(Top.v.n))
    /\ Result(-Top.d, FALSE, heap, SubSeq(stack, 1, Len(stack) - 1))
    /\ UNCHANGED <<graph, visited>>

Next ==
    \/ CallShared \/ CallNil \/ clonePtr \/ CallInto \/ cloneChan
    \/ NextElem \/ PtrElem \/ InterfaceElem \/ NextEntry \/ NextField \/ NextPrivateField
    \/ Return

Spec == Init /\ [][Next]_vars /\ WF_vars(Next)

-----------------------------------------------------------------------------
(* What of a kid a copy of the node should hold: a map loses its nil interfaces
   and the interfaces around its values, a channel what it holds. *)
Part(n, kid) ==
    IF KindOf(n) = "chan" THEN <<>>
    ELSE IF KindOf(n) # "map" \/ KindOf(kid) # "iface" THEN <<kid>>
    ELSE IF IsNil(kid) THEN <<>> ELSE <<Target(kid)>>

Content(n) ==
    LET upto[k \in 0..Len(Kids(n))] ==
            IF k = 0 THEN <<>> ELSE upto[k - 1] \o Part(n, Kids(n)[k])
    IN  upto[Len(Kids(n))]

InInterface(n, k) ==
    \/ KindOf(n) = "iface"
    \/ KindOf(n) = "map" /\ \E i \in DOMAIN Kids(n) :
         KindOf(Kids(n)[i]) = "iface" /\ ~IsNil(Kids(n)[i]) /\ Target(Kids(n)[i]) = k

(* When Clone returns without an error, every copy holds copies of what its
   original holds, in its order; only basic values and functions are the
   original's own, so that no write to the one is seen in the other.  A pointer
   in an interface may become one to the struct its target begins. *)
CopyIsFaithful ==
    status = "done" =>
      \A c \in DOMAIN heap :
        LET n == heap[c].of
            kids == heap[c].kids
        IN  /\ Len(kids) = Len(Content(n))
            /\ \A i \in DOMAIN kids :
                 LET v == kids[i]
                     k == Content(n)[i]
                 IN  IF v >= 0 THEN (v = 0 /\ IsNil(k)) \/ (v = k /\ KindOf(k) \in Shared)
                     ELSE \/ Of(v) = k
                          \/ /\ KindOf(k) = "ptr" /\ KindOf(Of(v)) = "ptr"
                             /\ Address(Target(Of(v))) = Address(Target(k))
                             /\ Target(Of(v)) # Target(k) => InInterface(n, k)

(* No address is copied twice: pointers that were equal are equal, and a cycle
   of pointers closes. *)
OneCopyPerAddress ==
    \A c, d \in DOMAIN heap :
        /\ c # d /\ KindOf(heap[c].of) = "ptr" /\ KindOf(heap[d].of) = "ptr"
        => Address(Target(heap[c].of)) # Address(Target(heap[d].of))

KidSet == [n \in DOMAIN graph |-> {Kids(n)[k] : k \in DOMAIN Kids(n)}]

(* The nodes reached from one by way of nodes that are not pointers. *)
WithoutPointers(n) ==
    LET reach[k \in 0..Len(graph)] ==
          IF k = 0 THEN IF KindOf(n) = "ptr" THEN {} ELSE KidSet[n]
          ELSE reach[k - 1] \cup UNION {KidSet[m] : m \in {m \in reach[k - 1] : KindOf(m) # "ptr"}}
    IN  reach[Len(graph)]

(* Where every cycle of the graph leads through a pointer, Clone returns, with a
   copy or an error: pointers are remembered before their targets are cloned. *)
Terminates ==
    (\A n \in DOMAIN graph : n \notin WithoutPointers(n)) ~> status \in {"done", "error"}

(* "Handles circular references automatically" (line 12): no object makes the
   walk go on until the stack overflows.  Slices, maps and interfaces are not
   remembered, so that a cycle of these alone does. *)
CyclesHandled == status # "overflow"

(* "Clones any object, private fields included" (line 10): nothing in an object
   makes the walk over it fail.  A private field of a struct without an address
   does, and so does an address that is pointed to at two types. *)
AnyObjectCloned == status = "error" => stack = <<>>

(* The values without an address: the argument, what maps and interfaces hold,
   and the fields and elements of such values. *)
ByValue ==
    LET held == {1} \cup UNION {KidSet[n] : n \in {n \in DOMAIN graph : KindOf(n) \in {"map", "iface"}}}
        parts[k \in 0..Len(graph)] ==
          IF k = 0 THEN held
          ELSE parts[k - 1] \cup UNION {KidSet[n] : n \in {n \in parts[k - 1] : KindOf(n) \in Inline}}
    IN  parts[Len(graph)]

(* What makes Clone fail: its type parameter is an interface, an
   address is pointed to at two types, or an unexported field of a struct
   without an address holds more than plain basic values. *)
ErrorsExplained ==
    status = "error" =>
      \/ stack = <<>>
      \/ \E p, q \in DOMAIN graph :
           /\ KindOf(p) = "ptr" /\ KindOf(q) = "ptr" /\ ~IsNil(p) /\ ~IsNil(q)
           /\ Target(p) # Target(q) /\ Address(Target(p)) = Address(Target(q))
      \/ \E n \in ByValue :
           /\ KindOf(n) = "private"
           /\ \E k \in DOMAIN Kids(n) : KindOf(Kids(n)[k]) # "basic" /\ ~IsNil(Kids(n)[k])
=============================================================================
