------------------------------- MODULE Values -------------------------------
(***************************************************************************)
(* Go values as Cast sees them through reflect: a type and a content.  A   *)
(* content is a number (floats in halves, times in seconds), a text, a     *)
(* boolean, a sequence of contents for a slice, pointer (at most one) or   *)
(* struct, a function to contents for a map, and at most one value for     *)
(* "any".                                                                  *)
(***************************************************************************)
EXTENDS StructTypes, SequencesExt, FiniteSets, TLC

CONSTANT
    Wide   \* the bits of the widest integers, which stand for 64

ASSUME ValuesAssumption == Wide \in Nat \ {0, 1}

(* reflect.Value: the zero Value has no type.  What was found in a private field
   is read-only (ro), with all its parts; nothing that is stored is. *)
V(t, is) == [type |-> t, is |-> is, ro |-> FALSE]
Invalid  == V("none", 0)

OutOf(v, part) == [part EXCEPT !.ro = v.ro]

HoldsNone(v) == Kind(v.type) \in {"ptr", "any"} /\ v.is = <<>>

(* Value.Elem of a pointer or interface. *)
ElemOf(v) ==
    IF HoldsNone(v) THEN Invalid
    ELSE OutOf(v, IF Kind(v.type) = "ptr" THEN V(Elem(v.type), v.is[1]) ELSE v.is[1])

Indirect(v) == IF Kind(v.type) = "ptr" THEN ElemOf(v) ELSE v

FieldOf(v, i) ==
    LET f == Fields(v.type)[i]
    IN  [V(f.type, v.is[i]) EXCEPT !.ro = v.ro \/ ~f.exported]

(* An element of a slice or a map. *)
Item(v, k) == OutOf(v, V(Elem(v.type), v.is[k]))

(* The zero time is years before any other. *)
ZeroTime == -(2 ^ (Wide - 1))

RECURSIVE Zero(_)
Zero(t) ==
    CASE Kind(t) \in {"int", "uint", "float"} -> 0
      [] Kind(t) = "text" -> ""
      [] Kind(t) = "bool" -> FALSE
      [] Kind(t) = "time" -> ZeroTime
      [] Kind(t) = "struct" -> [i \in DOMAIN Fields(t) |-> Zero(Fields(t)[i].type)]
      [] OTHER -> <<>>

(* SetInt and SetUint keep the bits there are. *)
Wrap(t, n) ==
    LET size == 2 ^ Types[t].bits
    IN  IF Kind(t) = "uint" THEN n % size ELSE ((n + size \div 2) % size) - size \div 2

ToInt64(n) == ((n + 2 ^ (Wide - 1)) % (2 ^ Wide)) - 2 ^ (Wide - 1)

Magnitude(n) == IF n < 0 THEN -n ELSE n

Truncated(half) == IF half < 0 THEN -(-half \div 2) ELSE half \div 2

FloatText(half) ==
    (IF half < 0 THEN "-" ELSE "") \o ToString(Magnitude(half) \div 2) \o (IF half % 2 = 0 THEN "" ELSE ".5")

(* The numbers a text stands for: none or one. *)
Ints(s)   == {n \in -(2 ^ (Wide - 1))..(2 ^ (Wide - 1) - 1) : ToString(n) = s}
Uints(s)  == {n \in 0..(2 ^ Wide - 1) : ToString(n) = s}
Halves(s) == {n \in -(2 ^ Wide)..(2 ^ Wide) : FloatText(n) = s}

(* A time written with the format tag of a field, or the default format, the
   only one of the two that Guess can read. *)
DateText(n, format) == format \o "@" \o ToString(n)
Guess(s) == {n \in ZeroTime..(-ZeroTime) : DateText(n, "") = s}

Falses == {"", "false", "0", "no", "off"}
=============================================================================
