-------------------------------- MODULE Cast --------------------------------
(***************************************************************************)
(* Cast: a conversion maps a destination's type and content and a source   *)
(* to the set of its outcomes, for Go ranges over maps in any order.       *)
(***************************************************************************)
EXTENDS Values

(* Below a private embedded struct reflect forgets that it is private. *)
ASSUME CastAssumption ==
    \A t \in Structs : \A i \in DOMAIN Fields(t) : Fields(t)[i].embedded => Fields(t)[i].exported

Out(res, to) == {[res |-> res, to |-> to]}
Ok(to)  == Out("ok", to)
Err(to) == Out("err", to)
Panic(to) == Out("panic", to)

Then(outs, Do(_)) == UNION {IF o.res = "ok" THEN Do(o.to) ELSE {o} : o \in outs}

(* On an error or a panic the destination is still `d`. *)
Instead(outs, d) == {IF o.res = "ok" THEN o ELSE [o EXCEPT !.to = d] : o \in outs}

(* A range over a map, in every order, until something fails. *)
RangeOver(keys, start, Do(_, _)) ==
    LET step(ranges, n) ==
            UNION {IF r.out.res # "ok" THEN {r}
                   ELSE UNION {{[todo |-> r.todo \ {k}, out |-> o] : o \in Do(r.out.to, k)} : k \in r.todo} :
                     r \in ranges}
    IN  {r.out : r \in FoldLeft(step, {[todo |-> keys, out |-> o] : o \in Ok(start)},
                               [n \in 1..Cardinality(keys) |-> n])}

RECURSIVE FieldAt(_, _), Get(_, _), Put(_, _, _)
FieldAt(t, path) ==
    IF Len(path) = 1 THEN Fields(t)[path[1]] ELSE FieldAt(Fields(t)[path[1]].type, Tail(path))
Get(d, path) == IF path = <<>> THEN d ELSE Get(d[path[1]], Tail(path))
Put(d, path, x) == IF path = <<>> THEN x ELSE [d EXCEPT ![path[1]] = Put(@, Tail(path), x)]

(* Interfaces taken off, and with pointers. *)
RECURSIVE Bare(_), Deref(_)
Bare(v)  == IF Kind(v.type) = "any" /\ ~HoldsNone(v) THEN Bare(ElemOf(v)) ELSE v
Deref(v) == IF Kind(v.type) \in {"any", "ptr"} THEN Deref(ElemOf(v)) ELSE v

-----------------------------------------------------------------------------
(* convertToString. *)
ToText(d, v) ==
    CASE Kind(v.type) = "none" -> Ok("")
      [] Kind(v.type) = "text" -> Ok(v.is)
      [] Kind(v.type) \in {"bool", "int", "uint"} ->
           Ok(IF Kind(v.type) # "bool" THEN ToString(v.is) ELSE IF v.is THEN "true" ELSE "false")
      [] Kind(v.type) = "float" -> Ok(FloatText(v.is))
      [] Kind(v.type) = "time" -> IF v.ro THEN Panic(d) ELSE Ok(DateText(v.is, ""))
      [] OTHER -> Err(d)

ToBool(d, v) ==
    CASE Kind(v.type) = "none" -> Ok(FALSE)
      [] Kind(v.type) = "bool" -> Ok(v.is)
      [] Kind(v.type) = "text" -> Ok(v.is \notin Falses)
      [] Kind(v.type) \in {"int", "uint", "float"} -> Ok(v.is # 0)
      [] OTHER -> Err(d)

Parsed(d, s, numbers, Set(_)) ==
    IF s = "" THEN Ok(Set(0)) ELSE IF numbers = {} THEN Err(d) ELSE Ok(Set(CHOOSE n \in numbers : TRUE))

Bit(b) == IF b THEN 1 ELSE 0

ToInt(t, d, v) ==
    CASE Kind(v.type) = "none" -> Ok(0)
      [] Kind(v.type) = "bool" -> Ok(Bit(v.is))
      [] Kind(v.type) = "text" -> Parsed(d, v.is, Ints(v.is), LAMBDA n : Wrap(t, n))
      [] Kind(v.type) \in {"int", "uint"} -> Ok(Wrap(t, ToInt64(v.is)))
      [] Kind(v.type) = "float" -> Ok(Wrap(t, Truncated(v.is)))
      [] OTHER -> Err(d)

ToUint(t, d, v) ==
    CASE Kind(v.type) = "none" -> Ok(0)
      [] Kind(v.type) = "bool" -> Ok(Bit(v.is))
      [] Kind(v.type) = "text" -> Parsed(d, v.is, Uints(v.is), LAMBDA n : Wrap(t, n))
      [] Kind(v.type) \in {"int", "float"} /\ v.is < 0 -> Err(d)
      [] Kind(v.type) \in {"int", "uint"} /\ v.is >= 0 -> Ok(Wrap(t, v.is))
      [] Kind(v.type) = "float" /\ v.is >= 0 -> Ok(Wrap(t, Truncated(v.is)))
      [] OTHER -> Err(d)

ToFloat(d, v) ==
    CASE Kind(v.type) = "none" -> Ok(0)
      [] Kind(v.type) = "bool" -> Ok(2 * Bit(v.is))
      [] Kind(v.type) = "text" -> Parsed(d, v.is, Halves(v.is), LAMBDA n : n)
      [] Kind(v.type) \in {"int", "uint"} -> Ok(2 * v.is)
      [] Kind(v.type) = "float" -> Ok(v.is)
      [] OTHER -> Err(d)

(* A time, which only a bare one gives as a number; an interface hides it. *)
FromTime(t, d, v) ==
    IF v.ro THEN Panic(d) ELSE IF Kind(t) = "float" THEN Ok(2 * v.is) ELSE Ok(Wrap(t, v.is))

(* A text that is no date, and whatever is no number, becomes the zero time. *)
ToTime(v) ==
    CASE Kind(v.type) = "text" /\ Guess(v.is) # {} -> CHOOSE n \in Guess(v.is) : TRUE
      [] Kind(v.type) = "int" -> v.is
      [] OTHER -> ZeroTime

(* The names on the way to a field. *)
RECURSIVE Names(_, _), Nested(_, _)
Names(t, path) ==
    IF path = <<>> THEN <<>> ELSE <<Fields(t)[path[1]].name>> \o Names(Fields(t)[path[1]].type, Tail(path))

(* What is stored under names of one name, and of more, in Data within Data; a
   value at the start of longer names stays, or replaces what was stored there. *)
Nested(stores, n) ==
    [name \in {s.names[n] : s \in stores} |->
       LET under == {s \in stores : s.names[n] = name}
           here  == {s \in under : Len(s.names) = n}
       IN  IF here # {} THEN (CHOOSE s \in here : TRUE).value ELSE V("Data", Nested(under, n + 1))]

(* convertToData: the fields a struct has entries for, under their own names; of
   one within an embedded struct the whole struct, and a private one panics. *)
ToData(s) ==
    LET v == Indirect(s)
    IN  CASE Kind(v.type) = "none" -> Ok(<<>>)
          [] Kind(v.type) = "map" ->
               LET name(k) == IF Kind(Types[v.type].key) = "text" THEN k ELSE ToString(k)
                   key(n)  == CHOOSE k \in DOMAIN v.is : name(k) = n
               IN  IF v.ro /\ v.is # <<>> THEN Panic(<<>>)
                   ELSE Ok([n \in {name(k) : k \in DOMAIN v.is} \ {"$data"} |-> Bare(Item(v, key(n)))])
          [] Kind(v.type) = "struct" ->
               LET map == FieldMap[v.type]
                   paths == {map[k].path : k \in DOMAIN map}
                   stores == {[names |-> Names(v.type, p), value |-> Bare(FieldOf(v, p[1]))] : p \in paths}
               IN  IF \E p \in paths : FieldOf(v, p[1]).ro THEN Panic(<<>>) ELSE Ok(Nested(stores, 1))
          [] Kind(v.type) = "time" -> Panic(<<>>)
          [] OTHER -> IF v.ro THEN Panic(<<>>) ELSE Ok("$data" :> Bare(v))

IsTime(t) == Kind(t) = "time" \/ (Kind(t) = "ptr" /\ Kind(Elem(t)) = "time")

TimeIn(t, n) == IF Kind(t) = "time" THEN n ELSE <<n>>

-----------------------------------------------------------------------------
RECURSIVE Convert(_, _, _), ToPtr(_, _, _), ToStruct(_, _, _), ToSlice(_, _, _), ToMap(_, _, _)

(* Mutant: a private field is set, which reflect does not allow. *)
PrivateFieldSet(d) == Panic(d)

(* A private field is passed over. *)
PrivateField(d) == Ok(d)

(* Mutant: the error is lost and the fields after it are not converted. *)
FieldErrorLost(outs) == {[o EXCEPT !.res = IF @ = "err" THEN "ok" ELSE @] : o \in outs}

(* An error in a field is the cast's. *)
FieldError(outs) == outs

(* setStructField, and the two cases convertToStruct takes out before it; the
   first of these forgets that a field may be private. *)
SetField(t, d, info, v) ==
    LET f == FieldAt(t, info.path)
        x == Bare(v)
        put(outs) == {[o EXCEPT !.to = Put(d, info.path, o.to)] : o \in outs}
    IN  CASE Kind(f.type) = "text" /\ Kind(Indirect(x).type) = "time" ->
               IF ~f.exported /\ Len(info.path) > 1 THEN PrivateField(d)
               ELSE IF ~f.exported \/ x.ro THEN Panic(d)
               ELSE put(Ok(DateText(Indirect(x).is, info.format)))
          [] ~f.exported /\ ~(Kind(f.type) = "text" /\ Kind(Indirect(x).type) = "time") -> PrivateField(d)
          [] f.exported /\ IsTime(f.type) /\ Kind(x.type) = "text" ->
               IF Guess(x.is) = {} THEN Ok(d) ELSE put(Ok(TimeIn(f.type, ToTime(x))))
          [] f.exported /\ IsTime(f.type) /\ Kind(x.type) = "int" -> put(Ok(TimeIn(f.type, x.is)))
          [] OTHER -> put(Convert(f.type, Get(d, info.path), v))

(* A promoted field of the source is looked up as the struct it is in. *)
ToStruct(t, d, s) ==
    LET v   == Indirect(s)
        map == FieldMap[t]
        set(dest, k, from) == SetField(t, dest, map[k], from)
    IN  CASE Kind(v.type) = "none" -> Ok(d)
          [] Kind(v.type) = "map" ->
               IF Kind(Types[v.type].key) # "text" THEN Err(d)
               ELSE FieldError(RangeOver(DOMAIN map \cap DOMAIN v.is, d,
                                    LAMBDA dest, k : set(dest, k, Item(v, k))))
          [] Kind(v.type) = "struct" ->
               LET src == FieldMap[v.type]
               IN  FieldError(RangeOver(DOMAIN map \cap DOMAIN src, d,
                                LAMBDA dest, k : set(dest, k, FieldOf(v, src[k].path[1]))))
          [] Kind(v.type) = "time" -> Ok(d)
          [] Kind(v.type) \in {"any", "ptr"} -> IF HoldsNone(v) THEN Ok(d) ELSE ToStruct(t, d, ElemOf(v))
          [] OTHER ->
               IF Len(Fields(t)) = 1 /\ Fields(t)[1].exported
               THEN {[o EXCEPT !.to = <<o.to>>] : o \in Convert(Fields(t)[1].type, d[1], v)}
               ELSE Err(d)

(* Mutant: the elements are converted in the destination. *)
ToSliceInPlace(t, d, s) ==
    LET v     == Indirect(s)
        elems == IF Kind(v.type) = "slice" THEN [i \in DOMAIN v.is |-> Item(v, i)] ELSE <<v>>
        add(outs, e) == Then(outs, LAMBDA made : Then(Instead(Convert(Elem(t), Zero(Elem(t)), e), made), LAMBDA x : Ok(Append(made, x))))
    IN  IF Kind(v.type) = "none" THEN Ok(<<>>) ELSE FoldLeft(add, Ok(<<>>), elems)

(* Of what is no slice, a list in an interface among them, one of one. *)
ToSlice(t, d, s) ==
    LET v     == Indirect(s)
        elems == IF Kind(v.type) = "slice" THEN [i \in DOMAIN v.is |-> Item(v, i)] ELSE <<v>>
        add(outs, e) == Then(outs, LAMBDA made : Then(Convert(Elem(t), Zero(Elem(t)), e), LAMBDA x : Ok(Append(made, x))))
    IN  IF Kind(v.type) = "none" THEN Ok(<<>>) ELSE Instead(FoldLeft(add, Ok(<<>>), elems), d)

(* Keys that become the same one replace each other. *)
ToMap(t, d, s) ==
    LET v == Indirect(s)
        to(x, def) == Convert(def, Zero(def), x)
        put(m, key, value) ==
            Then(to(key, Types[t].key), LAMBDA k : Then(to(value, Elem(t)), LAMBDA x : Ok((k :> x) @@ m)))
        named(i) == V("text", Fields(v.type)[i].name)
    IN  CASE Kind(v.type) = "none" -> Ok(<<>>)
          [] Kind(v.type) = "map" ->
               Instead(RangeOver(DOMAIN v.is, <<>>,
                         LAMBDA m, k : put(m, OutOf(v, V(Types[v.type].key, k)), Item(v, k))), d)
          [] Kind(v.type) = "struct" ->
               LET shown == SelectSeq([i \in DOMAIN Fields(v.type) |-> i], LAMBDA i : Fields(v.type)[i].exported)
                   add(outs, i) == Then(outs, LAMBDA m : put(m, named(i), FieldOf(v, i)))
               IN  Instead(FoldLeft(add, Ok(<<>>), shown), d)
          [] Kind(v.type) = "time" -> Ok(<<>>)
          [] OTHER -> Err(d)

(* The target that is there is converted into; a new one stays after an error. *)
ToPtr(t, d, s) ==
    LET v      == IF Kind(s.type) \in {"ptr", "any"} THEN ElemOf(s) ELSE s
        target == IF d = <<>> THEN Zero(Elem(t)) ELSE d[1]
    IN  IF Kind(v.type) = "none" THEN Ok(<<>>)
        ELSE {[o EXCEPT !.to = <<o.to>>] : o \in Convert(Elem(t), target, v)}

(* convertValue.  A pointer that is nil is not noticed before its type is asked
   for, what is read-only cannot be assigned, and an array cannot be made with
   MakeSlice. *)
Convert(t, d, s) ==
    LET v == Indirect(s)
        k == Kind(t)
    IN  CASE Kind(s.type) = "none" -> Ok(Zero(t))
          [] Kind(s.type) # "none" /\ k = "data" -> ToData(s)
          [] Kind(s.type) # "none" /\ k = "ptr"  -> ToPtr(t, d, s)
          [] Kind(s.type) # "none" /\ k \notin {"data", "ptr"} ->
               IF Kind(v.type) = "none" THEN Panic(d)
               ELSE IF t = v.type \/ k = "any"
               THEN IF v.ro THEN Panic(d) ELSE Ok(IF t = v.type THEN v.is ELSE <<v>>)
               ELSE CASE k = "time"   -> Ok(ToTime(Bare(v)))
                      [] k = "struct" -> ToStruct(t, d, v)
                      [] k = "slice"  -> ToSlice(t, d, v)
                      [] k = "array"  -> Panic(d)
                      [] k = "map"    -> ToMap(t, d, v)
                      [] k = "text"   -> ToText(d, Deref(v))
                      [] k = "bool"   -> ToBool(d, Deref(v))
                      [] k \in {"int", "uint", "float"} /\ Kind(v.type) = "time" -> FromTime(t, d, v)
                      [] k = "int"   /\ Kind(v.type) # "time" -> ToInt(t, d, Deref(v))
                      [] k = "uint"  /\ Kind(v.type) # "time" -> ToUint(t, d, Deref(v))
                      [] k = "float" /\ Kind(v.type) # "time" -> ToFloat(d, Deref(v))
                      [] k = "func"   -> Err(d)
=============================================================================
