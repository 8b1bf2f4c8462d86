----------------------------- MODULE Converter ------------------------------
(***************************************************************************)
(* The Converter every Cast uses, and the goroutines that use it: each     *)
(* casts one value after another, with the field maps it gets from the     *)
(* cache they share.                                                       *)
(***************************************************************************)
EXTENDS Cast, FieldCache

CONSTANT
    Loads   \* what each goroutine casts: functions from Proc to sequences of jobs

(* A job is a destination's type and content and a source. *)
Job(t, to, from) == [t |-> t, to |-> to, from |-> from]

(* The caller casts what the cast before made to another type. *)
Onward(t) == Job(t, Zero(t), V("made", 0))

VARIABLES
    jobs,         \* the casts each goroutine has still to do
    outcome       \* the last cast's outcome, and those it could have had

castVars == <<fieldCache, jobs, ask, build, outcome>>

None == [res |-> "none"]

(* Convert asks for the maps of the structs it converts into and from; the maps
   of structs within these, which it asks for in the same way, are taken to be
   what FieldMapsComplete says they are. *)
Asks(job) ==
    LET from  == Indirect(job.from).type
        to    == IF Kind(job.t) = "ptr" THEN Elem(job.t) ELSE job.t
        is(t) == Kind(t) = "struct"
    IN  IF from \in {to, "none"} THEN <<>>
        ELSE SelectSeq(<<to, from>>, LAMBDA t : is(t) /\ (is(to) \/ Kind(to) = "data"))

Asked(load) == IF load = <<>> THEN <<>> ELSE Asks(load[1])

(* The jobs that are left, once the first cast has made `made`. *)
Rest(load, made) ==
    IF Len(load) > 1 /\ load[2].from.type = "made" THEN <<[load[2] EXCEPT !.from = made]>> \o SubSeq(load, 3, Len(load))
    ELSE Tail(load)

CastInit ==
    /\ jobs \in Loads
    /\ ask = [p \in Proc |-> Asked(jobs[p])]
    /\ CacheInit
    /\ outcome = [p \in Proc |-> None]

(* With its field maps a cast touches nothing that is shared. *)
Converted(p) ==
    /\ jobs[p] # <<>> /\ HasMaps(p)
    /\ LET job == jobs[p][1]
       IN  \E outs \in {Convert(job.t, job.to, job.from)} : \E o \in outs :
             /\ outcome' = [outcome EXCEPT ![p] = [of |-> job, res |-> o.res, to |-> o.to, outs |-> outs]]
             /\ jobs' = [jobs EXCEPT ![p] = Rest(@, V(job.t, o.to))]
    /\ Request(p, Asked(jobs'[p]))

Lookup(p) == GetFieldMap(p) /\ UNCHANGED <<jobs, outcome>>

CastNext == \E p \in Proc : Lookup(p) \/ Converted(p)

CastSpec == CastInit /\ [][CastNext]_castVars

-----------------------------------------------------------------------------
JobOf(p) == outcome[p].of
Done(p) == outcome[p].res # "none"

(* A cast that fails leaves its destination as it was, unless that is a struct
   (filled as far as the range came) or a pointer (to a new value, or to one
   that was changed) (convertToSlice, convertToMap, convertToInt). *)
ErrorsChangeNothing ==
    \A p \in Proc : Done(p) /\ outcome[p].res = "err" /\ Kind(JobOf(p).t) \notin {"struct", "ptr"}
                      => outcome[p].to = JobOf(p).to

RECURSIVE Within(_)
Within(v) ==
    {v} \cup CASE Kind(v.type) = "any" /\ ~HoldsNone(v) -> Within(ElemOf(v))
               [] Kind(v.type) = "ptr" /\ ~HoldsNone(v) -> Within(ElemOf(v))
               [] Kind(v.type) = "struct" -> UNION {Within(FieldOf(v, i)) : i \in DOMAIN v.is}
               [] Kind(v.type) \in {"slice", "map"} -> UNION {Within(Item(v, k)) : k \in DOMAIN v.is}
               [] OTHER -> {}

RECURSIVE TypesIn(_)
TypesIn(t) ==
    {t} \cup CASE Kind(t) \in {"slice", "ptr", "map", "array"} -> TypesIn(Elem(t))
               [] Kind(t) = "struct" -> UNION {TypesIn(Fields(t)[i].type) : i \in DOMAIN Fields(t)}
               [] OTHER -> {}

Private(t) ==
    \/ Kind(t) = "time"
    \/ Kind(t) = "struct" /\ \E i \in DOMAIN Fields(t) : ~Fields(t)[i].exported

(* A private field of a struct in the source that is handed on to a field of a
   struct in the destination, and has something in it that is assigned there as
   it is, or taken for a time. *)
HandsOn(s, t, dest) ==
    LET own == FieldMap[s.type]
    IN  \E k \in DOMAIN own \cap DOMAIN FieldMap[t] :
          \E v \in Within(FieldOf(s, own[k].path[1])) :
            /\ v.ro
            /\ \/ v.type \in dest
               \/ \E to \in dest : Kind(to) = "any"
               \/ Kind(v.type) = "time" /\ \E to \in dest : Kind(to) \in {"text", "int", "uint", "float"}

(* Cast panics only for a nil pointer in the source, for an array, for a private
   field that is turned into Data or assigned, and for a time that meets a private
   text (convertValue, convertToSlice, convertToData, convertToStruct). *)
CastPanicsExplained ==
    \A p \in Proc : Done(p) /\ outcome[p].res = "panic" =>
        LET source == Within(JobOf(p).from)
            dest   == TypesIn(JobOf(p).t)
            structs(S) == {x \in S : Kind(x) = "struct"}
        IN  \/ \E v \in source : Kind(v.type) = "ptr" /\ HoldsNone(v)
            \/ \E t \in dest : Kind(t) = "array"
            \/ (\E t \in dest : Kind(t) = "data") /\ \E v \in source : Private(v.type)
            \/ (\E t \in dest : Private(t)) /\ \E v \in source : Kind(v.type) = "time"
            \/ \E s \in source, t \in structs(dest) : Kind(s.type) = "struct" /\ HandsOn(s, t, dest)

Prefix(a, b) == Len(a) <= Len(b) /\ SubSeq(b, 1, Len(a)) = a

(* Two names in the source that fall on the same field of the destination, or on
   a struct and a field in it. *)
Clash(t, s) ==
    LET map == FieldMap[t]
        src == IF Kind(s.type) = "struct" THEN FieldMap[s.type] ELSE [k \in DOMAIN s.is |-> [path |-> <<k>>]]
    IN  Kind(Types[s.type].key) # "int" /\
        \E j, k \in DOMAIN map \cap DOMAIN src :
            src[j].path # src[k].path /\ Prefix(map[j].path, map[k].path)

(* The order in which Go ranges over maps does not decide whether a cast fails,
   and where no two names of the source fall on the same field nor two keys on
   the same one, it does not decide the result of one that succeeds
   (convertToStruct, convertToMap). *)
OrderIrrelevant ==
    \A p \in Proc : Done(p) =>
        LET job == JobOf(p)
            outs == outcome[p].outs
            from == Indirect(job.from)
        IN  /\ outcome[p].res # "panic" => \A o \in outs : o.res \in {outcome[p].res, "panic"}
            /\ \/ outcome[p].res # "ok" \/ Cardinality(outs) = 1
               \/ \E t \in TypesIn(job.t), s \in Within(job.from) :
                    Kind(t) = "struct" /\ Kind(s.type) \in {"map", "struct"} /\ Clash(t, s)
               \/ Kind(job.t) = "map" /\ Cardinality(DOMAIN outcome[p].to) < Cardinality(DOMAIN from.is)

(* A struct type whose fields are plain, and no two of which share a name. *)
Clear(t) ==
    \A i \in DOMAIN Fields(t) :
        LET f == Fields(t)[i]
        IN  /\ f.exported /\ ~f.embedded
            /\ Kind(f.type) \in {"int", "uint", "float", "text", "bool", "time"}
            /\ \A j \in DOMAIN Fields(t) \ {i} : DOMAIN OwnEntries(t, i) \cap DOMAIN OwnEntries(t, j) = {}

(* A struct cast to a map of anything and back is what it was, whatever its tags
   say, but for its times, which do not find out of their interfaces and come
   back as the zero time (convertToMap, convertToStruct, convertValue). *)
GoesBack(p) ==
    LET last == outcome[p]
        s    == last.of.from
        t    == s.type
    IN  jobs'[p] # jobs[p] /\ Done(p) /\ last.res = "ok" /\ Kind(t) = "struct" /\ Clear(t)
          /\ Kind(last.of.t) = "map" /\ Kind(Elem(last.of.t)) = "any"
          /\ jobs[p][1].t = t /\ jobs[p][1].from.type = last.of.t
          /\ jobs[p][1] = Job(t, Zero(t), V(last.of.t, last.to))
        => outcome'[p].outs =
             Ok([i \in DOMAIN s.is |-> IF Kind(Fields(t)[i].type) = "time" THEN ZeroTime ELSE s.is[i]])

MapsGoBack == [][\A p \in Proc : GoesBack(p)]_castVars
=============================================================================
