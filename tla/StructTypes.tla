---------------------------- MODULE StructTypes -----------------------------
(***************************************************************************)
(* Go types as Cast sees them through reflect, and the field map that      *)
(* getFieldMap makes of a struct: from names and tags to fields.  A type   *)
(* is a name; what a name stands for is in Types.                          *)
(***************************************************************************)
EXTENDS Integers, Sequences

CONSTANT
    Types   \* [kind, bits, key, elem, fields] of each type

Kind(t)   == IF t \in DOMAIN Types THEN Types[t].kind ELSE "none"
Elem(t)   == Types[t].elem
Fields(t) == Types[t].fields

Structs == {t \in DOMAIN Types : Kind(t) = "struct"}

IsEmbedded(f) == f.embedded /\ Kind(f.type) = "struct"

EmbeddedIn(t) == {Fields(t)[i].type : i \in {i \in DOMAIN Fields(t) : IsEmbedded(Fields(t)[i])}}

Embedding == {t \in Structs : EmbeddedIn(t) # {}}

(* Go has no struct that holds itself in line: of some structs that embed others
   there is always one that embeds none of them. *)
ASSUME StructTypesAssumption ==
    /\ "none" \notin DOMAIN Types
    /\ \A t \in Structs : Len(Fields(t)) \in Nat /\ DOMAIN Fields(t) = 1..Len(Fields(t))
    /\ \A S \in SUBSET Embedding : S # {} => \E t \in S : EmbeddedIn(t) \cap S = {}

-----------------------------------------------------------------------------
(* A map with the entries of f, and those of g under other keys. *)
Over(f, g) == [k \in DOMAIN f \cup DOMAIN g |-> IF k \in DOMAIN f THEN f[k] ELSE g[k]]

(* db, then json: the first that names something. *)
TagName(f) == IF f.db \notin {"", "-"} THEN f.db ELSE IF f.json # "-" THEN f.json ELSE ""

(* Mutant: a field with a tag has no entry under its own name. *)
OwnEntriesTagOnly(t, i) ==
    LET f == Fields(t)[i]
    IN  [k \in {IF TagName(f) = "" THEN f.name ELSE TagName(f)} |-> [path |-> <<i>>, format |-> f.format]]

(* The entries a field makes for itself. *)
OwnEntries(t, i) ==
    LET f == Fields(t)[i]
        names == {f.name} \cup (IF TagName(f) = "" THEN {} ELSE {TagName(f)})
    IN  [k \in names |-> [path |-> <<i>>, format |-> f.format]]

(* The entries of a struct, in the struct that embeds it as field i. *)
Brought(nested, i) == [k \in DOMAIN nested |-> [path |-> <<i>> \o nested[k].path, format |-> ""]]

(* They count for the names that are still free. *)
Promoted(nested, i, map) == Over(map, Brought(nested, i))

(* The names field i offers entries for, given the maps of the structs embedded. *)
Offers(entries, rank) == {[name |-> k, rank |-> rank, entry |-> entries[k]] : k \in DOMAIN entries}

Offered(t, i, maps) ==
    LET f  == Fields(t)[i]
        in == IF IsEmbedded(f) THEN maps[f.type] ELSE <<>>
    IN  Offers(OwnEntries(t, i), i) \cup Offers(Brought(in, i), -i)

(* Under each name the offer of highest rank counts: of two fields the later one,
   of a field and a promoted one the outer one, of two promoted ones the first. *)
Leading(offers) ==
    [k \in {a.name : a \in offers} |->
       (CHOOSE a \in offers : a.name = k /\ \A b \in offers : b.name = k => b.rank <= a.rank).entry]

(* What the first n fields come to. *)
Entries(t, n, maps) == Leading(UNION {Offered(t, i, maps) : i \in 1..n})

(* What getFieldMap makes of a struct. *)
FieldMap[t \in Structs] ==
    Entries(t, Len(Fields(t)), [s \in EmbeddedIn(t) |-> FieldMap[s]])
=============================================================================
