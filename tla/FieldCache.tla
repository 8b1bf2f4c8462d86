----------------------------- MODULE FieldCache -----------------------------
(***************************************************************************)
(* The field cache of the Converter, which goroutines share.  Field maps   *)
(* are cached by type; a goroutine that finds none builds it without the   *)
(* lock, the embedded structs' maps first.  The lock is held for one       *)
(* access to the cache at a time, so an access is a step.                  *)
(***************************************************************************)
EXTENDS StructTypes

CONSTANT Proc   \* the goroutines

VARIABLES
    fieldCache,   \* from types to field maps
    ask,          \* the types whose maps a goroutine's cast still asks for
    build         \* the maps it is building: of an embedded struct on top

cacheVars == <<fieldCache, ask, build>>

CacheInit ==
    /\ fieldCache = <<>>
    /\ ask \in [Proc -> Seq(Structs)]
    /\ build = [p \in Proc |-> <<>>]

Building(p) == build[p][Len(build[p])]

Field(frame) == Fields(frame.t)[frame.i]

(* The type whose map goroutine p looks up next: an embedded one, or one its
   cast asks for. *)
Wanted(p) ==
    IF build[p] = <<>> THEN IF ask[p] = <<>> THEN "none" ELSE Head(ask[p])
    ELSE Building(p).wants

WithEmbedded(f, map) == [f EXCEPT !.map = Promoted(map, f.i, f.map), !.wants = "none", !.i = f.i + 1]

(* The maps under way once the top one, or the one it needed, is `map`: it is
   merged into the map of the struct around. *)
Merged(under, map) ==
    [under EXCEPT ![Len(under)] = WithEmbedded(@, map)]

(* A map is there: the cast goes on with it, or the struct around does. *)
GotMap(p, map, under) ==
    IF under = <<>>
    THEN /\ ask' = [ask EXCEPT ![p] = Tail(@)] /\ build' = [build EXCEPT ![p] = under]
    ELSE build' = [build EXCEPT ![p] = Merged(under, map)] /\ UNCHANGED ask

NewMap(t) == [t |-> t, i |-> 1, map |-> <<>>, wants |-> "none"]

Stored(t, map) == fieldCache' = Over([s \in {t} |-> map], fieldCache)

(* getFieldMap under the read lock, and what a miss begins. *)
Hit(p) ==
    /\ Wanted(p) \in DOMAIN fieldCache
    /\ GotMap(p, fieldCache[Wanted(p)], build[p])
    /\ UNCHANGED fieldCache

(* Mutant: the map is published before it is filled. *)
PublishedEarly(t) == Stored(t, <<>>)

Unpublished(t) == UNCHANGED fieldCache

Miss(p) ==
    /\ Wanted(p) \notin DOMAIN fieldCache \cup {"none"}
    /\ build' = [build EXCEPT ![p] = Append(@, NewMap(Wanted(p)))]
    /\ Unpublished(Wanted(p))
    /\ UNCHANGED ask

(* One field of the map that is built. *)
WithField(f) ==
    [f EXCEPT !.map = Over(OwnEntries(f.t, f.i), f.map),
              !.wants = IF IsEmbedded(Field(f)) THEN Field(f).type ELSE "none",
              !.i = IF IsEmbedded(Field(f)) THEN @ ELSE @ + 1]

AddField(p) ==
    /\ build[p] # <<>> /\ Building(p).wants = "none" /\ Building(p).i <= Len(Fields(Building(p).t))
    /\ build' = [build EXCEPT ![p] = [build[p] EXCEPT ![Len(build[p])] = WithField(Building(p))]]
    /\ UNCHANGED <<fieldCache, ask>>

IsBuilt(p) == build[p] # <<>> /\ Building(p).wants = "none" /\ Building(p).i > Len(Fields(Building(p).t))

(* getFieldMap under the write lock: the map is stored, whoever was faster. *)
StoreMap(p) ==
    /\ IsBuilt(p)
    /\ Stored(Building(p).t, Building(p).map)
    /\ GotMap(p, Building(p).map, SubSeq(build[p], 1, Len(build[p]) - 1))

GetFieldMap(p) == Hit(p) \/ Miss(p) \/ AddField(p) \/ StoreMap(p)

(* A goroutine that has its maps goes on to a cast that asks for these. *)
HasMaps(p) == ask[p] = <<>> /\ build[p] = <<>>

Request(p, types) ==
    /\ HasMaps(p)
    /\ ask' = [ask EXCEPT ![p] = types]
    /\ UNCHANGED <<fieldCache, build>>

CacheNext == \E p \in Proc : GetFieldMap(p) \/ \E types \in Seq(Structs) : Request(p, types)

CacheSpec == CacheInit /\ [][CacheNext]_cacheVars

-----------------------------------------------------------------------------
(* Whatever goroutines build at once, a field map that can be found is complete:
   every name and tag, the outer field before one promoted from an embedded
   struct, and so is what a goroutine builds when it stores it (getFieldMap). *)
FieldMapsComplete ==
    /\ \A t \in DOMAIN fieldCache : fieldCache[t] = FieldMap[t]
    /\ \A p \in Proc : IsBuilt(p) => Building(p).map = FieldMap[Building(p).t]
=============================================================================
