---------------------------- MODULE OrderedMap ----------------------------
(***************************************************************************)
(* Map of src/y/stl_map.go: an ordered map shared by goroutines, with an   *)
(* optional reverse index (RMap).  A call acquires the RWMutex, runs its   *)
(* body and releases it; where the body calls out once per entry, or takes *)
(* the lock again, it is cut into steps.                                   *)
(***************************************************************************)
EXTENDS RWMutex, FiniteSets, SequencesExt

CONSTANTS
    Key,       \* the keys
    Val,       \* the values
    Nil,       \* no value: the key is not in the map
    Ops,       \* the operations the clients use
    Modes,     \* the values of options.isRMap in use
    MaxItems   \* a bound of the model: the items of a JSON document

ReadOps == {"look", "rget", "forEach", "fork"}
WriteOps == {"set", "rset", "rdel", "del", "clear", "sortByKey", "sortByValue",
             "marshal", "unmarshal"}

ASSUME OrderedMapAssumption ==
    /\ Nil \notin Val /\ IsFiniteSet(Key)
    /\ Ops \subseteq ReadOps \cup WriteOps
    /\ Modes \subseteq BOOLEAN /\ MaxItems \in Nat

VARIABLES
    keys,   \* the keys in their order
    vals,   \* the values of the reverse index
    mp,     \* the Go map
    rmap,   \* options.isRMap
    rw,     \* mu
    pc,     \* where each goroutine is
    loc     \* each goroutine's call

vars == <<keys, vals, mp, rmap, rw, pc, loc>>

Call == [op : Ops \cup {"none"}, key : Key \cup {Nil}, val : Val \cup {Nil},
         seen : Seq(Key \X Val),   \* what foreach has handed to its callback
         left : Nat]               \* the items UnmarshalJSON has still to read

NoCall == [op |-> "none", key |-> Nil, val |-> Nil, seen |-> <<>>, left |-> 0]

Place == {"idle", "rlock", "read", "rlock2", "lock", "wait", "in", "item", "pos",
          "panicked"}

(* Type correctness: the slices hold keys and values, and the lock's counts
   match an RWMutex that is never unlocked without being locked. *)
TypeOK ==
    /\ keys \in Seq(Key) /\ vals \in Seq(Val)
    /\ mp \in [Key -> Val \cup {Nil}]
    /\ rmap \in BOOLEAN
    /\ rw \in RWType
    /\ pc \in [Proc -> Place]
    /\ loc \in [Proc -> Call]

(* The argument of NewMap that is a map: its entries in some order. *)
Entries ==
    UNION {{[i \in 1..n |-> <<k[i], v[i]>>] : k \in Injection(1..n, Key), v \in [1..n -> Val]} :
             n \in 0..Cardinality(Key)}

KeysOf(pairs) == [i \in DOMAIN pairs |-> pairs[i][1]]
ValsOf(pairs) == [i \in DOMAIN pairs |-> pairs[i][2]]

(* NewMap, with the option RMap before or after the entries: only those that
   come after it are indexed. *)
Init ==
    /\ rmap \in Modes
    /\ \E given \in Entries, first \in BOOLEAN :
         /\ keys = KeysOf(given)
         /\ vals = IF rmap /\ first THEN ValsOf(given) ELSE <<>>
         /\ mp = [k \in Key |-> IF k \in Range(KeysOf(given))
                                THEN given[SelectInSeq(KeysOf(given), LAMBDA x : x = k)][2]
                                ELSE Nil]
    /\ rw = RWFree
    /\ pc = [p \in Proc |-> "idle"]
    /\ loc = [p \in Proc |-> NoCall]

-----------------------------------------------------------------------------
Goto(p, place) == pc' = [pc EXCEPT ![p] = place]

Return(p) == Goto(p, "idle") /\ loc' = [loc EXCEPT ![p] = NoCall]

Panic(p) == Goto(p, "panicked") /\ loc' = [loc EXCEPT ![p] = NoCall]

(* An operation of the reverse index on a map without one returns at once. *)
Offered(op) == op \in Ops /\ (op \in {"rget", "rset", "rdel"} => rmap)

(* The arguments an operation looks at. *)
Args(op) ==
    CASE op \in {"set", "rset"}  -> Key \X Val
      [] op = "del"              -> Key \X {Nil}
      [] op \in {"rget", "rdel"} -> {Nil} \X Val
      [] OTHER                   -> {<<Nil, Nil>>}

Begin(p, op) ==
    /\ pc[p] = "idle" /\ Offered(op)
    /\ \E arg \in Args(op) :
         loc' = [loc EXCEPT ![p] = [NoCall EXCEPT !.op = op, !.key = arg[1], !.val = arg[2]]]
    /\ UNCHANGED <<keys, vals, mp, rmap, rw>>

CallReader(p) == Goto(p, "rlock") /\ \E op \in ReadOps : Begin(p, op)

(* Mutant: Clear forgets the lock. *)
CallWriterClear(p) ==
    \E op \in WriteOps : Begin(p, op) /\ Goto(p, IF op = "clear" THEN "in" ELSE "lock")

CallWriter(p) == Goto(p, "lock") /\ \E op \in WriteOps : Begin(p, op)

(* RLock; Fork goes on to ForEach, which takes the read lock a second time. *)
RLock(p) ==
    /\ pc[p] \in {"rlock", "rlock2"} /\ ~RBlocked(rw)
    /\ rw' = RLocked(rw, p)
    /\ Goto(p, IF pc[p] = "rlock" /\ loc[p].op = "fork" THEN "rlock2" ELSE "read")
    /\ UNCHANGED <<keys, vals, mp, rmap, loc>>

Lock(p) ==
    /\ pc[p] = "lock" /\ ~WBlocked(rw)
    /\ rw' = Announced(rw, p)
    /\ Goto(p, "wait")
    /\ UNCHANGED <<keys, vals, mp, rmap, loc>>

Acquire(p) ==
    /\ pc[p] = "wait" /\ Drained(rw)
    /\ Goto(p, "in")
    /\ UNCHANGED <<keys, vals, mp, rmap, rw, loc>>

(* The deferred unlocks; Fork has two of them. *)
RUnlock(p) ==
    rw' = IF loc[p].op = "fork" THEN RUnlocked(RUnlocked(rw, p), p) ELSE RUnlocked(rw, p)

Unlock(p) == rw' = Unlocked(rw)

Reading(p, op) == pc[p] = "read" /\ loc[p].op = op
Writing(p, op) == pc[p] = "in" /\ loc[p].op = op

(* The first place of the value in the reverse index, 0 if there is none. *)
IndexOf(v) == SelectInSeq(vals, LAMBDA x : x = v)

-----------------------------------------------------------------------------
(* Get, Size, Keys, Vals, Pos: they only look. *)
Look(p) ==
    /\ Reading(p, "look")
    /\ RUnlock(p) /\ Return(p)
    /\ UNCHANGED <<keys, vals, mp, rmap>>

(* The index found in vals is used on keys, whatever keys holds there. *)
RGet(p) ==
    /\ Reading(p, "rget")
    /\ RUnlock(p)
    /\ IF IndexOf(loc[p].val) > Len(keys) THEN Panic(p) ELSE Return(p)
    /\ UNCHANGED <<keys, vals, mp, rmap>>

(* foreach hands one entry to its callback: the client's, the one that fills
   Fork's new map, or the one that marshals. *)
Walk(p) ==
    /\ Reading(p, "forEach") \/ Reading(p, "fork") \/ Writing(p, "marshal")
    /\ LET i == Len(loc[p].seen) + 1
       IN  /\ i <= Len(keys)
           /\ loc' = [loc EXCEPT ![p].seen = Append(@, <<keys[i], mp[keys[i]]>>)]
    /\ UNCHANGED <<keys, vals, mp, rmap, rw, pc>>

(* foreach ends: after the last entry, or when its callback says so (the
   client's choice, or a value that does not marshal). *)
WalkEnd(p) ==
    /\ Reading(p, "forEach") \/ Reading(p, "fork") \/ Writing(p, "marshal")
    /\ loc[p].op = "fork" => Len(loc[p].seen) = Len(keys)
    /\ IF loc[p].op = "marshal" THEN Unlock(p) ELSE RUnlock(p)
    /\ Return(p)
    /\ UNCHANGED <<keys, vals, mp, rmap>>

(* Mutant: an overwritten key moves to the end. *)
PutLast(k, v) ==
    /\ keys' = Append(RemoveFirst(keys, k), k)
    /\ mp' = [mp EXCEPT ![k] = v]
    /\ UNCHANGED vals

(* set without a reverse index. *)
Put(k, v) ==
    /\ keys' = IF mp[k] = Nil THEN Append(keys, k) ELSE keys
    /\ mp' = [mp EXCEPT ![k] = v]
    /\ UNCHANGED vals

(* set with a reverse index calls Pos, which asks for the read lock: the caller
   holds the write lock, so it waits for itself and no step follows. *)
WaitForSelf(p) == Goto(p, "pos") /\ UNCHANGED <<keys, vals, mp, rw, loc>>

Set(p) ==
    /\ Writing(p, "set")
    /\ \/ rmap /\ WaitForSelf(p)
       \/ ~rmap /\ Put(loc[p].key, loc[p].val) /\ Unlock(p) /\ Return(p)
    /\ UNCHANGED rmap

(* Mutant: no unlock when the value is there. *)
RSetKeepsLock(p) ==
    /\ Writing(p, "rset")
    /\ \/ IndexOf(loc[p].val) # 0 /\ Return(p) /\ UNCHANGED <<keys, vals, mp, rw>>
       \/ IndexOf(loc[p].val) = 0 /\ WaitForSelf(p)
    /\ UNCHANGED rmap

(* A value that is there already is refused. *)
RSet(p) ==
    /\ Writing(p, "rset")
    /\ \/ IndexOf(loc[p].val) # 0 /\ Unlock(p) /\ Return(p) /\ UNCHANGED <<keys, vals, mp>>
       \/ IndexOf(loc[p].val) = 0 /\ WaitForSelf(p)
    /\ UNCHANGED rmap

RDel(p) ==
    /\ Writing(p, "rdel")
    /\ Unlock(p)
    /\ LET i == IndexOf(loc[p].val)
       IN  \/ i = 0 /\ Return(p) /\ UNCHANGED <<keys, vals, mp>>
           \/ i > Len(keys) /\ Panic(p) /\ UNCHANGED <<keys, vals, mp>>
           \/ /\ i \in 1..Len(keys)
              /\ Return(p)
              /\ keys' = RemoveAt(keys, i)
              /\ vals' = RemoveAt(vals, i)
              /\ mp' = [mp EXCEPT ![keys[i]] = Nil]
    /\ UNCHANGED rmap

(* Mutant: the entry stays in the Go map. *)
DelKeepsEntry(p) ==
    /\ Writing(p, "del")
    /\ keys' = RemoveFirst(keys, loc[p].key)
    /\ Unlock(p) /\ Return(p)
    /\ UNCHANGED <<vals, mp, rmap>>

(* The reverse index is not told. *)
Del(p) ==
    /\ Writing(p, "del")
    /\ keys' = RemoveFirst(keys, loc[p].key)
    /\ mp' = IF Contains(keys, loc[p].key) THEN [mp EXCEPT ![loc[p].key] = Nil] ELSE mp
    /\ Unlock(p) /\ Return(p)
    /\ UNCHANGED <<vals, rmap>>

Emptied == keys' = <<>> /\ vals' = <<>> /\ mp' = [k \in Key |-> Nil]

Clear(p) ==
    /\ Writing(p, "clear")
    /\ Emptied /\ Unlock(p) /\ Return(p)
    /\ UNCHANGED rmap

(* sort.Slice is not stable: any order of the keys that their ranks allow. *)
Sorted(rank) ==
    \E f \in Bijection(DOMAIN keys, DOMAIN keys) :
        /\ keys' = [i \in DOMAIN keys |-> keys[f[i]]]
        /\ \A i, j \in DOMAIN keys : i < j => rank[keys[f[i]]] <= rank[keys[f[j]]]

SortByKey(p) ==
    /\ Writing(p, "sortByKey")
    /\ \E rank \in [Key -> 0..1] : Sorted(rank)
    /\ Unlock(p) /\ Return(p)
    /\ UNCHANGED <<vals, mp, rmap>>

SortByValue(p) ==
    /\ Writing(p, "sortByValue")
    /\ \E rank \in [Val \cup {Nil} -> 0..1] : Sorted([k \in Key |-> rank[mp[k]]])
    /\ Unlock(p) /\ Return(p)
    /\ UNCHANGED <<vals, mp, rmap>>

(* UnmarshalJSON empties the map before it looks at the document. *)
Unmarshal(p) ==
    /\ Writing(p, "unmarshal")
    /\ Emptied
    /\ loc' = [loc EXCEPT ![p].left = MaxItems]
    /\ Goto(p, "item")
    /\ UNCHANGED <<rmap, rw>>

(* One item of the document. *)
Item(p) ==
    /\ pc[p] = "item" /\ loc[p].left > 0
    /\ \/ rmap /\ WaitForSelf(p)
       \/ /\ ~rmap
          /\ \E k \in Key, v \in Val : Put(k, v)
          /\ loc' = [loc EXCEPT ![p].left = @ - 1]
          /\ UNCHANGED <<rw, pc>>
    /\ UNCHANGED rmap

(* The document ends, or does not parse here: what was read stays. *)
ItemsEnd(p) ==
    /\ pc[p] = "item"
    /\ Unlock(p) /\ Return(p)
    /\ UNCHANGED <<keys, vals, mp, rmap>>

-----------------------------------------------------------------------------
Running(p) ==
    \/ Acquire(p) \/ Look(p) \/ RGet(p) \/ Walk(p) \/ WalkEnd(p) \/ Set(p) \/ RSet(p)
    \/ RDel(p) \/ Del(p) \/ Clear(p) \/ SortByKey(p) \/ SortByValue(p)
    \/ Unmarshal(p) \/ Item(p) \/ ItemsEnd(p)

Next == \E p \in Proc : CallReader(p) \/ CallWriter(p) \/ RLock(p) \/ Lock(p) \/ Running(p)

Spec == Init /\ [][Next]_vars

(* Goroutines are scheduled, callbacks return, and sync.RWMutex serves every
   goroutine that keeps finding it free. *)
Fairness == \A p \in Proc : WF_vars(Running(p)) /\ SF_vars(RLock(p)) /\ SF_vars(Lock(p))

FairSpec == Spec /\ Fairness

-----------------------------------------------------------------------------
Pairs == [i \in DOMAIN keys |-> <<keys[i], mp[keys[i]]>>]

(* The slice of keys and the Go map hold the same keys, each once, at every
   step and also half way through a document that fails to parse. *)
KeysMatch == IsInjective(keys) /\ Range(keys) = {k \in Key : mp[k] # Nil}

(* Whoever walks the map, Fork and MarshalJSON included, sees the entries of
   one moment in their order, whatever the other goroutines are about to do. *)
WalkInOrder == \A p \in Proc : IsPrefix(loc[p].seen, Pairs)

Aligned == Len(vals) = Len(keys) /\ \A i \in DOMAIN vals : vals[i] = mp[keys[i]]

(* "In RMap mode, keep vals and keys one to one" (line 260): once the reverse
   index is in step with the keys, it stays so.  Del (134) and the two sorts
   (201-230), which look at keys alone, break this. *)
StaysOneToOne == [][rmap /\ Aligned => Aligned']_vars

(* p waits for a lock that cannot be free before p goes on. *)
WaitsForSelf(p) == pc[p] = "pos" \/ (pc[p] = "rlock2" /\ RBlocked(rw))

(* Every call returns unless some goroutine asks for the lock it holds: set in
   RMap mode (line 261), or Fork once a writer has come between its two read
   locks (lines 233-236).  Nothing else deadlocks and nobody starves. *)
OnlySelfLocks ==
    \A p \in Proc :
        pc[p] # "idle" ~> pc[p] \in {"idle", "panicked"} \/ \E q \in Proc : WaitsForSelf(q)

Dict == INSTANCE OrderedDict WITH pairs <- Pairs

(* The map is an ordered dictionary. *)
DictSpec == Dict!Spec
=============================================================================
