----------------------------- MODULE BaseCache -----------------------------
(***************************************************************************)
(* The LRU cache of src/y/cache_base.go: a map from keys to elements of a  *)
(* container/list, guarded by one mutex, with an item limit, a memory      *)
(* limit and expiry.  A goroutine's call is cut where the code lets another*)
(* goroutine in: where it releases mu, where it reads shared state without *)
(* mu, and once per iteration of a loop.  A list element stands for the    *)
(* value it carries: storing a value is choosing the element that will hold*)
(* it.                                                                     *)
(***************************************************************************)
EXTENDS GoList, Functions

CONSTANTS
    Proc,         \* the goroutines that share the cache
    Key,          \* the keys
    Size,         \* the sizes calculateSize may give an entry (key and value)
    Limit,        \* the memory limits in use; 0 is "no limit"
    InitLimit,    \* the limits the cache may be created with
    MaxSize,      \* the item limit; 0 is "no limit"
    DefaultTTL,   \* whether entries expire when the caller gives no TTL
    CleanupPart,  \* maybeCleanup aims at one entry in CleanupPart (5 in the code)
    Word,         \* currentMemory is an unsigned word: arithmetic modulo Word
    MemBound,     \* a bound of the model: no new value enters above this usage
    Ops,          \* the operations the clients use
    NoOwner       \* mu is free

AllOps == {"set", "setMap", "get", "getOrSet", "del", "clear", "limit", "destroy"}

ASSUME BaseCacheAssumption ==
    /\ NoOwner \notin Proc
    /\ Word \in Nat \ {0} /\ CleanupPart \in Nat \ {0}
    /\ MaxSize \in Nat /\ MemBound \in Nat /\ DefaultTTL \in BOOLEAN
    /\ Size \subseteq 0..(Word - 1)
    /\ Limit \subseteq 0..(Word - 1) /\ InitLimit \subseteq Limit
    /\ Ops \subseteq AllOps

VARIABLES
    mu,      \* the goroutine that holds the write lock, or NoOwner
    cache,   \* the map; Nil for a key it does not hold
    ll,      \* the list, most recently used first
    ent,     \* the lruEntry of every element
    max,     \* maxMemory
    mem,     \* currentMemory
    pc,      \* where each goroutine is
    loc      \* each goroutine's local variables

vars == <<mu, cache, ll, ent, max, mem, pc, loc>>

Life == {"forever", "live", "expired"}  \* no expireTime, in the future, in the past

Entry == [key : Key, size : Size, life : Life]

Place == {"idle", "next", "check", "cleanup", "walk", "relock", "evict", "push",
          "trim", "item", "drop", "touch", "locked", "fn", "del", "shrink",
          "destroy", "panicked"}

Frame ==
    [key  : Key \cup {Nil},            \* get's key
     elem : Node \cup {Nil},           \* get's entry, maybeCleanup's e
     arg  : Elem \cup {Nil},           \* the value setWithTTL or GetOrSetFunc stores
     todo : SUBSET Elem,               \* the values SetMap has still to store
     keys : SUBSET Key,                \* the keys Del has still to delete
     quota : Nat, removed : Nat]       \* maybeCleanup's targetCount and removed

NoFrame == [key |-> Nil, elem |-> Nil, arg |-> Nil, todo |-> {}, keys |-> {},
            quota |-> 0, removed |-> 0]

(* Type correctness: usage stays an unsigned word (line 33), the map and the
   goroutines hold elements of the pool, and a goroutine's locals fit the place
   of the code it is at. *)
TypeOK ==
    /\ mu \in Proc \cup {NoOwner}
    /\ cache \in [Key -> Elem \cup {Nil}]
    /\ ll \in ListType
    /\ ent \in [Elem -> Entry]
    /\ max \in Limit
    /\ mem \in 0..(Word - 1)
    /\ pc \in [Proc -> Place]
    /\ loc \in [Proc -> Frame]

Init ==
    /\ mu = NoOwner
    /\ cache = [k \in Key |-> Nil]
    /\ ll = EmptyList
    /\ ent \in {[e \in Elem |-> x] : x \in Entry}   \* a call sets it before it is read
    /\ max \in InitLimit
    /\ mem = 0
    /\ pc = [p \in Proc |-> "idle"]
    /\ loc = [p \in Proc |-> NoFrame]

-----------------------------------------------------------------------------
Plus(a, b) == (a + b) % Word
Minus(a, b) == (a + Word - b) % Word        \* adding ^(b - 1)

(* An allocation returns an element that nothing points at any more. *)
Free ==
    {e \in Elem :
        /\ \A n \in Node : ll.next[n] # e /\ ll.prev[n] # e
        /\ \A k \in Key : cache[k] # e
        /\ \A p \in Proc : e \notin loc[p].todo \cup {loc[p].arg, loc[p].elem}}

Expired(e) == ent[e].life = "expired"

(* Would an entry of this size go over the memory limit? *)
Over(m, size) == max > 0 /\ Plus(m, size) > max

Goto(p, place) == pc' = [pc EXCEPT ![p] = place]

(* A call returns: its frame is gone. *)
Return(p) == Goto(p, "idle") /\ loc' = [loc EXCEPT ![p] = NoFrame]

(* A nil Value is dereferenced: the goroutine dies and its defer unlocks mu
   (what the rest of the program does after that is not followed further). *)
Panic(p) ==
    /\ Goto(p, "panicked") /\ loc' = [loc EXCEPT ![p] = NoFrame]
    /\ mu' = NoOwner
    /\ UNCHANGED <<cache, ll, mem>>

(* Mutant: the map keeps its key. *)
DropFromList(e) ==
    /\ ll' = Remove(ll, e)
    /\ mem' = Minus(mem, ent[e].size)
    /\ UNCHANGED cache

(* Take e out of the list and its key out of the map, and give its memory back. *)
Drop(e) ==
    /\ cache' = [cache EXCEPT ![ent[e].key] = Nil]
    /\ ll' = Remove(ll, e)
    /\ mem' = Minus(mem, ent[e].size)

CanCall(p, name) == name \in Ops /\ pc[p] = "idle" /\ mu = NoOwner

LifeOf(ttl) == IF ttl THEN "live" ELSE "forever"

-----------------------------------------------------------------------------
(* Set, SetWithTTL: one value, with the default or a given TTL. *)
Set(p) ==
    /\ CanCall(p, "set") /\ mem <= MemBound
    /\ \E k \in Key, s \in Size, ttl \in BOOLEAN, e \in Free :
         /\ ent' = [ent EXCEPT ![e] = [key |-> k, size |-> s, life |-> LifeOf(ttl)]]
         /\ loc' = [loc EXCEPT ![p].todo = {e}]
    /\ mu' = p /\ Goto(p, "next")
    /\ UNCHANGED <<cache, ll, max, mem>>

(* SetMap: two values or more, with the default TTL, stored in the order of a
   map range: any order. *)
SetMap(p) ==
    /\ CanCall(p, "setMap") /\ mem <= MemBound
    /\ \E es \in SUBSET Free : \E key \in [es -> Key] : \E size \in [es -> Size] :
         /\ \E d, e \in es : d # e
         /\ \A d, e \in es : key[d] = key[e] => d = e
         /\ ent' = [e \in Elem |->
                      IF e \in es THEN [key |-> key[e], size |-> size[e],
                                        life |-> LifeOf(DefaultTTL)]
                                  ELSE ent[e]]
         /\ loc' = [loc EXCEPT ![p].todo = es]
    /\ mu' = p /\ Goto(p, "next")
    /\ UNCHANGED <<cache, ll, max, mem>>

(* Mutant: the key's previous entry is not looked for. *)
StoreBlind(p) ==
    /\ pc[p] = "next"
    /\ \E e \in loc[p].todo :
         /\ loc' = [loc EXCEPT ![p] = [@ EXCEPT !.todo = loc[p].todo \ {e}, !.arg = e]]
         /\ IF Over(mem, ent[e].size) THEN mu' = NoOwner /\ Goto(p, "check")
            ELSE UNCHANGED mu /\ Goto(p, "evict")
    /\ UNCHANGED <<cache, ll, ent, max, mem>>

(* setWithTTL up to the place where it may release mu: an entry larger than
   the limit is ignored, the key's previous entry is dropped. *)
Store(p) ==
    /\ pc[p] = "next"
    /\ \E e \in loc[p].todo :
         LET old == cache[ent[e].key]
             kept == IF old = Nil THEN mem ELSE Minus(mem, ent[old].size)
         IN  IF max > 0 /\ ent[e].size > max
             THEN /\ loc' = [loc EXCEPT ![p].todo = @ \ {e}]
                  /\ UNCHANGED <<mu, cache, ll, mem, pc>>
             ELSE /\ loc' = [loc EXCEPT ![p] = [@ EXCEPT !.todo = loc[p].todo \ {e}, !.arg = e]]
                  /\ IF old = Nil THEN UNCHANGED <<cache, ll, mem>> ELSE Drop(old)
                  /\ IF Over(kept, ent[e].size)
                     THEN mu' = NoOwner /\ Goto(p, "check")
                     ELSE UNCHANGED mu /\ Goto(p, "evict")
    /\ UNCHANGED <<ent, max>>

(* maybeCleanup's test, made without mu. *)
CleanupCheck(p) ==
    /\ pc[p] = "check"
    /\ Goto(p, IF max = 0 \/ mem <= max THEN "relock" ELSE "cleanup")
    /\ UNCHANGED <<mu, cache, ll, ent, max, mem, loc>>

CleanupLock(p) ==
    /\ pc[p] = "cleanup" /\ mu = NoOwner
    /\ mu' = p /\ Goto(p, "walk")
    /\ LET part == ll.len \div CleanupPart
       IN  loc' = [loc EXCEPT ![p] =
                     [@ EXCEPT !.elem = Back(ll), !.quota = IF part < 1 THEN 1 ELSE part,
                               !.removed = 0]]
    /\ UNCHANGED <<cache, ll, ent, max, mem>>

(* Mutant: it returns without unlocking. *)
CleanupKeepsLock(p) ==
    /\ Goto(p, "relock")
    /\ loc' = [loc EXCEPT ![p] = [@ EXCEPT !.elem = Nil, !.quota = 0, !.removed = 0]]
    /\ UNCHANGED <<mu, cache, ll, mem>>

(* maybeCleanup returns: its deferred Unlock. *)
CleanupDone(p) ==
    /\ mu' = NoOwner /\ Goto(p, "relock")
    /\ loc' = [loc EXCEPT ![p] = [@ EXCEPT !.elem = Nil, !.quota = 0, !.removed = 0]]
    /\ UNCHANGED <<cache, ll, mem>>

(* One iteration of its walk from the back of the list. *)
CleanupWalk(p) ==
    /\ pc[p] = "walk"
    /\ LET e == loc[p].elem
       IN  IF e = Nil \/ loc[p].removed >= loc[p].quota THEN CleanupDone(p)
           ELSE IF e = Root THEN Panic(p)
           ELSE IF Expired(e) \/ mem > max
           THEN /\ Drop(e)
                /\ loc' = [loc EXCEPT ![p] = [@ EXCEPT !.elem = PrevOf(ll, e),
                                                     !.removed = loc[p].removed + 1]]
                /\ UNCHANGED <<mu, pc>>
           ELSE IF loc[p].removed = 0 THEN CleanupDone(p)
           ELSE /\ loc' = [loc EXCEPT ![p].elem = PrevOf(ll, e)]
                /\ UNCHANGED <<mu, cache, ll, mem, pc>>
    /\ UNCHANGED <<ent, max>>

Relock(p) ==
    /\ pc[p] = "relock" /\ mu = NoOwner
    /\ mu' = p /\ Goto(p, "evict")
    /\ UNCHANGED <<cache, ll, ent, max, mem, loc>>

(* Still no room: the oldest entry goes, one only. *)
Evict(p) ==
    /\ pc[p] = "evict"
    /\ LET b == Back(ll)
       IN  IF Over(mem, ent[loc[p].arg].size) /\ ll.len > 0
           THEN IF b = Root THEN Panic(p)
                            ELSE Drop(b) /\ Goto(p, "push") /\ UNCHANGED <<mu, loc>>
           ELSE Goto(p, "push") /\ UNCHANGED <<mu, cache, ll, mem, loc>>
    /\ UNCHANGED <<ent, max>>

Push(p) ==
    /\ pc[p] = "push"
    /\ LET e == loc[p].arg
       IN  /\ ll' = PushFront(ll, e)
           /\ cache' = [cache EXCEPT ![ent[e].key] = e]
           /\ mem' = Plus(mem, ent[e].size)
    /\ loc' = [loc EXCEPT ![p].arg = Nil]
    /\ Goto(p, "trim")
    /\ UNCHANGED <<mu, ent, max>>

(* Mutant: the loop's test is off by one. *)
TrimLate(p) ==
    /\ pc[p] = "trim"
    /\ IF MaxSize > 0 /\ ll.len > MaxSize + 1
       THEN Drop(Back(ll)) /\ UNCHANGED <<mu, pc, loc>>
       ELSE Goto(p, "next") /\ UNCHANGED <<mu, cache, ll, mem, loc>>
    /\ UNCHANGED <<ent, max>>

(* One iteration of the loop that enforces MaxSize. *)
Trim(p) ==
    /\ pc[p] = "trim"
    /\ LET b == Back(ll)
       IN  IF MaxSize > 0 /\ ll.len > MaxSize
           THEN IF b = Root THEN Panic(p) ELSE Drop(b) /\ UNCHANGED <<mu, pc, loc>>
           ELSE Goto(p, "next") /\ UNCHANGED <<mu, cache, ll, mem, loc>>
    /\ UNCHANGED <<ent, max>>

(* The deferred Unlock of Set, SetMap, GetOrSetFunc, Del: all is stored or
   deleted, or fn panicked. *)
Unlock(p) ==
    /\ \/ pc[p] \in {"next", "del"} /\ loc[p].todo = {} /\ loc[p].keys = {}
       \/ pc[p] = "fn"
    /\ mu' = NoOwner /\ Return(p)
    /\ UNCHANGED <<cache, ll, ent, max, mem>>

-----------------------------------------------------------------------------
(* The read-locked lookup of get. *)
Lookup(p, k, arg) ==
    IF cache[k] # Nil
    THEN /\ loc' = [loc EXCEPT ![p] = [@ EXCEPT !.key = k, !.elem = cache[k], !.arg = arg]]
         /\ Goto(p, "item")
    ELSE IF arg # Nil
    THEN /\ loc' = [loc EXCEPT ![p] = [@ EXCEPT !.key = k, !.arg = arg]]
         /\ Goto(p, "locked")
    ELSE UNCHANGED <<pc, loc>>

(* get has found nothing: Get returns, GetOrSetFunc goes on under the lock. *)
Miss(p) ==
    IF loc[p].arg = Nil THEN Return(p)
    ELSE Goto(p, "locked") /\ loc' = [loc EXCEPT ![p].elem = Nil]

(* Get, and Gets key by key. *)
Get(p) ==
    /\ CanCall(p, "get")
    /\ \E k \in Key : Lookup(p, k, Nil)
    /\ UNCHANGED <<mu, cache, ll, ent, max, mem>>

GetOrSetFunc(p) ==
    /\ CanCall(p, "getOrSet") /\ mem <= MemBound
    /\ \E k \in Key, s \in Size, e \in Free :
         /\ ent' = [ent EXCEPT ![e] = [key |-> k, size |-> s, life |-> LifeOf(DefaultTTL)]]
         /\ Lookup(p, k, e)
    /\ UNCHANGED <<mu, cache, ll, max, mem>>

(* get's look at the clock, after it released mu. *)
GetItem(p) ==
    /\ pc[p] = "item"
    /\ Goto(p, IF Expired(loc[p].elem) THEN "drop" ELSE "touch")
    /\ UNCHANGED <<mu, cache, ll, ent, max, mem, loc>>

(* Mutant: the map is not looked at again under the lock. *)
GetDropBlind(p) ==
    /\ pc[p] = "drop" /\ mu = NoOwner
    /\ Drop(loc[p].elem) /\ Miss(p)
    /\ UNCHANGED <<mu, ent, max>>

(* The expired entry goes, unless the map has moved on. *)
GetDrop(p) ==
    /\ pc[p] = "drop" /\ mu = NoOwner
    /\ IF cache[loc[p].key] = loc[p].elem
       THEN Drop(loc[p].elem) ELSE UNCHANGED <<cache, ll, mem>>
    /\ Miss(p)
    /\ UNCHANGED <<mu, ent, max>>

(* Mutant: the entry is pushed, not moved. *)
GetPush(p) ==
    /\ pc[p] = "touch" /\ mu = NoOwner
    /\ ll' = PushFront(ll, loc[p].elem)
    /\ Return(p)
    /\ UNCHANGED <<mu, cache, ent, max, mem>>

(* The hit: whatever became of the entry meanwhile, it is moved to the front. *)
GetTouch(p) ==
    /\ pc[p] = "touch" /\ mu = NoOwner
    /\ ll' = MoveToFront(ll, loc[p].elem)
    /\ Return(p)
    /\ UNCHANGED <<mu, cache, ent, max, mem>>

(* Mutant: no second look. *)
GetLockedBlind(p) ==
    /\ pc[p] = "locked" /\ mu = NoOwner
    /\ mu' = p /\ Goto(p, "fn")
    /\ UNCHANGED <<cache, ll, ent, max, mem, loc>>

(* GetOrSetFunc takes mu and looks again (getLocked). *)
GetLocked(p) ==
    /\ pc[p] = "locked" /\ mu = NoOwner
    /\ LET e == cache[loc[p].key]
       IN  \/ /\ e = Nil
              /\ mu' = p /\ Goto(p, "fn") /\ UNCHANGED <<cache, ll, mem, loc>>
           \/ /\ e # Nil /\ Expired(e)
              /\ Drop(e)
              /\ mu' = p /\ Goto(p, "fn") /\ UNCHANGED loc
           \/ /\ e # Nil /\ ~Expired(e)
              /\ ll' = MoveToFront(ll, e)
              /\ Return(p) /\ UNCHANGED <<mu, cache, mem>>
    /\ UNCHANGED <<ent, max>>

(* fn, called under mu, returns the value to store. *)
FnReturn(p) ==
    /\ pc[p] = "fn"
    /\ loc' = [loc EXCEPT ![p] = [NoFrame EXCEPT !.todo = {loc[p].arg}]]
    /\ Goto(p, "next")
    /\ UNCHANGED <<mu, cache, ll, ent, max, mem>>

-----------------------------------------------------------------------------
Del(p) ==
    /\ CanCall(p, "del")
    /\ \E ks \in SUBSET Key \ {{}} : loc' = [loc EXCEPT ![p].keys = ks]
    /\ mu' = p /\ Goto(p, "del")
    /\ UNCHANGED <<cache, ll, ent, max, mem>>

(* One key of Del: out of the list and the map; currentMemory stays. *)
DelKey(p) ==
    /\ pc[p] = "del"
    /\ \E k \in loc[p].keys :
         /\ loc' = [loc EXCEPT ![p].keys = @ \ {k}]
         /\ IF cache[k] = Nil THEN UNCHANGED <<cache, ll>>
            ELSE cache' = [cache EXCEPT ![k] = Nil] /\ ll' = Remove(ll, cache[k])
    /\ UNCHANGED <<mu, ent, max, mem, pc>>

Clear(p) ==
    /\ CanCall(p, "clear")
    /\ cache' = [k \in Key |-> Nil]
    /\ ll' = Reset(ll)
    /\ UNCHANGED <<mu, ent, max, mem, pc, loc>>

(* SetMemoryLimit, for a limit that parses. *)
SetMemoryLimit(p) ==
    /\ CanCall(p, "limit")
    /\ \E m \in Limit : max' = m
    /\ mu' = p /\ Goto(p, "shrink")
    /\ UNCHANGED <<cache, ll, ent, mem, loc>>

(* One iteration of its loop. *)
Shrink(p) ==
    /\ pc[p] = "shrink"
    /\ LET b == Back(ll)
       IN  IF max > 0 /\ mem > max /\ ll.len > 0
           THEN IF b = Root THEN Panic(p) ELSE Drop(b) /\ UNCHANGED <<mu, pc, loc>>
           ELSE mu' = NoOwner /\ Return(p) /\ UNCHANGED <<cache, ll, mem>>
    /\ UNCHANGED <<ent, max>>

(* Destroy locks mu and calls Clear, which waits for mu: no step follows. *)
Destroy(p) ==
    /\ CanCall(p, "destroy")
    /\ mu' = p /\ Goto(p, "destroy")
    /\ UNCHANGED <<cache, ll, ent, max, mem, loc>>

(* Time passes an entry's expireTime. *)
Expire(e) ==
    /\ ent[e].life = "live"
    /\ e \in ll.on \/ \E p \in Proc : loc[p].elem = e
    /\ ent' = [ent EXCEPT ![e].life = "expired"]
    /\ UNCHANGED <<mu, cache, ll, max, mem, pc, loc>>

-----------------------------------------------------------------------------
Call(p) ==
    \/ Set(p) \/ SetMap(p) \/ Get(p) \/ GetOrSetFunc(p)
    \/ Del(p) \/ Clear(p) \/ SetMemoryLimit(p) \/ Destroy(p)

(* The steps that must get hold of mu to go on. *)
Locking(p) ==
    CleanupLock(p) \/ Relock(p) \/ GetDrop(p) \/ GetTouch(p) \/ GetLocked(p)

Running(p) ==
    \/ Store(p) \/ CleanupCheck(p) \/ CleanupWalk(p) \/ Evict(p) \/ Push(p)
    \/ Trim(p) \/ Unlock(p) \/ GetItem(p) \/ FnReturn(p) \/ DelKey(p) \/ Shrink(p)

Next ==
    \/ \E p \in Proc : Call(p) \/ Locking(p) \/ Running(p)
    \/ \E e \in Elem : Expire(e)

Spec == Init /\ [][Next]_vars

(* A goroutine that can run is scheduled, fn returns, and sync.RWMutex hands
   the lock to a waiter that keeps finding it free. *)
Fairness == \A p \in Proc : WF_vars(Running(p)) /\ SF_vars(Locking(p))

FairSpec == Spec /\ Fairness

-----------------------------------------------------------------------------
(* The ring as a sequence: the first len elements behind the sentinel. *)
RingSeq ==
    LET at[i \in 0..ll.len] == IF i = 0 THEN Root ELSE ll.next[at[i - 1]]
    IN  [i \in 1..ll.len |-> at[i]]

Ring == {RingSeq[i] : i \in 1..ll.len}

(* What the entries weigh, and those on the list together. *)
Weight == [e \in Elem |-> ent[e].size]

Stored == SumFunctionOnSet(Weight, ll.on)

(* Every element that claims to be on the list, and the sentinel, is properly
   tied to its two neighbours, although get moves elements that it looked up
   before it took the lock (lines 228-256).  Clear breaks this claim. *)
RingLinked ==
    \A n \in ll.on \cup {Root} :
        /\ ll.next[n] \in ll.on \cup {Root} /\ ll.prev[ll.next[n]] = n
        /\ ll.prev[n] \in ll.on \cup {Root} /\ ll.next[ll.prev[n]] = n

(* A key of the map leads to an element that is on the list and carries that
   key, also after setWithTTL gave the lock away and another goroutine stored
   or evicted the same key. *)
MapInRing ==
    \A k \in Key : cache[k] # Nil => cache[k] \in ll.on /\ ent[cache[k]].key = k

(* And every element of the list is the one its key leads to, as long as no
   memory limit makes setWithTTL release the lock half way: the second lookup
   of GetOrSetFunc (line 406) and the first test of setWithTTL (line 148) keep
   two stores of one key apart. *)
OneEntryPerKey ==
    "limit" \notin Ops /\ max = 0 => \A e \in ll.on : cache[ent[e].key] = e

(* Outside the loop that trims it the list is within maxSize, whatever the
   goroutines that share it do. *)
SizeBound ==
    MaxSize > 0 /\ (\A p \in Proc : pc[p] # "trim") => ll.len <= MaxSize

(* fn is called under the lock for a key the cache does not hold: goroutines
   that miss the same key together compute it once. *)
ComputedOnce == \A p \in Proc : pc[p] = "fn" => cache[loc[p].key] = Nil

(* currentMemory never falls below what is stored (it would wrap around), and
   equals it as long as no entry leaves by Del. *)
MemCovers == IF "del" \in Ops THEN mem >= Stored ELSE mem = Stored

(* The eviction loops never meet the sentinel, whose nil Value they would
   dereference. *)
NoPanic == \A p \in Proc : pc[p] # "panicked"

(* A call that is under way returns: no lock is kept, no loop goes on for ever,
   and none of a call's several acquisitions of mu is starved. *)
Finishes == \A p \in Proc : pc[p] # "idle" ~> pc[p] = "idle"

(* maxMemory is the "maximum memory limit (bytes)" (lines 32 and 40). *)
WithinLimit == mu = NoOwner => max = 0 \/ mem <= max

(* The keys that the calls in progress overwrite or delete. *)
Wanted ==
    UNION {{ent[e].key : e \in loc[p].todo \cup ({loc[p].arg} \ {Nil})} \cup loc[p].keys :
             p \in Proc}

(* A limit is exceeded, or would be with the entry under way. *)
Pressed ==
    \/ max > 0 /\ mem > max
    \/ MaxSize > 0 /\ ll.len > MaxSize
    \/ \E p \in Proc : pc[p] = "evict" /\ Over(mem, ent[loc[p].arg].size)

(* The abstract cache, with the calls in progress seen as what they want. *)
Lru == INSTANCE LruCache WITH
    CanClear <- "clear" \in Ops,
    order <- RingSeq,
    key <- [e \in Ring |-> ent[e].key],
    stale <- {e \in Ring : Expired(e)},
    wanted <- Wanted,
    pressure <- Pressed

(* One goroutine's cache is an LRU cache: one entry per key, touched entries
   first, and an entry leaves only when its key is overwritten or deleted, when
   it has expired, or as the oldest while a limit is exceeded. *)
LruSpec == Lru!Spec
=============================================================================
