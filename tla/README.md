# yoya2: a TLA+ development

yoya2 is a Go (1.20) utility package, `src/y`, of containers shared by
goroutines, list functions, date arithmetic, selectors, deep copies and
reflective conversions.  This directory models its stateful parts and the pure
algorithms that are hard to test, checks them with TLC on small instances, and
proves the core of the cache, the ordered map, the holder, `Flex`, `Sort` and
`Filter`, `Clone`, `Pick`, the date functions and the field cache of `Cast` with
TLAPS.
Line numbers refer to the files under `src/y`.

## 1. The system

| Part | State it keeps | Operations | Meets | Hard behaviour | What makes it correct |
|---|---|---|---|---|---|
| **BaseCache** `cache_base.go` | a map from keys to elements of a `container/list`, the list in LRU order, `currentMemory`, `maxMemory`, one RWMutex | `Set`, `SetWithTTL`, `SetMap`, `Get`, `Gets`, `GetOrSetFunc`, `Del`, `Clear`, `SetMemoryLimit`, `Destroy`, `Len`, `MemoryUsage` | `When` keeps one per goroutine; `fn` is a callback under the lock | `get` looks up under the read lock and acts under the write lock; `setWithTTL` releases the lock half way (157); an element may be moved after it was removed | the list is one ring; map and list hold the same entries; a key is computed once; limits hold; accounting never wraps; calls return |
| **Map** `stl_map.go`, `option.go` | `keys`, `vals` (reverse index, RMap mode), `mp`, an RWMutex | `Set`, `Get`, `Del`, `RGet`, `RSet`, `RDel`, `Clear`, `ForEach`, `Fork`, sorts, JSON | callbacks under the lock | the methods call one another and the lock is not re-entrant; two indices to keep in step; a document that fails to parse half way | keys and map agree; walks see one moment; order is insertion order; calls return |
| **Flex, FlatFlex** `list_map.go`, **WaitGroup** `errgroup.go` | the slots of one call, the errgroup's places and count | map over an array, in the caller or in goroutines; options | `errgroup`, `Filter`, `Distinct`; `Pick` uses `WaitGroup.Go` | completion in any order, panics, the goroutine limit | answers in order and complete; the limit holds; the call ends as its options say |
| **Sort, Filter, Distinct, Find, Pos, Del, Reduce** `list_*.go` | none | pure | used by Flex | run boundaries, stability, option order | equal to their reference definitions |
| **Holder** `sync_holder.go` | a value per goroutine id, an RWMutex made by the first call | `Get`, `Set`, `Del` | an `InitFunc` is called without the lock; `When` keeps its cache in one | the first callers race to make lock and map; `Get` writes what it made between two critical sections | a goroutine sees its own values only |
| **Tick** `tickx_move.go`, `tick_guess.go`, **When** `tick_when.go` | `When`: a cache of parsed times per goroutine | `Move` by units, durations and named days; `When` over chains of comparisons; parsing | BaseCache, Holder, `time` | month ends, mixed units in one number, weeks; layouts chosen by length; a cache that forgets | the target month is the one asked for; what is written can be read; a chain is the conjunction of its pairs |
| **Pick** `obj_pick.go` | a selector tree, the walk's stacks | select from an object tree | WaitGroup, one goroutine per selector; Cast for texts | look-ahead at the end of a selector; merged answers | the matches, in document order |
| **Clone** `obj_clone.go`, `obj_kv.go` | the addresses visited so far | deep copy | reflection, `unsafe` | sharing and cycles through pointers, maps, slices; unexported fields | a copy of the same shape, nothing shared |
| **Cast** `obj_cast.go` | the cache of struct fields, an RWMutex | conversions | reflection, `Guess` | concurrent fills of the cache; ranges over maps; widths | field maps are complete; an error changes nothing; order does not matter |
| **Pool**, **Try** `sync_pool.go`, `err_try.go` | a `sync.Pool` | `Get` and its release; run with recover | - | a release called twice | one owner per object |
| **Data, Tuple** `sup_*.go` | one Go map; struct fields | one assignment per call | - | - | - |
| `list.go` | commented out | | | | |

## 2. Plan

The plan was to model the most shared state first; all of it is done but the
parts of section 8.

1. `BaseCache` over `GoList`, with the abstract `LruCache` it implements; type
   correctness and safety proved.
2. `OrderedMap` over `RWMutex`, with the abstract `OrderedDict` it implements;
   both proved.
3. `Flex` over `ErrGroup`, and `ListOps` against reference definitions; both proved.
4. `Holder` over the same `RWMutex`, with the abstract `Locals` it implements;
   proved.
5. `Tick` over `Calendar`: `Move` one action per movement, `When` one action per
   comparison with the cache it keeps; proved.
6. `Clone` over object graphs with sharing and cycles, proved.
7. `Pick` over `Selector`, one picker per selector; proved.
8. `Converter` over `Cast` over `Values`, and over `FieldCache`, which is proved;
   both over `StructTypes`.

What would come next: theorems about the rest of `Converter`, and `Pick` on objects
that are graphs.

## 3. The modules

| Module | What it is |
|---|---|
| `GoList` | external: Go's `container/list` as this code uses it, with its pointers, because `Clear` and a late `MoveToFront` work on elements that no longer belong to the ring |
| `BaseCache` | the cache: one action per critical section, per iteration of a loop, and per read of shared state outside the lock |
| `LruCache` | what a client relies on: an order of entries, one per key; `BaseCache` implements it for one goroutine, and for any number of them if there is no memory limit (`LruSpec`) |
| `RWMutex` | external: `sync.RWMutex`, where an announced writer keeps new readers out |
| `OrderedMap` | the ordered map |
| `OrderedDict` | a sequence of key-value pairs; `OrderedMap` implements it (`DictSpec`) |
| `Holder` | the holder of a value per goroutine, from the call that makes its lock on |
| `Locals` | a variable per goroutine; `Holder` implements it (`LocalSpec`) |
| `ErrGroup` | external: `errgroup.Group` with a limit |
| `Flex` | one call of `Flex` or `FlatFlex` |
| `ListOps` | Sort and Filter as functions, and a client that makes their inputs |
| `Calendar` | the civil calendar (external), the layouts of `guess`, and Move's month arithmetic |
| `Tick` | one goroutine that calls `Move` and `When` |
| `Clone` | the copier, one step per call of `deepCloneValue`, per element and per return |
| `Selector` | the selector language and its parser, as loops over characters |
| `Pick` | the pickers of one call, one step per call of `walk` |
| `StructTypes` | Go types, and the field map of a struct as a definition, recursive over the structs it embeds |
| `FieldCache` | the goroutines that look field maps up, build them and store them |
| `Values` | Go values as `reflect` shows them: types, contents, widths |
| `Cast` | the conversions, each a set of outcomes |
| `Converter` | the goroutines that convert, with the field maps they get from `FieldCache` |
| `MCBaseCache`, `MCOrderedMap`, `MCTick`, `MCClone`, `MCPick`, `MCConverter` | for TLC: constants, the inputs that are enumerated, symmetry, a view |
| `MCLists`, `MCTicks`, `MCObjects` | for TLC: several components in one run, side by side; in each behaviour the variable `part` says which of them takes steps, and the others rest |
| `BaseCacheProofs` | theorems of the cache: the list, the types and safety; the refinement of `LruCache` |
| `OrderedMapProofs`, `HolderProofs`, `FlexProofs`, `ListOpsProofs`, `TickProofs` | theorems of the ordered map, the holder, `Flex`, `Sort` and `Filter`, and the calendar with `Move` and `When` |
| `ObjectProofs` | theorems of the modules that walk objects: `Clone`, the field cache and `Pick` |
| `DataLemmas` | induction over numbers and sequences in first-order form, and what sums over finite sets do |

Each definition's lines are in `PROJECT.json` under `map`.  Operators whose
comment begins with "Mutant:" are plausible bugs of the definition that follows
them; no specification uses them, and `PROJECT.json` says which property each
one must break.

### BaseCache

`cache`, `ll`, `max`, `mem` are the fields of the struct (27-36), `ent` the
contents of the list elements, `mu` the holder of the write lock.  `pc` and `loc`
are a goroutine's place in its call and its local variables; a value a
goroutine is about to store is represented by the element that will carry it, so
`arg` and `todo` hold elements.

A call is cut exactly where another goroutine can come in:

- `Set`, `SetMap`, `Del`, `SetMemoryLimit`, `Destroy` take the lock and leave
  the goroutine in its loop; `Store` is `setWithTTL` up to line 157, where it
  releases the lock if there is no room; `CleanupCheck`, `CleanupLock`,
  `CleanupWalk` (one step per iteration), `CleanupDone` are `maybeCleanup`;
  `Relock`, `Evict`, `Push`, `Trim` (one step per iteration) are the rest of
  `setWithTTL`; `Unlock` is the deferred unlock.
- `Get` is the read-locked lookup; `GetItem` its look at the clock without a
  lock; `GetDrop` and `GetTouch` what it does under the write lock afterwards.
- `GetOrSetFunc` begins like `Get`, goes on with the locked second look
  (`GetLocked`) and calls `fn` at place "fn", from which it returns a value
  (`FnReturn`) or panics (`Unlock`).
- `Destroy` calls `Clear` with the lock held and stops for ever.
- `Expire` is time passing an entry's expiry, at any moment.

Abstractions.  `parseMemory` and `calculateSize` are the sets `Limit` and
`Size`.  The read lock is not modelled as a state: what is done under it is one
step.  `maybeCleanup` reads the clock once and the model when it looks at an
entry, which allows more.  A panic in an eviction loop ends the goroutine and
releases the lock; what follows in `maybeCleanup`, where two deferred unlocks
would meet, is not followed.  `fn` does not use the cache it is called from.

### OrderedMap

`keys`, `vals`, `mp`, `rmap` are the struct's fields (12-20), `rw` its mutex, and
`loc[p].seen` what `foreach` has handed to its callback so far.  A call waits
for the lock (`RLock`; `Lock`, which announces a writer, and `Acquire`, which
has it once the readers are gone), and then runs in one step, except where it
calls out per entry (`Walk`, `WalkEnd`: `ForEach`, `Fork`, `MarshalJSON`), per
item of a document (`Unmarshal`, `Item`, `ItemsEnd`), or where it asks for the
lock it holds: `Fork` takes the read lock twice, and `set` in RMap mode calls
`Pos`, which takes it under the write lock (`WaitForSelf`, from which no step
leads on).  `Get`, `Size`, `Keys`, `Vals` and `Pos` change nothing and are one
action, `Look`.  A map is created from at most one map argument, with the
option RMap before or after it.  A sort is by any order of two ranks, ties in
any order, as `sort.Slice` is not stable.

### Flex

`result` holds the slots, `i` is the loop's index, `at` each goroutine's place,
`group` the errgroup, `alive` the process.  An answer of `fn` is a sequence of
values, a singleton for `Flex`, so that `FlatFlex` shares the steps.  `fn`
returns or panics; the deferred function swallows the panic or raises it again;
`Leave` and `CountOut` are errgroup's two deferred steps, which run for a panic
too, and only then does the process crash.  The lock around the store of a slot
is one step.  The elements are comparable (`Distinct` uses them as map keys).

### ListOps

`timSort` is written over `MinRun`, which is 32 in the code, so that small
arrays need several rounds of merges.  A loop of the code is a function from the
turns taken to what the loop has then; a merge is, place by place, the choice of
the part that gives the next element (`LeftNext`, `Taken`).  `Filter` is its loop
over the options and its selection.  `Grow` and `AddOpt` only enumerate inputs.

### Holder

`mp` is the map, `rw` its mutex, `once` the `sync.Once` that guards their making
(16-21); `op` is the call a goroutine is in, with the value it brings or has
made, and `got` what it was last given.  `InitBegin` and `InitEnd` are the first
caller inside the once; `Begin` waits for it.  `Get` is `RLock`, `Read`,
`RUnlock`; if it found nothing and there is an `InitFunc`, it calls it with no
lock held (`InitFunc`, `InitFuncPanics`) and stores the answer in a second
critical section (`Lock`, `Locked`, `Write`, `Unlock`), which `Set` and `Del`
share.  A goroutine's id is the goroutine.

### Calendar and Tick

A time is a day number, a moment of the day and what its zone is ahead; a text is
a time as some layout writes it, with some decimals of the second.  `Number` and
`Civil` are Go's own rule for dates with months and days out of range, for every year,
before year 1 included.  A text whose year has no four digits is one that `time.Parse`
refuses (`FourDigits`).  `Formats` is the choice guess makes by the length of a text
alone (`TextLen`), and `Format` what a layout writes: RFC3339Nano drops the trailing
zeros of the fraction, so that a text need not be as long as the one that was read.
`Decimals` says how many decimals each fraction of a second takes.
`Base`, 10000 in the code, is how many days fit a month and months a year in a
`YmdUnit`; `Years`, `Months`, `Days` decode it with Go's division.  `MoveCall`, `MoveBy` (one movement: a unit, a duration, a
named day, a flag) and `MoveReturn` are `Move`; `WhenCall`, `Compare` and
`WhenReturn` are `When`, `parsed` the cache of the goroutine's holder, of which
only the contract of the cache is used here: it answers with what was stored or
calls `fn`, and `Forget` is an entry leaving.  The variadic arguments of a call are
chosen as it gets to them.

### Clone

A graph is a sequence of nodes of the kinds `deepCloneValue` switches on.  `stack`
holds the calls under way with the copy each fills, `call` the value about to be
cloned, `visited` the pointers made so far by address.  A pointer to a struct and
one to its first field have the same address (`Address`) and different types,
which is why `Settable` may fail.  A `Val` carries what `reflect.Value` knows: if
it has an address, and if it was reached through an unexported field.
`StackLimit` is where Go's stack overflows.

### Selector and Pick

A text is a sequence of characters, `parse` and `parseExpr` are loops over it
(`ParseStep`, `ExprStep`), and `next` panics where the code looks one character too
far.  `Write` is how a caller writes a selector: the properties of a node in any
order, their values quoted or not.  An object is a tree whose nodes are numbered in the order of the walk.  Each
picker parses its selector and walks the object, one action per call of `walk`
(`WalkRoot`, `WalkKid`) and per return; a frame of its stack has the kids that are
still to be walked and the position in the selector they will be held against.
What the type T of `Pick` does to the kinds of values is `want`, those it is or
`Cast` makes one of, and `breaks`, those at which `Cast` panics, and with it the picker
that pushes one as a result (`Breaks`): nil pointers where T is a text, a number or a
map, everything where T is an array.  `Store` is a picker of several putting its result away, `PickReturn` and `Wait` are
`Pick` with one and with several, with the deferred function that makes results
distinct (`Finish`).  `kvMap` holds one value per name, so that of a map's keys
without a text of their own any one stays (`OnePerKey`): the others are its `Twins`.
What `Pick` may then miss (`Hidden`) is a value that is, or is below, a twin, and a
value that is, or is below, a map of which the selector looks at a twin: a selector
such as `[="x"]`, whose property has the empty name, does.

### StructTypes, Values, Cast, FieldCache and Converter

A type is a name with a kind, a width, and its element or fields; a value is a type
and a content.  Integers have `Wide` bits where the code has 64 and wrap at their
width.  `Convert` is `convertValue`, with one operator per function it calls; each
gives the set of its outcomes (`ok`, `err` or `panic`, and what the destination
then holds), a set because Go ranges over maps in any order (`RangeOver`).  A value
knows whether it was found in a private field (`ro`): it is read as any other, and
panics where the code hands it on whole, with `Set` or with `Interface`.
`Converter` has goroutines with casts to do: each asks for the field maps it needs
(`Asks`), and converts when it has them (`Converted`).

How it gets them is `FieldCache`, one action per access to the cache under its lock:
`Hit` and `Miss` are the lookup, `AddField` one turn of the loop over the fields,
`StoreMap` the store.  `ask` holds the types a goroutine's cast still asks for, and
`build` the calls of `getFieldMap` under way, the one for an embedded struct on top:
the frame below it `wants` that struct's map, and merges it in when it is there
(`WithEmbedded`).  `Request` is a goroutine that goes on to the next cast, of which
the cache sees the types it asks for only; each step of `Converter` is one of
`GetFieldMap` or a `Request`.  `FieldMap` says what should come of it in other words,
namely which of all the offers for a name counts (`Offered`, `Leading`).

## 4. The runs

| Run | Bounds | What it shows |
|---|---|---|
| `cache_concurrent` | 2 goroutines, 2 keys, 4 elements, sizes 1 and 2, limits none and 3, `MaxSize` 2; `Set`, `Get`, `GetOrSetFunc`, expiry | the ring's links, the map within the ring, one entry per key without a memory limit, one computation per key, the item limit, usage never below what is stored |
| `cache_sequential` | 1 goroutine, 3 keys, all operations | the cache implements `LruCache` |
| `cache_progress` | 2 goroutines, entries of size 2 under a limit of 3 | every call returns |
| `cache_over_limit` | 1 goroutine | *violated*: usage exceeds `maxMemory`, because one entry at most makes room for a larger one (163) |
| `map_concurrent` | 2 goroutines, 2 keys, 2 values, every method, both modes, documents of 2 items | slice and Go map agree at every step, walks see one moment, where a call may stay for ever, and `OrderedDict` is implemented |
| `map_one_to_one` | 1 goroutine, RMap mode | *violated*: keys and values do not stay one to one (260), because `Del` leaves the values (146-149) |
| `lists` | a call of Flex with 3 elements, 2 goroutines at once, all options, 3 values; or arrays of up to 9 elements of 3 ranks, up to 4 options | the answer, the limit, the ends of a call; Sort is a stable sort, Filter follows its options |
| `ticks` | dates at the ends of months, years and leap years, texts with and without fractions of a second, 19 movements and the flag; 2 movements or comparisons a call; `Base` 40, 512 moments a day, 256 a minute, 128 a second. Or a Holder with 3 goroutines, 2 values and an `InitFunc` | months are kept and clamped, a named day ends its period, which texts `Move` can read again, `When` is the conjunction of its pairs whatever the cache forgot; the holder's map is used under the lock and once it is made, and `Locals` is implemented |
| `objects` | `Clone`: every well-formed graph of 3 nodes and 11 of up to 7, `StackLimit` 12. `Pick`: 5 objects of up to 11 nodes, selectors written from up to 3 nodes, every text of 4 characters of the language, up to 2 selectors. `Cast`: 36 types, every pair of one and a source value, each struct to a map and on to its own type, `Wide` 4; 2 goroutines with 3 casts between them for the field cache | copies have the shape of the original and share nothing, one copy per address, and `Clone` ends where every cycle leads through a pointer; the answer is what the selector selects, the parser gives back what was written; field maps are complete, errors change nothing, map order does not matter, a struct survives a map; panics of `Pick` and `Cast` have their reasons |
| `cn_week` | the dates of `ticks` | *violated*: `LastDayOfCNWeek` is not the last day of a week that begins on Monday (110) |
| `clone_any` | the graphs of `objects` | *violated*: not any object with private fields is cloned (10) |
| `clone_cycles` | a slice and a map that hold themselves | *violated*: circular references are not all handled (12) |

A violated run states what a comment of the source says and shows what the code
does instead; `findings` in `PROJECT.json` quotes both.

Why the bounds are enough.  Every hazard of the cache needs two goroutines, of
which one is between two critical sections, and two keys: one to fight for and
one to evict.  Four elements are two entries, one element removed and still
held, and one being stored.  With sizes 1 and 2 and a limit of 3 an entry fits,
fits after one eviction, or needs two.  `Word` is 64 instead of 2^64: usage stays
at most 4 + 2 * 2 in these runs, so that a wrap-around would show as a value near
64.  `MemBound` stops new stores at a usage that deletions have inflated, and
`CleanupPart` is 1 instead of 5 so that a clean-up may take more than one of two
entries.  Two goroutines meet every pair of lock requests of the ordered map; a
third would only queue behind them.  In the holder a third goroutine is what
finds the once running while two others are in their critical sections.  `MaxLen`
above `Limit` makes Flex wait for a place.  Nine elements in runs of two need
merges of blocks of 2, 4 and 8, the last one short.

`Move`'s arithmetic is per movement, so two of them only show that the second
starts where the first ended; the dates are those whose month or year ends, and
the units cross a year in both directions, leap days included.  Forty days and
months are more than any unit here asks of one field, so that the decoding meets
signs and borrows but no overflow of a field.  With 128 moments a second a fraction
takes up to seven decimals, so that the texts reach every length on both sides of
those `guess` has a layout for.  Three nodes are enough for every
pair of sharing, cycle and container; what needs more, two pointers to a struct and
to its first field, a list, a tree whose leaves know the root, is among the
larger graphs, and no walk without a cycle is 12 calls deep.  The texts of four
characters hold every prefix that ends in a sign, a quote or a bracket.  Four bits
are the least in which a value has a sign, fits 3 bits or does not, and differs as
a signed and an unsigned number.  A field cache is raced for by two goroutines
that ask for structs one of which is embedded in the other; what a third would
store is equal.

Symmetry is used in runs without liveness properties only: of keys, goroutines
and elements in the cache runs, of the goroutines of the Holder in `ticks`, none of
which the specifications, `Locals` and `LruCache` included, tell apart.  The view of
`MCBaseCache` hides nothing but the contents of elements that nothing points at,
which are overwritten before they are read.

Deadlock is checked in `ticks` and in the cache runs but `cache_sequential`,
where `Destroy` really blocks.  It is not in the two map runs, where `Set` and
`Fork` block themselves, nor where a call ends or the inputs are bounded: `lists`,
`objects`, `clone_any`, `clone_cycles`.

What the code does and its callers may not expect.  Where a comment of the source
claims more than the code does, a run shows the claim violated, and `findings` quotes
it.  Where nothing is claimed, the properties state what holds.

- *Cache.*  The memory limit may be exceeded (`WithinLimit`, violated).  `Del` and
  `Clear` do not give memory back, so `MemoryUsage` (357) counts what is gone
  (`MemCovers` is `>=`).  After the window of line 157 two list elements may carry one
  key (`OneEntryPerKey` asks for no memory limit), and `Len` (416) counts both.  A
  `Get` that overlaps a `Clear` moves an element of the old list into the new one
  (255): the list then has an element more than it counts, or counts one that is not
  there, and an eviction loop that takes it at its word gets the sentinel and panics.
  The claim of line 30 that the list holds the entries is for caches that are not
  cleared, and so are the runs with several goroutines.
- *Map.*  `Del` and the sorts leave `vals` as it is, although `set` says that both
  stay in step (`StaysOneToOne`, violated).  `RSet` of a value that is not there calls
  `set` in RMap mode, which waits for the lock it holds (261), and `Fork` for a reader
  behind a writer that waits for it (236): both are in `OnlySelfLocks`.
- *Tick.*  The last day of the Chinese week works out the days since Monday and
  then does not use them (112-118): it is the ordinary week's (`CNWeekEnds`,
  violated).  A text with a fraction of a second comes back from `Move` in a form it
  cannot read again unless that has 28 to 30 characters: `...00.100+08:00` becomes
  `...00.1+08:00`, for which `guess` has no layout (`MovableAgain`).
- *Pick.*  With several selectors the slice of answers has a capacity and no length
  (534), every store panics (543), and `Pick` answers with nothing
  (`PickAnswers`).  `next` looks one place too far at the end of a text (174).  A nil
  pointer among what the selector leads to makes `Cast` panic (480), and with it
  `Pick` of texts or numbers (`PanicsExplained`).
- *Clone.*  Cycles of maps, slices and interfaces are not remembered, and exhaust
  the stack (`CyclesHandled`, violated).  It returns an error for a private field that
  has no address and is not of a plain basic type, and for two types at one address
  (`AnyObjectCloned`, violated; `ErrorsExplained` has the reasons).
- *Cast.*  A time in an interface becomes the zero time (`MapsGoBack`), although
  line 184 says that the value is taken out; a promoted field of a source is looked
  up as the struct it is in (594); a nil pointer among the sources, an array among
  the destinations, a private field of the source that is to be `Data` (369) or that
  is assigned to a field of its own type or of type `any` (178), and a private text
  that is given a time (573) panic (`CastPanicsExplained`); the format tag of a
  promoted field is lost (138-141); numbers that are too wide are cut.

## 5. Fairness

`BaseCache`: a goroutine that can run runs (weak fairness of `Running`), because
Go's scheduler preempts; a step that needs the lock is taken if it is possible
again and again (strong fairness of `Locking`), because `sync.RWMutex` queues
its waiters and hands the lock over.  Both include that `fn` and the callbacks of
a walk return.  No fairness is assumed of calls or of time.  `OrderedMap` assumes
the same, with strong fairness of each of `RLock` and `Lock`.  `Flex` assumes
that the caller and each goroutine run, and that `fn` ends.  `Clone` is one
goroutine that goes on (weak fairness of `Next`).  The only limit on
the first two is what the models show: a lock that its holder asks for again is
never free, and `OnlySelfLocks` says that nothing else is ever stuck.  The other
specifications state safety only and assume none.

## 6. What is proved

The proofs about the cache are for every number of goroutines, keys, elements,
sizes and limits that satisfy `BaseCacheAssumption`, those about Flex for every
length, limit and set of values that satisfy `FlexAssumption`, those about the map
and the holder for every number of goroutines, keys and values that satisfy
`OrderedMapAssumption` and `HolderAssumption`, and those about `Clone` for every set
of finite object graphs and every `StackLimit` that satisfy `CloneAssumption`.  Those
about `Move` and `When` are for every set of dates, texts, movements and operands
that satisfies `TickAssumption`, calls of any length, and every `Base` and `Ticks`
above zero (`CalendarAssumption`).  Those about the field cache are for any goroutines
and any types in which embedding is well founded (`StructTypesAssumption`), as the Go
compiler sees to.  Those about Sort and Filter are for every array, every list of
options and every length of the runs from two on (`ListOpsAssumption`), those about
`Pick` for every call whose object is a finite tree, numbered in the order of the
walk, with any number of selectors, which are any texts at all; one that comes with
the nodes it was written from has their text (`IsWritten`, in `PickAssumption`).

`BaseCacheProofs!TypeCorrect` is `Spec => []TypeOK`, for every set of
operations.  `TypeOK` is not inductive: `Remove` follows the pointers of an
element, and would leave the types if one were nil.  The invariant `TypeInv` adds
that the elements which claim to be on the list have pointers that are not nil
(`Pointed`), which holds even after `Clear` has torn the ring, and that each
place in the code has the locals it needs (`FrameOK`).

What follows in `BaseCacheProofs` assumes that the clients do not call `Clear` (`"clear" \notin
Ops`; with it the results are false, as section 4 says) and proves

- `RingCorrect`: the list's links agree, whatever element a late `MoveToFront`
  is given;
- `MapCorrect`: a key leads to an element of the list that carries it, with the
  window of `setWithTTL` open and the limit changing;
- `PanicFree`: no eviction loop reaches the sentinel;
- `SizeCorrect`: the item limit;
- `ComputeCorrect`: `fn` is called only for a key the cache does not hold;
- `EntriesCorrect`: one entry per key when there is no memory limit;
- `MemCorrect`: the usage covers what the entries weigh, so that no eviction can
  take the 64 bits below zero.  It assumes that sizes are bounded (`Largest`) and
  that the integers have room for `MemBound` and one entry of that size per
  element.

The six follow from one inductive invariant, `Safe` (`AlwaysSafe`).  It needs, on
top of the six properties:

- `GoodList`: the nodes that claim the list are one ring of `len` elements.
  That it is *one* ring is a statement about reachability, which is stated
  without recursion by a rank that falls by one element from each node to the
  next (`Ranks`, which pushing, removing and moving keep); without it, `len` could be positive with an empty
  ring, and an eviction would take the sentinel.
- `PendingFresh`: the values in the hands of a goroutine are not on the list
  and belong to one goroutine only; otherwise `Push` would tie an element twice.
- `Mutex`: the places of the code between `Lock` and `Unlock` hold the lock, so
  that what they know of the shared state is stable.
- `WalkOK`: the walk of `maybeCleanup` is at an element or at nil.
- `KeyIsFree`: without a memory limit, `setWithTTL` inserts a key that the map
  does not hold; this is what fails once the window opens.

The step of each action is first reduced to what it means for `Safe`
(`StepLock`, `StepLocal`, `StepShared`), in one lemma per group of actions; that
such a step keeps `Safe` is proved once (`SafeStep`).  `MemCorrect` adds to `Safe`
what an overwrite must know (`MemInv`): a goroutine about to push has made sure
that the sum fits, the walk of a clean-up is at an element of the list or has
passed it, and what `Del` was asked for is still what it looks for.

Its last part proves that the cache implements `LruCache` (`LruCorrect`), with one
goroutine, or with any number of them and no memory limit, again without `Clear`.
Neither hypothesis can be dropped: with a limit, TLC finds two goroutines in the
window of line 157 that end with two entries for one key, which no LRU cache has.
The abstract state is a sequence, the ring a set of pointers; the proof describes the
walk of the ring by a function from places to nodes (`Walks`, `IsOrder`) and shows of
each list operation what it does to that sequence (`PushOrder`, `RemoveOrder`,
`MoveOrder`, `BackOrder`, `PrevOrder`), and that the recursive function `SeqOf` finds
it (`OrderIs`).  The invariant `OrderInv` adds to `MemInv` that such an order exists
(`HasOrder`), that each entry has its key alone and the map leads to it (`OneEach`),
what each place of the code knows of the element it is about to touch or drop
(`PlaceOK`), and that nobody but the goroutine that evicts can come in while it has
let the lock go (`Quiet`).  `Change` says how a step changes the order and `Reason`
why it may; `Moves` is the two together, proved per action.

`FlexProofs` proves that a call is joined (`JoinCorrect`), that the limit is kept
(`LimitCorrect`), that panics go where the options send them (`PanicCorrect`), and
that what is returned is what the options promise (`ReturnCorrect`).  The invariant `Inv` ties the errgroup's two counts to the
cardinalities of the sets of goroutines that hold a place (`Placed`) and that are
not counted out (`Counted`), so that a count of zero means that nobody is left,
and says of each element what its goroutine's place tells about `did` (`Element`).
`ReturnCorrect` needs besides that a slot is what its goroutine answered once it has
stored it (`Slots`), and that the loops of Filter and Distinct, which append to what
they have so far, yield the subsequence of the values they keep, by induction over
the length of the answer.

`OrderedMapProofs` proves that keys and Go map match (`KeysCorrect`), that walks see
one moment (`WalkCorrect`), that the reverse index stays one to one with the keys
where neither `Del` nor a sort is called (`AlignCorrect`, which shows that these alone
make `map_one_to_one` violated), and that the map is an ordered dictionary
(`DictCorrect`).  The invariant `Inv` is types, `KeysMatch` and `WalkInOrder`
themselves, and two parts they need: `Locks`, who holds the lock and how often at
each place of the code, `Fork` twice; and `Calls`, what each place knows of its call,
above all that only a reader or the writer that marshals has seen anything.  Its
pivot is `DataStep`: a step changes keys and Go map together in one of five ways
(`Put`, `Removed`, `Wiped`, `Reordered`, or not at all), and only when a writer has
the lock.  `KeysStep` then keeps the keys matched, `NobodyWalks` and `WalkStep` the
walks, and `PutIs`, `RemovedIs`, `ReorderedIs` make each change a step of
`OrderedDict`.  The first part of the module has what is needed of sequences: where
`SelectInSeq` finds something, and what `RemoveAt`, `Append` and a permutation do to a
sequence of distinct elements.

`HolderProofs` proves that the map is never touched without the lock, nor before it
is made (`GuardCorrect`), and that a Holder is a variable per goroutine
(`LocalCorrect`), with an `InitFunc` and without.  Its `Inv` says who holds the lock by
place (`Locks`), that one goroutine makes lock and map and no other gets past
(`Made`), and that a `Get` that found nothing still has nothing when it stores what
it made (`Missed`): its key is its own, so that nobody could fill it in the window
between the two critical sections.

`ObjectProofs` proves of `Clone` that no address is copied twice (`AddressCorrect`), that a copy
returned without an error is faithful at every node (`CopyCorrect`), and that errors
have three reasons (`ErrorsCorrect`, which says how far `AnyObjectCloned` fails).  None of the three is inductive, since while the
walk is under way copies are half filled and calls wait for results.  `Inv` says what
they will come to: the calls on the stack fill copies of their own and each waits for
what the next one copies (`FramesOK`); a copy holds what the kids done so far come to,
all of them once nobody fills it (`CopiesOK`); each pointer made is what is remembered
under the address it points to, and the reverse as long as the walk goes on
(`PtrsVisited`, `VisitedOK`); a value without an address is one of `ByValue`, and one
that may not be set comes from a struct `ErrorsExplained` names (`Reached`).  The
operators of `Clone` are stated again with the graph as a parameter, which no step
changes (`Same`).  What a node should be copied to is a function recursive over its
kids (`Upto`), and `ByValue` a set that grows at most once per node, so that it is
closed when the nodes are exhausted (`ByValueClosed`).  The steps are reduced to those
that call (`KidStep`, `PushKeeps`), those that return (`ResultKeeps`), and those that
copy in place (`InPlace`).  Nothing is asked of the types of the graph: a struct that
held itself in line would have no `Address` the code could compute, and the theorems
hold whatever it would be.

`TickProofs` proves the four properties of `Tick`: a unit moves to the month it names
(`MonthsCorrect`), a named day but `LastDayOfCNWeek` ends its period
(`PeriodCorrect`), what `Move` writes can be read again exactly if it has no fraction
of a second or 28 to 30 characters (`MovableCorrect`), and `When` is the conjunction of its comparisons
(`WhenCorrect`).  Most of it is about the calendar, for every integer day.  Months are
counted from March of year 0 and `First(k)` is the first day of month k: a month has
28 to 31 days (`MonthLength`), so months follow one another (`Later`), the year `Civil`
looks for is where it looks (`YearFound`), and year, month and day are the ones that
`Number` puts together again (`CivilIs`).  From these come the month a date lands in and the
day it is clamped to (`Lands`, `AimIsRight`), the ends of months, years and weeks
(`MonthBeginsEnds`, `YearBeginsEnds`, `WeekBeginsEnds`), and that comparing year, month
and day in that order compares the days (`DayOrder`).  `UnitIs` is the decoding: with
Go's division, a unit whose fields agree in sign and stay within `Base` is taken apart
into what it was put together from.  `LayoutTried` says that the layout guess settles on is
one it tries for texts of that length, `PlainLayout` and `RfcLayout` which one that is,
and `ReadsAsWritten` what that makes of a text written again; Go writes a year of five
digits and does not read it, which is why `MovableAgain` asks for four.  The invariant `Inv` is what a call knows half way: each
movement led from the time it found to the time the next one found (`MovesOK`), the
cache holds what its texts mean (`CacheOK`), and the flag says whether all comparisons
so far hold (`WhenOK`), a trail of comparisons being none of movements (`Apart`).

Of the field cache `ObjectProofs` proves that every field map in the cache, and every one that is
about to be stored, is the struct's (`MapsComplete`), for any number of goroutines that
build maps of any types at once; that what was found in the cache is found there again,
though a slower goroutine stores its own map over it (`MapsStay`); and that the calls
of `getFieldMap` do not nest without end, as no goroutine builds a struct's map within
the building of the same (`CallsEnd`).  The first thing to show is that `FieldMap`, a
function recursive over embedding, exists at all: two solutions of its equation on
sets of structs closed under embedding agree where both are defined, so that all of
them together are one (`SolutionsAgree`), and it is defined everywhere, since of the
structs it left out one would embed none of the others (`Innermost`, `Solvable`).  Then a map is described
without the order in which it was filled: under each name it holds the offer of highest
rank (`Ranked`).  A field's own entries outrank all that came before (`OnTop`), those of
the struct it embeds are outranked by all of them (`Below`), so that the two ways in
which the code merges keep a map ranked, and a ranked map of all fields is `FieldMap`
(`RankedAll`).  The invariant `CacheInv` is that the cached maps are complete
(`CachedOK`), that each map under way is ranked among the offers of the fields its call
has read (`FrameOK`), and that each call but the top one waits for what the next one
builds (`StackOK`); `MapsComplete` alone is not inductive, for it says nothing of a map
that is half built.  The theorems are about `CacheSpec`, whose casts ask for any types.

Of `Pick` `ObjectProofs` proves what can make it panic (`PanicsCorrect`), what it
answers (`AnswersCorrect`) and that it looks for what was asked (`ParsesCorrect`). For
the first the parser needs an invariant (`ParseInv`): between brackets the buffer is
the text since the bracket, so that a pair of characters in the buffer is one in the
text; an open quote with nothing after it is the character just read, so that only a
second quote beside it ends an empty value (`ParseExprPanics`); and as long as there
is no node, only spaces and closing brackets have been read. `PanicInv` carries that
to the pickers, each of which runs for itself: one that has panicked has a text of
that kind, or others beside it, or was at a value at which `Cast` panics; that its
selector led there is the invariant of the answers, below.

For the second the operators of `Pick` are stated again with the call as a
parameter, which no step changes.  A value of the tree is above another if it is its
holder or above its holder (`AboveIs`), and a value below n is a kid of n or below
one (`BelowKid`).  What the code keeps of the values above is one number, the
position in the selector, and what is selected is said by places for all the nodes
of the selector; `PosOK` is what makes the one do for the other: a position is how
many nodes can be placed, in their order, on the value and those above it, which
walk reaches by taking each node at the first value it fits.  Hidden entries may let
it fall behind, so that the position never exceeds that number and is equal to it
unless something is hidden.  `AnswerInv` is that every frame of every stack has such
a position and the frames are a path of the tree, with the kids still to be walked
all behind what has been walked (`WalkStackOK`), that what was collected is selected
and in order (`ResultOK`), and that what is selected and not hidden is collected, to
be walked or below something to be walked (`NothingMissed`).  A step takes the least
kid off the top frame (`KidTaken`) and enters it (`Entered`), or leaves a value all
of whose kids were walked (`Left`).  At the end nothing is to be walked; the loop
that makes results distinct keeps of each value the first (`DistinctIs`).  TLC found
that the property itself was wrong before this was proved: `Hidden` did not count a
map that holds twins and is held against a property of their name.

For the third, nodes are written as a caller writes them, the properties of a node in
any order, and it is followed where the parser is while it reads them: between two
nodes (`Between`), in a word (`InWord`), within brackets (`Inside`), and there, in the
expression, before, in and after a pair.  What the parser has after two texts in a row
is what it has after the second, begun where the first left it, so that each kind of
text needs one lemma: a run of letters grows the buffer (`WordRun`), a bracketed text
stays the buffer up to its bracket, quoted commas and signs included (`InsideRun`), a
written list of pairs gives each its property (`PropsRead`), a node is added to those
before it (`NodeRead`), and, by induction over their number, all nodes are
(`NodesRead`).  A selector that is written in this way makes no picker panic while it
parses, and no later step touches the nodes.

`ListOpsProofs` proves that Sort is a stable sort (`SortCorrect`) and that Filter does
what its options say (`FilterCorrect`).  Sort is given pairs of a value and its place,
so that stable is sorted by both.  A stretch is done if it has the pairs it began with,
in that order (`InsertionSortDone`: the insertion of one pair keeps what was done before
it done).  In a merge the elements written so far are, part by part, the first ones of
each (`MergingPart`), and each comes before all that are still to be written
(`MergingOrder`): with a tie the left part goes first, whose places are smaller, which
is the hypothesis of `MergeDone`.  A pass turns blocks that are done into blocks of
twice the size that are done (`PassDone`), with the last one short or alone, and as
sizes double, as many passes as there are elements leave one block (`TimSortDone`).
For Filter, the loop over the options agrees after every option with what was asked up
to it (`FilterOptionAgrees`).

`DataLemmas` makes the inductions of the other modules possible.  The library's induction theorems take
an operator as a parameter, which the provers here cannot instantiate, so the
principle is stated of sets: a set of numbers with a zero and closed under successors
is all of them (`Induction`), a stretch of them likewise (`StretchInduction`), and so
a set of sequences (`SequenceInduction`).  From these come that a function defined by
recursion over its length exists and is determined by its steps (`RecursionExists`,
`SameSteps`), and what `SumFunctionOnSet`, a fold, does when an element is added,
taken out or changed (`SumStep`, `SumRemove`, `SumSame`, `SumGrows`, `SumBound`).

## 7. What is only model-checked

- `Finishes`, `OnlySelfLocks`, `Ends` and `Terminates` are liveness under fairness,
  which is outside the prover's reach.
- The properties of `Converter` but `FieldMapsComplete` (`ErrorsChangeNothing`,
  `CastPanicsExplained`, `OrderIrrelevant`, `MapsGoBack`), which compare what the code
  computes with a reference definition over types and values: `Cast` holds recursive
  operators, in which the prover has no SMT.
- The claims that the code contradicts: a counterexample is all there is to show.
- Of the cache, what `Clear` does: with it the results of `BaseCacheProofs` are
  false, but for `TypeCorrect`, which holds for every operation.

## 8. What is not modelled, and why

- Parsing and formatting of dates, numbers and memory sizes, and JSON text:
  conversions by library calls, modelled by what they keep and what they refuse.
  `parseMemory` (73) multiplies without looking for overflow, which is listed under
  `hazards`.
- The reads of `Len`, `MemoryUsage`, `Size`, `Keys`, `Vals`: they change nothing.
- `Find`, `Pos`, `Has`, `Del` and `Reduce` of lists: one loop without state each,
  for unit tests.  Two are worth one: `Find` without options finds nothing
  (`list_find.go` 8-10), and `Del` keeps what its function accepts and returns
  nothing for options (`list_del.go` 7-22).  `isZero` of `Filter` (`list_filter.go`
  143) is a question of Go's types.
- `Pool` and `Try`: one library call each.  `Data` and `Tuple`: one assignment per
  call.  `list.go` is commented out.
- `Now` and its like: the wall clock and one call of `Format`.
- `NewMap` with several map arguments, and callbacks that call the map they walk:
  the caller would wait for itself as in `Set`.  An `fn` that uses its cache does
  so too.
- An `InitFunc` that uses its own Holder, and an id that Go gives to a new goroutine
  after the old one ended.
- Objects with cycles in `Pick`: `walk` (367) would not end.
- Private embedded structs in `Cast`, below which `reflect` forgets what is private
  (`CastAssumption`).
- In `Cast`: the branches of `convertToData` for a `Data` whose elements are not
  `any`, which `convertValue` (164) never takes.
