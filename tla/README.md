# A TLA+ development of m65tool

This directory specifies, model-checks and partly proves the program logic of
this repository: the `datastruct` library (the hash table `map`, the memory
table `memtbl` built on it, the SIGINT guard of `mem` that wraps them, the
string buffers `strbuf`, the strings `str`) and the program `m65tool` that uses
them to count the words of a file. File names without a directory are under
`src/datastruct/`.

Run a check with `tlc -config MapStray.cfg MapMC.tla`, and the proofs of a
module with `tlapm MapProofs.tla`.

## The system

m65tool is a C library, `datastruct`, and a command line program that exercises
it. The rest is a build system: Autotools input and four Python scripts.

| component | state | operations | interacts with |
|---|---|---|---|
| `mem` | the handler SIGINT had before each open guard | `mem_alloc`, `mem_alloc_clear`, `mem_realloc`, `mem_free`, `mem_duplicate`, `mem_p` | dispatches to the allocator in a handle; wraps each call in `sigint_guard` |
| `memtbl` | a map from block address to handle | the `memtbl` allocator, `memtbl_create`, `memtbl_destroy` | called by `mem`; calls `malloc`, `realloc`, `free` and `map` |
| `map` | `entry_count`, `table_size`, the entries table | set, get, delete, iterate, for `str` and pointer keys | allocates its tables through `mem`; reads `mem_p` of its values when iterating |
| hash functions | none | `hash_str`, `hash_ptr` (FNV-1a, 32 bits) | give `map` its keys; 0 doubles as "empty slot" |
| `strbuf` | a struct with the handle of its data, and the length in use | create, concatenate, print, duplicate, reset, destroy | allocates and reallocates through `mem` |
| `str` | the static buffer of `str_cstr`; a `str` itself is a handle | split, find, compare, copy out, duplicate | points into `strbuf` data or client memory |
| `m65tool` | the array of counts, the map of words, two rankings | `process_line`, `word_freq` | `map`, `str`, `strbuf` |
| scripts | none | generate the Makefile, clean the tree | file system, git |

Everything runs in one thread. What is hard about it:

* **Sequences of legal calls.** The table uses linear probing without
  tombstones and rehashes without probing, so a delete or a resize can make
  another key unreachable. No single call looks wrong.
* **Stale state.** `do_set` uses a pointer across the resize that frees its
  target; `memtbl_destroy` changes the map under its own iterator; the handles
  that `process_line` stores point into an array it may reallocate; the static
  buffer of `str_cstr` keeps what earlier calls wrote.
* **Partial failure.** Every resize may run out of memory after the count has
  been raised, the block moved or the entry deleted. A string buffer whose data
  cannot grow has lost its data.
* **Interruption.** A SIGINT handler may run between any two steps outside a
  guard, between two frees of `memtbl_destroy` included, and may abort the
  interrupted operation with `longjmp`.
* **Boundaries.** Overlapping partial matches in `str_find`, texts that end in
  space or in the middle of a delimiter, the last line without a newline, the
  terminator's cell in a C buffer, empty places in a ranking, a count of
  elements compared with a size in bytes, shifts of negative characters.

What makes each component correct:

* `map`: a probe always stops; `entry_count` never wraps; what was stored is
  found and what was deleted is not; growing and shrinking do not alternate; an
  iteration delivers each usable value once.
* `memtbl`: the table knows exactly the blocks that are live; destroying it
  frees each of them once; a block in use is never freed.
* `mem`: a SIGINT handler never finds an operation half done, so that table and
  heap agree as far as the map itself has not lost them; the disposition of
  SIGINT comes back.
* hash functions: no key is confused with one that differs from it in one byte;
  the hash is FNV-1a.
* `strbuf`: a buffer holds what was appended to it, in order; no copy leaves its
  data; a concatenation returns; a destroyed buffer leaves nothing allocated.
* `str`: a search finds the left-most occurrence, a comparison is the
  lexicographic order, the pops take a text apart without losing or repeating a
  character, their loops end, and a C string reads back as its str.
* `m65tool`: every word of the file is counted, once, in the cell of its own;
  the rankings are the largest and the smallest distinct counts; the matches
  agree with them; the program ends.

The code breaks several of these promises. The modules model what the code
does, and the properties come in two kinds: those that hold under a stated
condition, checked by the passing runs, and those the headers promise without
it, refuted by a run of their own (see *Disagreements*).

## The modules

| module | models | role |
|---|---|---|
| `MapTable` | `map.c` | the table as operators on map values: `find_entry_pos`, `do_set`, `do_get`, `do_delete`, `resize_entries_table`, the iterator |
| `Map` | `map.c` as its client sees it | state machine with history variables |
| `MapMC` | | instances of `Map` |
| `BlockMap` | the map of a memory table | `MapTable` with addresses as keys and handles as values: `memtbl_p`, `hash_ptr` |
| `DataProofs` | | lemmas about least elements, the words of a text, and the operators of `MapTable` |
| `MapProofs` | | theorems about `Map` |
| `Registry` | `memtbl.h` | abstract specification of a memory table |
| `Memtbl` | `memtbl.c`, `mem_p`, `mem_alloc_clear`, `mem_duplicate` | state machine over `BlockMap` and a heap |
| `MemtblMC` | | instances of `Memtbl` |
| `MemtblProofs` | | theorems about `Memtbl` |
| `SigintGuard` | `mem.c`'s guard around the memtbl operations, `memtbl_destroy` | one action per step of an operation over `BlockMap`, and SIGINT |
| `SigintGuardMC` | | an instance of `SigintGuard` |
| `GuardProofs` | | theorems about `SigintGuard` |
| `KeyHash` | `hash_str`, `hash_ptr` | state machine on 32-bit words, two keys side by side |
| `KeyHashMC` | | an instance of `KeyHash` |
| `KeyHashProofs` | | theorems about `KeyHash` |
| `Strbuf` | the buffers of `str.c` | state machine, a step per reallocation |
| `StrbufMC` | | an instance of `Strbuf` |
| `StrbufProofs` | | theorems about `Strbuf` |
| `StrText` | the pops and the search of `str.c` | operators on texts, and reference definitions |
| `Str` | the functions of `str.c` and the loops around them | state machine, a step per round |
| `StrMC` | | an instance of `Str` |
| `StrProofs` | | theorems about `Str` |
| `Ranking` | the two inner loops of `word_freq` | state machine, a step per round |
| `WordFreq` | `m65tool.c` | the program, composed of `Ranking`, `StrText` and `MapTable` |
| `WordFreqMC` | | an instance of `WordFreq` |
| `WordFreqProofs` | | theorems about `Ranking` and `WordFreq` |

`Memtbl` composes `MapTable` with a heap and implements `Registry`; `WordFreq`
composes `MapTable`, `StrText` and `Ranking`. A composed module uses the
operators of the others, so a fault of the table appears in the program that
counts with it.

**MapTable.** A key is its 32-bit hash, because that is all the table stores.
A map value is `struct map` with the entries inline. Each operator is one C
function; `do_set` and `do_delete` return the set of outcomes the code allows,
each with the new map, the return value and what the resize did. `can_alloc`
says whether the allocation inside the call succeeds. After a growth, `do_set`
writes through a pointer to the freed old table. That is undefined behaviour:
`StaleWrites` lets the write vanish, and, when the position lies past the end
of the old table, land on any slot of the new one, leaving one of the
`StrayWords` as `key_hash` and a junk handle. Keys hash to any number, 0 and
equal numbers included.

**Map.** The client creates and destroys the map, sets, deletes and iterates;
`Release` frees a stored handle behind the map's back, as the loop body of
`memtbl_destroy` does. `map_get` changes nothing and appears in the properties.
History: `told` is what the results of the calls told the client, `resize` what
the last call did to the table size, `cut` that a resize or a delete in front of
an occupied slot has happened, `drift` that a growth has failed. The client drops its iterator when it changes the map,
because `map.h` calls its use then undefined; `Memtbl` models the one caller
that does not drop it.

**BlockMap and Memtbl.** `BlockMap` is the table with block addresses as keys and
their handles as values, as `memtbl.c` uses it; `memtbl_p` looks an address up,
and `Resolvable` is the set of handles whose `mem_p` is not NULL. A handle is the
address of its block; `heap` holds the blocks that
are live, `held` the handles the client has. `malloc` returns any free address,
a freed one included. An allocation or reallocation is one action, since the
guard makes it uninterruptible for the one thread there is; its three outcomes
(fail, in place, moved) are three actions. `mem_alloc_clear` and `mem_duplicate`
are allocations whose caller goes on through `mem_p` of the handles `used`: the
new one, and the one copied from. `memtbl_destroy` is a first step, one
step per iteration of its loop, and an end. `fault` records a `free` of
something that is not a live block and an access through NULL. The values of
the map are handles of the same table, so whether the iterator sees an entry
depends on the table being iterated: this recursion is why freeing an entry
hides others from the loop.

**SigintGuard.** The steps inside an operation are separate: entering the guard,
`malloc` or `realloc`, `map_set`, `map_delete`, `free`, leaving the guard. The
table's map is the one of `BlockMap`, so `map_set` and `map_delete` have every
outcome the code gives them: a growth that returns true without its entry, a
rehash that drops colliding entries, a delete that hides others, a resize that
fails. A resize opens and closes a nested guard. `memtbl_destroy` has no guard
around it: it is `CallDestroy`, a guarded free per `DestroyNext`, over the
iterator that those frees invalidate, and `DestroyUnmaps` when the iterator is
done, whether or not blocks are left. Freeing what is not a live block ends the
run as "wild". `Sigint` is enabled whenever the disposition is not `SIG_IGN`. The
handler returns, or destroys the table step by step ("aborting"; a second SIGINT
whose disposition has been reset kills the process meanwhile) and jumps to where
the interrupted operation began, as `mem.h` lines 16-18 intend; the application
goes on with a new table. When the handler does that after `map_destroy` and
before `memtbl_destroy` has returned, it dereferences a freed map:
`HandlerRevisits` ends the run as "wild", too. `Resets` holds the semantics
`signal()` may have: a delivered signal resets the disposition (System V, and
glibc under `-std=c17`, which `configure.ac` sets) or not. The run allows both.

Two history variables separate what the guard is for from what the map does by
itself. `lost` holds the blocks that resolved before a resize or a delete in
front of their entry and no longer do, with the one whose set made the map grow;
a block that resolves again, because its address is registered anew, leaves it.
`stale` holds the blocks of a reallocation that failed in the map: `realloc` or
`free` has freed them while their entries may stay. `HandlerSeesConsistentTable`
says that a handler finds every live block but the lost ones, and no dead one but
the stale ones, so an operation half done, an unregistered block or a registered
one already freed, is never seen. `HandlesAreRegistered` says that the handles the
client holds are of live blocks, lost or not. Both suppose that addresses hash
apart (`HashesApart`): blocks with one hash have one entry between them.

**KeyHash.** A 32-bit word is a pair of 16-bit halves; the exclusive or and the
five shifts of a round are those of `map.c`, with the carry from half to half.
The exclusive or of 16 bits is that of their two bytes, and so on down to bits,
so that it can be reasoned about; `KeyHashMC` compares it with the `^^` of the
community module `Bitwise`. `fnv` runs beside the loop and is the FNV-1a of the
same octets.
`CharWord` converts a `char`: C leaves its sign to the build, and a negative one
fills the high bits of the word, so `signed` is a variable that never changes.
The loop hashes a key and, in step with it, a second one that differs in one
byte or in kind, so that two hashes can be compared.

**Strbuf.** `bufs[b]` is the struct and, byte by byte, its data: the bytes
`realloc` adds are `Garbage`, and old text beyond the length stays. A call that
appends is a first step (`AppendText`, `AppendBuffer` or `strbuf_duplicate`), a
`Grow` per iteration of its loop, and a `Copy`; `GrowFails` ends it early. The
text is read when the call copies it: if it is the buffer's own and a
reallocation has moved the data (`src = "freed"`), the copy may read garbage.
A call that the code rejects at once changes nothing and has no action. History:
`told` is the text each buffer should hold, `torn` the buffers that were given
text from freed data, `lost` whether some block can no longer be reached.
`strbuf_concatenate_printf` appends a text from outside the buffers.

**Str.** `call` names the function, or the client loop, that runs. `str_find`
and `str_compare` take a step per round of their loops. `SplitRound` and
`WordRound` are rounds of a client's `while (str_is_valid(rest))` around
`str_split_pop` and `str_split_whitespace_pop`, the loop `str.h` 214-222
recommends and `process_line` writes; the pops themselves are operators of
`StrText`. `taken` joins the parts and delimiters popped so far, `words` the
parts that are not empty. `WriteCstr` writes one text after another into the
same buffer, as calls of `str_cstr` do; `overrun` says that a `bufsize` of 0 has
wrapped around. Characters are signed numbers, so a text may hold null
characters and negative ones.

**Ranking and WordFreq.** `WordFreq` reads the file by character; a newline or
the end of the file starts `process_line`, which pops a word per step and either
raises the count in the cell its handle points to (`SeenWord`) or makes a new
cell (`NewWord`). A handle is a cell and the number of times the array had
moved, so a handle into an array that has been reallocated is a stale one.
`words_seen` is compared with the size of the array in bytes (`m65tool.c` 92),
so the array is overrun before it grows: `overrun` records the first write past
its end, which may go unnoticed or end the model's knowledge ("wild"), as does
reading a cell that `mem_realloc` did not move with the array. `cut` records
that the map has grown and lost an entry. The rankings are `Ranking`, one step
per round of an inner loop over an array of any counts; the last loop iterates
over the map. The strbuf is the text it holds, whose growth may fail; `Strbuf`
has its steps.

## The runs

| run | bounds | question |
|---|---|---|
| `map_client` | 4 keys, table of 6, `entry_count` ≤ 4, 2 handles the client may free | is the map exact until the first resize or chain cut, and an iteration complete, without repetition and finite? |
| `map_stray` | equal hashes and hash 0, tables of 4, 8 and 16, `entry_count` ≤ 5, stray writes | does the table stay well formed whatever happens? |
| `memtbl_safe` | 4 addresses, table of 8 | is the table its `Registry` when nothing collides or grows? |
| `memtbl_hostile` | 3 addresses with one home slot, table of 4 and up | is a block in use ever freed, or mistaken for another? |
| `guard` | 3 addresses with one home slot, table of 4, `entry_count` ≤ 4, 2 nested guards | what does a SIGINT handler find, and what disposition is left? |
| `strbuf` | 2 buffers, sizes 0 and 1, texts of 1 and 3 characters, length ≤ 3 | does a buffer hold what it was told, inside its data, and does every append return? |
| `str` | every text of up to 4 and argument of up to 3 of a null, a space and a negative character, buffer of 3 | do search, comparison, pops and C strings do what `str.h` says, and do their loops end? |
| `word_freq` | files of up to 4 characters of two letters, space and newline, and files of up to 11 different words; 2 places, table of 6, array of 5 cells | are the words counted, ranked and matched, and does the program end? |
| `hash` | strs of up to 3 and addresses of 8 bytes of 6 values around the sign and the ends of a byte | can a changed byte go unnoticed, and is it FNV-1a? |

`INITIAL_TABLE_SIZE` is 32 in the code. The instances use 4, 6 or 8, so that
probe chains wrap around, tables grow at the third, fourth or fifth entry and
shrink back within a few calls. `MaxCount` bounds `entry_count`, which failed
growths would raise without end; at 5 it still allows a growth of 4 to 8, a
failed growth, and a growth of 8 to 16 with entries lost on the way. Three addresses let a
block be moved while another is live; in `guard` the third makes the table of 4
grow to 8, where two of them still collide, so entries are lost by the growth, by
the rehash, by the shrink of a later free and by deletes in front of them. A text of 3 characters makes a buffer of
size 1 grow twice in one call, and a print of it, which needs 4 bytes, ends
exactly at the boundary.

In `str`, four characters hold an overlapping partial match in front of a real
one, a delimiter of two that appears twice, and space at both ends; a buffer of
3 is filled exactly, cut short, and written again by a shorter text. In
`word_freq`, the table of 6 grows at the fourth word and drops it; the array of 5
cells of 2 bytes is overrun at the sixth word and found full at the eleventh, as
128 cells of 4 bytes are at the 129th and at the 513th; one pair of words has one hash
and one word hashes to 0, and the last word of the long files is a word seen
before. `LINE_SIZE` is 3, so that a line of 4 characters makes the strbuf grow.
Two places are enough for a count to be displaced from the first to the second
and from the second out. `StrayWords` is empty in all runs but `map_stray`: the write to the freed table is
lost, as in the build the tests run; `map_stray` covers the others. The proofs below
remove these bounds for the map, the memory table, the guard, the buffers, the
strings, the hashes and the program.

**Fairness.** `Map!FairSpec` assumes that a client in an iteration takes its
next step: the loop of `memtbl_destroy`, or any client's `while`, does nothing
else. `Memtbl!Spec` assumes the loop of `memtbl_destroy` runs on: it is one call
in one thread. `Strbuf!Spec` assumes the same of the loop and the copy of a
concatenation, `Str!Spec` of the loops of one call, and `WordFreq!Spec` of the
program: one thread that waits for nothing but `getc`, on a file of finite
length. No allocation is assumed to succeed.

A function that has returned and a program that has ended take no step, so
`str`, `word_freq` and `hash` are checked without deadlock checking.
`SigintGuard` has the action `Stopped`, a step that changes nothing, for a
process that SIGINT or undefined behaviour has ended; the other modules never
stop.

### Disagreements

Each of these runs checks one promise of a header and finds it broken.

| run | promise | what the code does |
|---|---|---|
| `map_grow_loses` | a set that returns true has stored its value (`map.h` 62-68, 85) | the set that makes the table grow writes the entry to the freed table |
| `memtbl_shrink_skips` | destroy frees every block (`memtbl.h` 54) | its own frees shrink the map under the iterator |
| `strbuf_loses` | destroy destroys a buffer, invalid ones fail gracefully (`str.h` 279, 43-45) | after a failed growth the handle of the data is overwritten and destroy returns before it frees the struct (in the trace a buffer of size 0, whose data `realloc` has freed; with a positive size the data leaks as well) |

What else the code does that its headers do not say, met while modelling it; the
models have these steps, but no run of their own:

* Deleting a key hides the keys that collided with it (`map.c` 197): a hidden
  key is not found, though `map.h` 85 promises its value, and set again it is
  stored twice, so that deleting it once is not enough. `map_delete` returns
  false for an absent key, as a test expects, where `map.h` 100 says that false
  means out of memory.
* The block that makes the map grow leaks, and `mem_alloc_clear` or
  `mem_duplicate` of it writes through NULL. `memtbl_destroy` skips blocks whose
  addresses collide with one it frees first.
* When a moved block cannot be registered, its old entry stays (`memtbl.c` 61),
  and `memtbl_destroy` frees the address a second time. A reallocation of a block the table
  has lost sight of frees the new block and keeps its entry. The original handle
  of a moved block resolves to NULL, where `mem.h` 102-103 says that it may be
  reused.
* A `strbuf` of size 0 cannot grow: where `realloc` to size 0 succeeds, the loop
  of a concatenation never ends, which is why `ConcatenationEnds` asks for a
  positive size. Appending a buffer to itself is only right while its data does
  not move, which is why `HoldsWhatItWasTold` leaves out the torn buffers.
* `str_split_pop` with an empty delimiter returns the str it was given
  (`str.c` 138), so the loop its comment recommends never ends.
  `str_write_cstr_to_buf` of an invalid str writes nothing, where `str.h`
  133-134 says that it writes the terminator, and with a `bufsize` of 0 it runs
  past the buffer. `str_destroy` takes its argument by value and cannot make it
  invalid (`str.h` 120-121).
* `hash_str` shifts a negative `char` into the high bits: with signed characters
  the hash of a text beyond ASCII is not the FNV-1a its comment names
  (`map.c` 45), and differs between builds.
* `process_line` compares a number of words with a number of bytes
  (`m65tool.c` 92), so with four bytes to a count the array of 128 is overrun
  from the 129th word on and grows at the 513th.


## The proofs

The proofs remove the bounds of the runs: they hold for every value of the
constants that satisfies the named assumptions, which the runs evaluate.

**MapProofs**, over the lemmas of `DataProofs`, for every
`INITIAL_TABLE_SIZE` ≥ 1, every set of keys, every hash function into the
naturals, every bound, every failure and every stray write:

* `TypeCorrect`: `Spec => []TypeOK`
* `CountsCover`: `Spec => []CountCoversEntries`, so `--entry_count` never wraps
* `ProbesStop`: `Spec => []ProbeStops`, so the assert of `find_entry_pos` holds
* `NeverThrashes`: `Spec => NoThrash`
* `MapExact`: `Spec => []ExactUntilCut`
* `MapCounts`: `Spec => []CountsUntilCut`
* `WalksAll`: `Spec => []IterationComplete`
* `WalksOnce`: `Spec => IterationSound`

The inductive invariant is `IInv`: `TypeOK`; the occupied slots are at most
`entry_count` many; and at most half of the slots are occupied (`HalfFull`).
`CountCoversEntries` alone is not inductive with `ProbeStops`: after a failed
growth `entry_count` exceeds half of the table, and only `HalfFull` says that a
free slot remains. `HalfFull` survives because the count covers the entries: a
set that does not grow has checked the count, a growth doubles the table before
a stray write can add one occupied slot, and a shrink happens only below a
quarter. `NeverThrashes` needs one more invariant, `Hysteresis`: right after a
growth, one delete does not reach the shrink threshold, and right after a
shrink, one set does not reach the growth threshold.

`MapExact` and `MapCounts` rest on `ExactInv`: while nothing has been cut, the
table holds an entry for each key that has a value and no other, a probe for the
key ends at that entry, and `entry_count` counts those keys, unless a growth
has failed. An operation on another slot could only disturb the probe by
adding a place to stop before the entry. `ProbeKept` shows that a set adds none,
since it fills a free slot, and `EmptiedKeepsFound` that a delete adds none
unless it empties a slot of the key's chain, which is what the history variable
`cut` notes. The iterations need `WalkInv`: what has been visited is every
usable slot up to the iterator's.

`DataProofs` states the part about the table itself once, for `MapProofs`,
`MemtblProofs`, `GuardProofs` and `WordFreqProofs`. `TableInv(m, E)` says that the table `m` is well formed, at
most half full and holds only entries of the set `E`. The lemmas follow the
code: `FindEntryPos` (a probe reaches every slot, so it finds the free one),
`StoredEntry`, `EmptiedEntry`, `CountedEntry`, `Resized` (the new entries inject
into the old ones), `StrayWrite`, `NextIter` and `FirstIter`; `SetKeepsTable` and
`DeleteKeepsTable` combine them.

**MemtblProofs**, in two parts. Without stray writes (`NoStray`, the build in
which the write to the freed table is lost), whatever collides, grows or fails:

* `MemtblTypeCorrect`: `Spec => []TypeOK`
* `NeverAnotherBlock`: `Spec => []ResolvesToSelf`
* `HeldBlocksLive`: `Spec => []HeldNeverFreed`

The invariant is `SafeInv`: `TableInv` with, for `E`, the entries that pair an
address with its own hash. Such a table may have lost an entry or have two of
one block, yet a probe for an address can only end at an entry of that address,
and every `free` in `memtbl.c` frees what a probe for the caller's own handle
returned. Stray writes break it: a junk handle is freed.

With `HomesApart` (every address has a home slot of its own and all together do
not make the map grow), and with or without stray writes, since nothing resizes:

* `TableExact`: `Spec => []RegistersExactly`
* `NoUndefined`: `Spec => []NoFault`
* `TableImplementsRegistry`: `Spec => Reg!RegSafety`

The invariant is `ExactInv`: the table has the entry of each live block in its
home slot and nothing else (`Registers`), and while `memtbl_destroy` runs its
iterator stands at the first live block (`IterAtFirst`). The second part is what
makes `DestroyEnd` a `Closed` step of `Registry`: when the iterator is done no
block is left. Each action of `Memtbl` then maps to one action of `Registry` or
to a stutter, with `heap` for `blocks` and `phase` for `state`.

**GuardProofs**, for any addresses and hash function, any failure and either
behaviour of `signal()`:

* `GuardsRestore`: `Spec => []DispositionRestored`
* `GuardTypeCorrect`: `Spec => []TypeOK`, without stray writes
* `HandlerFindsTable`: `Spec => []HandlerSeesConsistentTable`, without stray writes
* `HandlerFindsHandles`: `Spec => []HandlesAreRegistered`, without stray writes

The invariant has three parts, proved one on the other. `ProcessInv` says which
guards are open at which step and what they have saved, and which steps an
operation has; it needs nothing of the map, and `GuardsRestore` follows from it
alone. `BlockTypes` says that the table is well formed and holds only entries of
blocks under their own hashes (`TableInv`, as in `MemtblProofs`), and needs that
the write to the freed table is lost (`NoStray`). `Apart` needs that addresses hash
apart, which is a hypothesis of both properties. It says at every step how far
table and heap differ: `Complete`, that every live block resolves but the lost
ones and the one in hand between `malloc` and `map_set` or between `map_delete`
and `free`; `Sound`, that every entry, the hidden ones included, is of a live
block, a stale one or the one `realloc` has just freed, and that only a stale
block can have two entries; and `HandlesSafe`, that the operation works on no
block the client still holds. At the steps where a handler can run nothing is in
hand, which gives the properties. The hidden entries have to be in `Sound`: a later
delete can open the way to one again. Two entries of one block come from setting an address
that has a hidden entry; since `malloc` only returns dead addresses, that is the
entry of a stale one.

`SetReaches` and `DeleteReaches` of `DataProofs` are what this rests on: a set or a
delete that does not resize, and a delete that cuts no chain, leaves the probe of
every other key at its entry, and no operation makes an entry other than the one
set.

**StrbufProofs**, for any buffers, characters, texts, sizes and bound, and
whatever a reallocation moves or fails:

* `StrbufTypeCorrect`: `Spec => []TypeOK`, with the length inside the size
* `StrbufHolds`: `Spec => []HoldsWhatItWasTold`
* `StrbufDuplicateFits`: `Spec => []DuplicateFits`
* `StrbufPrintfTerminates`: `Spec => PrintfTerminates`

Each is inductive given `TypeOK`. The lemmas say what the byte operators keep:
`GrownType` (a growth keeps the text), `WrittenType` (a copy changes only the
bytes it writes) and `CopyWrites` (what a copy writes starts with the text
unless it came from freed data). `StrbufHolds` then compares the buffer with
`told \o text` byte by byte.

**StrProofs**, for any texts, arguments and characters:

* `FindsLeftmost`: `Spec => []FindOutcome`
* `ComparesLexicographically`: `Spec => []CompareOutcome`
* `SplitLosesNothing`: `Spec => []JoinsBack`
* `PartsAreSplit`: `Spec => []PartsHaveNoDelim`
* `WordsAreTheText`: `Spec => []WordsInOrder`
* `BufferReadsBack`: `Spec => []BufferHoldsLast`

The invariants say what the loops have found so far: no occurrence before
`start` and the first `offset` characters match; the first characters of both
strs are equal, where both are valid, and the order of an invalid str needs no
loop; the parts taken and the rest are the text.

`WordsAreTheText` says where each popped word stands in the text. `PopTakesWord`
of `DataProofs` describes one pop: in a text that has been popped up to `d`, where
no word straddles `d`, it takes the next word of the text, from `a + 1` to `b`,
and goes on at an `e` behind space, so that the words ending by `e` are those
ending by `d` and this one. The invariant `InOrder` then says that the n-th word
popped is the one with n words up to it (`Rank`); popping up to the end of the
text leaves none out.

**KeyHashProofs**, for keys of any length and any bytes:

* `OneChangeNeverCollides`: `Spec => []OneChangeApart`
* `HashIsFnv1a`: `Spec => []IsFnv1a`

Both rest on what one round is as arithmetic. `PrimeValue` shows that the five
shifts and their sum, halves and carries included, are the product with
0x01000193 modulo 2^32, and `TimesPrimeOneToOne` that this product can be undone,
since the prime has an inverse. An exclusive or can be undone too, proved width by
width (`Xor1Is` to `Xor16Is`). So `Mix` is one-to-one in the hash and in the
character (`MixOneToOne`), and the invariant `ApartInv` says that two hashes are
equal before the place where the keys differ and different ever after. Only one
place may differ: two changed bytes can cancel out.

**WordFreqProofs**, for any file, hashes, sizes and failures:

* `RanksRight`: `RankSpec => [](MostRanked /\ LeastRanked)`
* `ProgramRanksRight`: `Spec => [](MostRanked /\ LeastRanked)`, and
  `ProgramRanksLeast` for the second half
* `HandlesPointToCells`: `Spec => []HandlesInArray`, without stray writes
* `AllWordsCounted`: `Spec => []TotalKept`, without stray writes
* `CountsAreExact`: `Spec => []CountsExact`
* `MatchesAreRight`: `Spec => []MatchesAgree`

A ranking is sorted between any two rounds; every count offered so far is in it,
or is beaten by all places of it, or is the one being carried (`RankInv`). In
the program the array is fixed once the ranking begins, and until then nothing
of the ranking has happened (`Unranked`).

The other results share three invariants. `TextInv` follows the characters: the
strbuf holds what has been read behind the last newline, a line is what is left
of it, and neither starts inside of a word, so that a pop takes the next word of
the file (`PopStep`, from the same `PopTakesWord`). `Seen` is the set of places
popped so far, and `TextStep` says that only the two steps that count a word add
to it. `HandleInv` says that until the array is overrun it is the first one,
because `words_seen` reaches its size in bytes only after it has passed its
number of cells, and that the entries of the map have handles of different cells
(`CellsApart`). A growth of the map keeps that by the injection of `Resized`,
although it can lose entries, the new one among them. `TotalInv` says that the
array has as many marks as places have been seen: a seen word marks a cell of
the array, whichever it is, and a new one adds a cell.

`CountsAreExact` needs `CellsInv`, which holds until the map has grown
(`CellsExact`): a probe for the hash of any entry ends at that entry, the hashes
in the table are those of the words seen, and the cell of an entry holds the
number of places seen whose word has its hash. It speaks of hashes and not of
words, since words that collide do share a cell; only its use at the end assumes
that they do not, by the correspondence of words and slots in `SlotsAreWords`. It
does assume that no word hashes to 0, which would leave its slot free: in the code
such a word gets a new cell each time it occurs. A growth takes the set's own
entry, so nothing of this survives one. No stray write can happen before the
first growth, which is why these two theorems need no assumption about them.

`MatchesAreRight` adds `MatchInv` for the last loop: the matches counted so far
are those of the slots in front of the iterator, which are exactly the occupied
ones because a free slot has the zeroed handle. The printed numbers are then
those of the words by the same correspondence (`SamePart`).

Only model-checked is liveness: `IterationEnds`, `ConcatenationEnds`,
`CallReturns`, `Ends`, and the liveness of `Registry`, that a table being
destroyed is closed. It is out of the prover's reach, which does not reason about
fairness and enabledness. Every invariant and every action property that a run
checks is a theorem.

## Not modelled

* The contents and sizes of blocks outside `strbuf` and `str`. The plain
  allocator passes its calls to `malloc`, `realloc` and `free`, and the
  not-allocated one has none to make; `str_destroy` and the `str_duplicate_`
  functions are `mem_free` and `mem_duplicate` of the block of a text.
* A memory table whose own allocator is another memory table, and several tables
  at once.
* A `strbuf` in a memory table, sizes whose double overflows `size_t`, a `str`
  the client keeps across a growth, and printing a text that lies in the buffer
  it is printed to.
* What a handler reads that runs between `map_destroy` and the end of
  `memtbl_destroy`: the model stops at "wild".
* The failures of `main` and `word_freq` before the first character is read,
  which end the program with a message.
* `newmod.py`, `build.py`, `makemake.py`, `getopt_test`, the Autotools input, the
  macros under `m4/` and the unit tests: file input and output, text formatting,
  or no logic of their own. `superclean.py` has one piece of logic, its count of
  the files left in each directory.

## Plan

In this order:

1. A measure for each loop, and the theorem that every step of the loop lowers
   it: the part of termination that needs no fairness.
2. `Strbuf` as an implementation of an abstract buffer that is a sequence of
   characters, with `HoldsWhatItWasTold` as the refinement mapping.
3. A memory table whose allocator is a memory table: the outer table's frees
   inside the destroy loop of the inner one.
4. The count of files per directory in `superclean.py`.
