------------------------------- MODULE Memtbl -------------------------------
(***************************************************************************)
(* The memory table of src/datastruct/memtbl.c, used through mem.c, over   *)
(* its map from addresses to handles (module BlockMap) and a heap that     *)
(* hands out addresses.  The two operations that may fail for memory       *)
(* inside a call, malloc of the block and the resize of the map, fail      *)
(* independently.                                                          *)
(***************************************************************************)
EXTENDS BlockMap

VARIABLES phase,   \* "none", "open", or "closing" inside memtbl_destroy
          mp,      \* the table's map, from address to handle
          heap,    \* blocks malloc has given out and nobody has freed
          held,    \* valid handles the client holds, by their address
          it,      \* the iterator of memtbl_destroy
          due,     \* history: blocks the table could resolve when closing began
          fault    \* history: undefined behaviour so far

vars == <<phase, mp, heap, held, it, due, fault>>

Init ==
  /\ phase = "none" /\ mp = EmptyMap /\ heap = {} /\ held = {}
  /\ it = DoneIter /\ due = {} /\ fault = {}

-----------------------------------------------------------------------------
\* free(NULL) does nothing; freeing anything but a live block is undefined.
free(p, blocks) ==
  /\ heap' = blocks \ {p}
  /\ fault' = IF p = NULL \/ p \in blocks THEN fault ELSE fault \cup {"bad_free"}

-----------------------------------------------------------------------------
\* memtbl_create: both its allocations succeed, else it leaves nothing behind.
memtbl_create ==
  /\ phase = "none" /\ phase' = "open"
  /\ mp' = EmptyMap /\ due' = {}
  /\ UNCHANGED <<heap, held, it, fault>>

\* The memtbl allocator, once malloc has returned a (a failing malloc changes
\* nothing), and what its caller in mem.c does next: go through mem_p of the
\* handles used.
Allocates(a, used, can_alloc) ==
  /\ phase = "open" /\ a \notin heap /\ mp.entry_count < MaxCount
  /\ \E o \in do_set(mp, Hash[a], a, can_alloc) :
       /\ mp' = o.map
       /\ heap' = IF o.ret THEN heap \cup {a} ELSE heap
       /\ held' = IF o.ret THEN held \cup {a} ELSE held
       /\ fault' = IF o.ret /\ \E h \in used : memtbl_p(o.map, h) = NULL
                   THEN fault \cup {"null_access"} ELSE fault
  /\ UNCHANGED <<phase, it, due>>

mem_alloc(a, can_alloc) == Allocates(a, {}, can_alloc)

\* memset through the new handle.
mem_alloc_clear(a, can_alloc) == Allocates(a, {a}, can_alloc)

\* memcpy from the block of h; also str_duplicate_str of a str in the table.
mem_duplicate(h, a, can_alloc) == h \in held /\ Allocates(a, {a, h}, can_alloc)

-----------------------------------------------------------------------------
\* mem_realloc of the handle h.  The client replaces h by the result, also when
\* the result is invalid.
ReallocFails(h) ==
  /\ phase = "open" /\ h \in held
  /\ held' = held \ {h}
  /\ UNCHANGED <<phase, mp, heap, it, due, fault>>

\* realloc keeps the block in place: the map is not touched.
ReallocInPlace(h) ==
  /\ phase = "open" /\ h \in held
  /\ LET old == memtbl_p(mp, h)
     IN /\ old # NULL
        /\ held' = (held \ {h}) \cup {old}
        /\ fault' = IF old \in heap THEN fault ELSE fault \cup {"bad_free"}
  /\ UNCHANGED <<phase, mp, heap, it, due>>

\* realloc returns a new block n: of a moved block, or a fresh one when mem_p(h)
\* was NULL.  The new address is stored, then the old one deleted; when either
\* call returns false the new block is freed.
ReallocMoves(h, n, can_grow, can_shrink) ==
  /\ phase = "open" /\ h \in held /\ n \notin heap /\ mp.entry_count < MaxCount
  /\ LET old == memtbl_p(mp, h)
     IN /\ n # old
        /\ \E o \in do_set(mp, Hash[n], n, can_grow) :
           \E d \in IF o.ret THEN do_delete(o.map, hash_ptr(old), can_shrink) ELSE {o} :
             /\ mp' = d.map
             /\ heap' = (heap \ {old}) \cup (IF d.ret THEN {n} ELSE {})
             /\ held' = (held \ {h}) \cup (IF d.ret THEN {n} ELSE {})
        /\ fault' = IF old = NULL \/ old \in heap THEN fault
                                                  ELSE fault \cup {"bad_free"}
  /\ UNCHANGED <<phase, it, due>>

-----------------------------------------------------------------------------
\* Mutant of Unregister: the block is freed and its entry stays.
UnregisterKeepsEntry(a, can_alloc) ==
  free(memtbl_p(mp, a), heap) /\ UNCHANGED mp

\* memtbl_free of the handle of block a: the block's address is looked up, its
\* entry deleted (the result is ignored) and the block freed.
Unregister(a, can_alloc) ==
  \E data \in {memtbl_p(mp, a)} :
    /\ \E d \in do_delete(mp, hash_ptr(data), can_alloc) : mp' = d.map
    /\ free(data, heap)

memtbl_free(h, can_alloc) ==
  /\ phase = "open" /\ h \in held
  /\ Unregister(h, can_alloc)
  /\ held' = held \ {h}
  /\ UNCHANGED <<phase, it, due>>

-----------------------------------------------------------------------------
\* memtbl_destroy: an iteration over the map whose body frees the entry, and so
\* deletes it from the map being iterated.
DestroyBegin ==
  /\ phase = "open" /\ phase' = "closing"
  /\ it' = map_first_value_iter(mp, Resolvable(mp))
  /\ held' = {}
  /\ due' = {a \in heap : memtbl_p(mp, a) = a}
  /\ UNCHANGED <<mp, heap, fault>>

DestroyStep(can_alloc) ==
  /\ phase = "closing" /\ ~map_iter_done(it, Resolvable(mp))
  /\ Unregister(it.value_handle, can_alloc)
  /\ it' = map_next_value_iter(mp', it, Resolvable(mp'))
  /\ UNCHANGED <<phase, held, due>>

\* Mutant of DestroyEnd: the loop may end before the iterator does.
DestroyEndsEarly ==
  /\ phase = "closing"
  /\ phase' = "none" /\ mp' = EmptyMap /\ it' = DoneIter
  /\ UNCHANGED <<heap, held, due, fault>>

DestroyEnd ==
  /\ phase = "closing" /\ map_iter_done(it, Resolvable(mp))
  /\ phase' = "none" /\ mp' = EmptyMap /\ it' = DoneIter
  /\ UNCHANGED <<heap, held, due, fault>>

-----------------------------------------------------------------------------
Destroying == (\E can_alloc \in BOOLEAN : DestroyStep(can_alloc)) \/ DestroyEnd

Next ==
  \/ memtbl_create
  \/ \E a \in Addr, can_alloc \in BOOLEAN :
       \/ mem_alloc(a, can_alloc) \/ mem_alloc_clear(a, can_alloc)
       \/ \E h \in held : mem_duplicate(h, a, can_alloc)
  \/ \E h \in held : ReallocFails(h) \/ ReallocInPlace(h)
  \/ \E h \in held, n \in Addr, can_grow, can_shrink \in BOOLEAN :
       ReallocMoves(h, n, can_grow, can_shrink)
  \/ \E h \in held, can_alloc \in BOOLEAN : memtbl_free(h, can_alloc)
  \/ DestroyBegin \/ Destroying

\* memtbl_destroy is one call: once begun, its loop runs on.
Spec == Init /\ [][Next]_vars /\ WF_vars(Destroying)

-----------------------------------------------------------------------------
\* Types: a table entry holds the handle of some block.
TypeOK ==
  /\ phase \in {"none", "open", "closing"}
  /\ mp.entry_count \in 0 .. MaxCount
  /\ \A p \in Slots(mp) : mp.entries[p].key_hash \in Nat
                          /\ mp.entries[p].value_handle \in Addr \cup {NULL}
  /\ heap \subseteq Addr /\ held \subseteq Addr /\ due \subseteq Addr
  /\ it.pos \in Nat /\ it.value_handle \in Addr \cup {NULL}
  /\ fault \subseteq {"bad_free", "null_access"}

\* A handle the client holds is never freed behind its back: whatever entries
\* the map has lost, no call on another handle and no failed call frees it.  With
\* ResolvesToSelf, no call on an open table frees a block that is not live.
HeldNeverFreed == HashesApart => held \subseteq heap

\* A handle never resolves to another handle's block, nor to a dead entry while
\* the table is open and the client holds it.
ResolvesToSelf ==
  HashesApart /\ phase # "none" => \A a \in Addr : memtbl_p(mp, a) \in {a, NULL}

-----------------------------------------------------------------------------
\* What memtbl.h promises, under the condition that makes it true: every
\* address has a home slot of its own and the map never has to grow.
RegistersExactly ==
  phase # "none" =>
    \A a \in Addr : memtbl_p(mp, a) = IF a \in heap THEN a ELSE NULL

\* No undefined behaviour: every free is of a live block, every clear
\* and copy of blocks that resolve.
NoFault == fault = {}

\* The table is the Registry of its live blocks.
Reg == INSTANCE Registry WITH state <- phase, blocks <- heap

ImplementsRegistry == Reg!RegSpec

-----------------------------------------------------------------------------
\* What memtbl.h promises and the code does not keep without it.

\* memtbl.h 54: destroying the table frees every block, at least of those the
\* table can still resolve when closing begins.
DestroyFreesDue == phase = "none" => due \cap heap = {}
=============================================================================
