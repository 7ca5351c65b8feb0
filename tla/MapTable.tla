------------------------------ MODULE MapTable ------------------------------
(***************************************************************************)
(* The hash table of src/datastruct/map.c as operators on map values.      *)
(*                                                                         *)
(* A key is its 32-bit hash; 0 marks an empty slot, whatever its value     *)
(* handle.  A map value is the C struct map with its entries table inline: *)
(*   entry_count, table_size, entries : 0..table_size-1 -> map_entry.      *)
(* An allocation that may fail is a parameter can_alloc of the operation.  *)
(***************************************************************************)
EXTENDS Integers, FiniteSets, FiniteSetsExt

CONSTANTS INITIAL_TABLE_SIZE,  \* 32 in the code
          NoHandle,            \* the zeroed mem_handle, (mem_handle){0}
          Junk,                \* a value handle overwritten by a stray write
          StrayWords           \* the key_hash words a stray write can leave

ASSUME MapTableAssumption ==
  /\ INITIAL_TABLE_SIZE \in Nat \ {0}
  /\ StrayWords \subseteq Nat
  /\ Junk # NoHandle

-----------------------------------------------------------------------------
EmptyEntry == [key_hash |-> 0, value_handle |-> NoHandle]

Cleared(n) == [p \in 0 .. n - 1 |-> EmptyEntry]

\* The map that a successful map_create returns.
EmptyMap == [entry_count |-> 0,
             table_size  |-> INITIAL_TABLE_SIZE,
             entries     |-> Cleared(INITIAL_TABLE_SIZE)]

Slots(m) == 0 .. m.table_size - 1

Occupied(m) == {p \in Slots(m) : m.entries[p].key_hash # 0}

-----------------------------------------------------------------------------
\* The d-th slot looked at by a linear probe from start in a table of n slots.
Probe(n, start, d) == IF start + d < n THEN start + d ELSE start + d - n

\* Mutant of Stops: the probe gives up at the end of the table.
StopsUnwrapped(m, kh) ==
  {d \in Slots(m) :
     /\ (kh % m.table_size) + d < m.table_size
     /\ m.entries[(kh % m.table_size) + d].key_hash \in {kh, 0}}

\* The probe distances at which find_entry_pos would stop.
Stops(m, kh) ==
  {d \in Slots(m) :
     m.entries[Probe(m.table_size, kh % m.table_size, d)].key_hash \in {kh, 0}}

\* Mutant of find_entry_pos: no probe, the home slot is the entry's.
find_home_pos(m, kh) == kh % m.table_size

\* -1 when the probe wraps around: the assert of find_entry_pos then fails.
find_entry_pos(m, kh) ==
  IF Stops(m, kh) = {}
  THEN -1
  ELSE Probe(m.table_size, kh % m.table_size, Min(Stops(m, kh)))

\* Entries are copied in ascending order to the slot their hash names, with no
\* probe: of the entries that name the same slot, the last one copied stays.
resize_entries_table(m, is_grow) ==
  LET n == IF is_grow THEN 2 * m.table_size ELSE m.table_size \div 2
      Sources(p) == {i \in Occupied(m) : m.entries[i].key_hash % n = p}
  IN [entry_count |-> m.entry_count,
      table_size  |-> n,
      entries     |-> [p \in 0 .. n - 1 |->
                         IF Sources(p) = {} THEN EmptyEntry
                                            ELSE m.entries[Max(Sources(p))]]]

-----------------------------------------------------------------------------
Counted(m) == [m EXCEPT !.entry_count = @ + 1]

\* Half the slots, rounded down, may be taken; the test is on the raised count.
NeedsGrowth(m) == m.entry_count > m.table_size \div 2

\* Mutant of NeedsShrink: the threshold itself shrinks the table.
NeedsShrinkEarly(m) ==
  m.entry_count <= m.table_size \div 4 /\ m.table_size > INITIAL_TABLE_SIZE

\* The test is on the lowered count.
NeedsShrink(m) ==
  m.entry_count < m.table_size \div 4 /\ m.table_size > INITIAL_TABLE_SIZE

\* Mutant of IsFree: the -1 of a failed probe is taken for the sign of absence.
IsUnfound(m, pos) == pos = -1

IsFree(m, pos) == m.entries[pos].key_hash = 0

Stored(m, pos, kh, v) ==
  [m EXCEPT !.entries[pos] = [key_hash |-> kh, value_handle |-> v]]

\* The bytes of an entry written over the entries table at any alignment: they
\* cover the key_hash of one slot q and parts of the value handles of q and of
\* the slot before it.
Overwritten(m, q, w) ==
  [m EXCEPT !.entries =
     [p \in Slots(m) |->
        CASE p = q     -> [key_hash |-> w, value_handle |-> Junk]
          [] p = q - 1 -> [key_hash |-> m.entries[p].key_hash, value_handle |-> Junk]
          [] OTHER     -> m.entries[p]]]

\* What the write at the end of do_set can do once the table has grown.  It goes
\* through the entries pointer read before the resize, so it lands at pos of
\* the old table of old_size slots, which resize_entries_table has freed: the
\* new table m does not get the entry.  A pos past the end of the old table may
\* land anywhere, on the new table too.
StaleWrites(m, pos, old_size) ==
  {m} \cup {Overwritten(m, q, w) : q \in Slots(m),
                                   w \in {s \in StrayWords : pos >= old_size}}

Outcome(m, ret, resize) == [map |-> m, ret |-> ret, resize |-> resize]

\* The set of outcomes of do_set.  entry_count is raised before the resize
\* that may fail, and stays raised when it fails.
do_set(m, kh, v, can_alloc) ==
  LET pos     == find_entry_pos(m, kh)
      fresh   == IsFree(m, pos)
      grows   == fresh /\ NeedsGrowth(Counted(m))
      resized == resize_entries_table(Counted(m), TRUE)
  IN CASE ~fresh              -> {Outcome(Stored(m, pos, kh, v), TRUE, "no")}
       [] fresh /\ ~grows     -> {Outcome(Stored(Counted(m), pos, kh, v), TRUE, "no")}
       [] grows /\ ~can_alloc -> {Outcome(Counted(m), FALSE, "failed")}
       [] grows /\ can_alloc  ->
            {Outcome(w, TRUE, "grew") :
               w \in StaleWrites(resized, find_entry_pos(resized, kh), m.table_size)}

do_get(m, kh) ==
  LET e == m.entries[find_entry_pos(m, kh)]
  IN IF e.key_hash = 0 THEN NoHandle ELSE e.value_handle

\* Mutant of Emptied: the slot keeps its key_hash, only its value is cleared.
EmptiedValue(m, pos) ==
  [entry_count |-> m.entry_count - 1,
   table_size  |-> m.table_size,
   entries     |-> [m.entries EXCEPT ![pos].value_handle = NoHandle]]

\* Mutant of Emptied: the count stays.
EmptiedUncounted(m, pos) ==
  [entry_count |-> m.entry_count,
   table_size  |-> m.table_size,
   entries     |-> [m.entries EXCEPT ![pos] = EmptyEntry]]

\* The slot is emptied in place: later entries of its probe chain stay where
\* they are.
Emptied(m, pos) == [entry_count |-> m.entry_count - 1,
                    table_size  |-> m.table_size,
                    entries     |-> [m.entries EXCEPT ![pos] = EmptyEntry]]

\* The one outcome of do_delete, as a set.  A failed resize leaves the table
\* too large, and the entry deleted.
do_delete(m, kh, can_alloc) ==
  LET pos == find_entry_pos(m, kh)
  IN IF IsFree(m, pos)
     THEN {Outcome(m, FALSE, "no")}
     ELSE {IF ~NeedsShrink(e)
           THEN Outcome(e, TRUE, "no")
           ELSE IF can_alloc THEN Outcome(resize_entries_table(e, FALSE), TRUE, "shrank")
                             ELSE Outcome(e, FALSE, "failed") : e \in {Emptied(m, pos)}}

\* A delete that finds its entry leaves an empty slot in front of an occupied
\* one: entries of a probe chain may be hidden.
CutsChain(m, kh) ==
  LET pos == find_entry_pos(m, kh)
  IN /\ m.entries[pos].key_hash # 0
     /\ m.entries[Probe(m.table_size, pos, 1)].key_hash # 0

-----------------------------------------------------------------------------
\* Iterators.  live is the set of value handles whose mem_p is not NULL; a junk
\* handle left by a stray write is counted as one whose mem_p is NULL.
DoneIter == [pos |-> 0, value_handle |-> NoHandle]

\* Mutant of map_next_value_iter: an entry with an unusable value ends the loop.
map_next_until_hole(m, it, live) ==
  LET p == it.pos + 1
  IN IF p \in Slots(m) /\ m.entries[p].value_handle \in live
     THEN [pos |-> p, value_handle |-> m.entries[p].value_handle]
     ELSE DoneIter

\* Mutant of map_next_value_iter: the scan starts at the iterator's own slot.
map_same_value_iter(m, it, live) ==
  LET ahead == {p \in Slots(m) : p >= it.pos /\ m.entries[p].value_handle \in live}
  IN IF ahead = {}
     THEN DoneIter
     ELSE [pos |-> Min(ahead), value_handle |-> m.entries[Min(ahead)].value_handle]

\* Mutant of map_next_value_iter: the scan wraps around as a probe does.
map_wrapping_iter(m, it, live) ==
  LET usable == {p \in Slots(m) : m.entries[p].value_handle \in live}
      ahead  == {p \in usable : p > it.pos}
      next   == IF ahead = {} THEN Min(usable) ELSE Min(ahead)
  IN IF usable = {}
     THEN DoneIter
     ELSE [pos |-> next, value_handle |-> m.entries[next].value_handle]

map_next_value_iter(m, it, live) ==
  LET ahead == {p \in Slots(m) : p > it.pos /\ m.entries[p].value_handle \in live}
  IN IF ahead = {}
     THEN DoneIter
     ELSE [pos |-> Min(ahead), value_handle |-> m.entries[Min(ahead)].value_handle]

map_first_value_iter(m, live) ==
  LET first == [pos |-> 0, value_handle |-> m.entries[0].value_handle]
  IN IF first.value_handle \in live THEN first
                                    ELSE map_next_value_iter(m, first, live)

map_iter_done(it, live) == it.value_handle \notin live
=============================================================================
