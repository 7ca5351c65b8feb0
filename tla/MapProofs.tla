----------------------------- MODULE MapProofs -----------------------------
(***************************************************************************)
(* Proofs about module Map for every table size, key set, hash function,   *)
(* allocation failure and stray write.                                     *)
(*                                                                         *)
(* The inductive invariant is that the table is well formed, entry_count   *)
(* covers the occupied slots, and at most half of the slots are occupied.  *)
(* Until the first resize or cut probe chain, the entries are those of the *)
(* keys that have a value, and a probe for such a key ends at its entry.   *)
(***************************************************************************)
EXTENDS Map, DataProofs

-----------------------------------------------------------------------------
MapInv(m) ==
  /\ MapOK(m)
  /\ Cardinality(Occupied(m)) <= m.entry_count
  /\ HalfFull(m)

\* The lemmas about tables hold for the entries of Map.
LEMMA MapEntries == TableEntries(EntryType)
BY MapTableAssumption DEF TableEntries, EntryType, EmptyEntry

LEMMA MapInvTable ==
  ASSUME NEW m
  PROVE  MapInv(m) <=> TableInv(m, EntryType) /\ m.entry_count <= MaxCount
BY MapAssumption DEF MapInv, TableInv, MapOK, TableOK

\* Every outcome of do_set keeps the invariant, when entry_count may still rise.
LEMMA SetKeepsInv ==
  ASSUME NEW m, MapInv(m), m.entry_count < MaxCount,
         NEW kh \in Nat, NEW v \in Handle, NEW can_alloc \in BOOLEAN,
         NEW o \in do_set(m, kh, v, can_alloc)
  PROVE  MapInv(o.map) /\ o.ret \in BOOLEAN /\ o.resize \in ResizeType
<1>1. TableInv(m, EntryType) /\ m.entry_count \in Nat
  BY MapInvTable DEF TableInv, TableOK
<1>2. [key_hash |-> kh, value_handle |-> v] \in EntryType
  BY DEF EntryType
<1>3. /\ TableInv(o.map, EntryType) /\ o.ret \in BOOLEAN /\ o.resize \in ResizeType
      /\ o.map.entry_count <= m.entry_count + 1
  BY <1>1, <1>2, MapEntries, SetKeepsTable
<1>4. o.map.entry_count \in Nat
  BY <1>3 DEF TableInv, TableOK
<1>5. o.map.entry_count <= MaxCount
  BY <1>1, <1>3, <1>4, MapAssumption
<1> QED BY <1>3, <1>5, MapInvTable

LEMMA DeleteKeepsInv ==
  ASSUME NEW m, MapInv(m), NEW kh \in Nat, NEW can_alloc \in BOOLEAN,
         NEW o \in do_delete(m, kh, can_alloc)
  PROVE  MapInv(o.map) /\ o.ret \in BOOLEAN /\ o.resize \in ResizeType
<1>1. TableInv(m, EntryType) /\ m.entry_count \in Nat /\ m.entry_count <= MaxCount
  BY MapInvTable DEF TableInv, TableOK
<1>2. /\ TableInv(o.map, EntryType) /\ o.ret \in BOOLEAN /\ o.resize \in ResizeType
      /\ o.map.entry_count <= m.entry_count
  BY <1>1, MapEntries, DeleteKeepsTable
<1>3. o.map.entry_count \in Nat
  BY <1>2 DEF TableInv, TableOK
<1>4. o.map.entry_count <= MaxCount
  BY <1>1, <1>2, <1>3, MapAssumption
<1> QED BY <1>2, <1>4, MapInvTable

-----------------------------------------------------------------------------
\* The inductive invariant of Map.
IInv == TypeOK /\ MapInv(mp)

LEMMA EmptyMapInv == MapInv(EmptyMap)
<1>1. /\ EmptyMap.table_size = INITIAL_TABLE_SIZE /\ EmptyMap.entry_count = 0
      /\ EmptyMap.entries = Cleared(INITIAL_TABLE_SIZE)
      /\ INITIAL_TABLE_SIZE \in Nat \ {0} /\ MaxCount \in Nat
  BY MapTableAssumption, MapAssumption DEF EmptyMap
<1>2. MapOK(EmptyMap)
  BY <1>1 DEF MapOK, EmptyMap, Cleared, EmptyEntry, EntryType, Slots
<1>3. Occupied(EmptyMap) = {}
  BY <1>1 DEF Occupied, Cleared, EmptyEntry, Slots
<1>4. Cardinality(Occupied(EmptyMap)) = 0
  BY <1>3, FS_EmptySet
<1> QED BY <1>1, <1>2, <1>4 DEF MapInv, HalfFull

LEMMA InitIInv == Init => IInv
<1> SUFFICES ASSUME Init PROVE IInv
  OBVIOUS
<1>1. MapOK(mp) /\ MapInv(mp)
  BY EmptyMapInv DEF Init, MapInv
<1>2. told \in [Key -> Handle \cup {NoHandle}]
  BY DEF Init, NothingTold
<1>3. it \in [pos : Nat, value_handle : Handle \cup {NoHandle}]
  BY DEF Init, DoneIter
<1> QED BY <1>1, <1>2, <1>3 DEF Init, IInv, TypeOK

\* The iterators the table returns are slots of it and values it holds.
LEMMA IterType ==
  ASSUME NEW m, MapOK(m), NEW S \in SUBSET Handle,
         NEW i \in [pos : Nat, value_handle : Handle \cup {NoHandle}]
  PROVE  /\ map_next_value_iter(m, i, S) \in
              [pos : Nat, value_handle : Handle \cup {NoHandle}]
         /\ map_first_value_iter(m, S) \in
              [pos : Nat, value_handle : Handle \cup {NoHandle}]
<1>1. ASSUME NEW j \in [pos : Nat, value_handle : Handle \cup {NoHandle, Junk}]
      PROVE  map_next_value_iter(m, j, S) \in
               [pos : Nat, value_handle : Handle \cup {NoHandle}]
  <2> DEFINE ahead == {p \in Slots(m) : /\ p > j.pos
                                        /\ m.entries[p].value_handle \in S}
  <2>1. CASE ahead = {}
    BY <2>1 DEF map_next_value_iter, DoneIter
  <2>2. CASE ahead # {}
    <3>1. ahead \in SUBSET Nat
      BY DEF Slots
    <3>2. Min(ahead) \in ahead
      <4> HIDE DEF ahead
      <4> QED BY <2>2, <3>1, MinNat
    <3>3. Min(ahead) \in Nat /\ m.entries[Min(ahead)].value_handle \in Handle
      BY <3>1, <3>2
    <3>4. map_next_value_iter(m, j, S) =
            [pos |-> Min(ahead), value_handle |-> m.entries[Min(ahead)].value_handle]
      BY <2>2 DEF map_next_value_iter
    <3> HIDE DEF ahead
    <3> QED BY <3>3, <3>4
  <2> QED BY <2>1, <2>2
<1>2. map_first_value_iter(m, S) \in [pos : Nat, value_handle : Handle \cup {NoHandle}]
  <2> DEFINE first == [pos |-> 0, value_handle |-> m.entries[0].value_handle]
  <2>1. first \in [pos : Nat, value_handle : Handle \cup {NoHandle, Junk}]
    BY DEF MapOK, EntryType, Slots
  <2>2. CASE first.value_handle \in S
    BY <2>1, <2>2 DEF map_first_value_iter
  <2>3. CASE first.value_handle \notin S
    <3>1. map_first_value_iter(m, S) = map_next_value_iter(m, first, S)
      BY <2>3 DEF map_first_value_iter
    <3> HIDE DEF first
    <3> QED BY <1>1, <2>1, <3>1
  <2> QED BY <2>2, <2>3
<1> QED BY <1>1, <1>2

-----------------------------------------------------------------------------
\* A step of the client's loop keeps the types.
LEMMA ArriveKeepsInv ==
  ASSUME IInv, NEW i \in [pos : Nat, value_handle : Handle \cup {NoHandle}],
         Arrive(i)
  PROVE  IInv'
<1>1. /\ it' \in [pos : Nat, value_handle : Handle \cup {NoHandle}]
      /\ walk' \in {"off", "at", "done"}
      /\ visited' \subseteq Nat
  BY DEF IInv, TypeOK, Arrive
<1>2. mp' = mp /\ UNCHANGED <<phase, live, told, resize, cut, drift>>
  BY DEF Arrive
<1>3. MapOK(mp)' /\ MapInv(mp)'
  BY <1>2 DEF IInv, MapInv
<1> QED BY <1>1, <1>2, <1>3 DEF IInv, TypeOK

\* The inductive invariant holds initially and every action keeps it.
LEMMA NextIInv == IInv /\ [Next]_vars => IInv'
<1> SUFFICES ASSUME IInv, [Next]_vars PROVE IInv'
  OBVIOUS
<1> USE DEF IInv
<1>1. CASE Create
  <2>1. MapInv(mp)' /\ MapOK(mp)'
    BY <1>1, EmptyMapInv DEF Create, MapInv
  <2>2. told' \in [Key -> Handle \cup {NoHandle}]
    BY <1>1 DEF Create, NothingTold
  <2> QED BY <1>1, <2>1, <2>2 DEF Create, TypeOK
<1>2. CASE Destroy
  <2>1. MapInv(mp)' /\ MapOK(mp)'
    BY <1>2, EmptyMapInv DEF Destroy, MapInv
  <2>2. told' \in [Key -> Handle \cup {NoHandle}]
    BY <1>2 DEF Destroy, NothingTold
  <2>3. it' \in [pos : Nat, value_handle : Handle \cup {NoHandle}]
    BY <1>2 DEF Destroy, DoneIter
  <2> QED BY <1>2, <2>1, <2>2, <2>3 DEF Destroy, TypeOK
<1>3. ASSUME NEW k \in Key, NEW v \in Handle \cup {NoHandle}, Refuse(k, v)
      PROVE  IInv'
  <2>1. MapInv(mp)' /\ MapOK(mp)'
    BY <1>3 DEF Refuse, TypeOK
  <2> QED BY <1>3, <2>1 DEF Refuse, TypeOK
<1>4. ASSUME NEW k \in Key, NEW v \in Handle, NEW can_alloc \in BOOLEAN,
             Set(k, v, can_alloc)
      PROVE  IInv'
  <2>1. PICK o \in do_set(mp, Hash[k], v, can_alloc) :
          /\ mp' = o.map
          /\ told' = IF o.ret THEN [told EXCEPT ![k] = v] ELSE told
          /\ resize' = o.resize
          /\ drift' = (drift \/ o.resize = "failed")
          /\ cut' = (cut \/ o.resize = "grew")
    BY <1>4 DEF Set
  <2>2. Hash[k] \in Nat /\ mp.entry_count < MaxCount
    BY <1>4, MapAssumption DEF Set
  <2>3. MapInv(o.map) /\ o.ret \in BOOLEAN /\ o.resize \in ResizeType
    BY <2>1, <2>2, SetKeepsInv
  <2>4. MapInv(mp)' /\ MapOK(mp)'
    BY <2>1, <2>3 DEF MapInv
  <2>5. told' \in [Key -> Handle \cup {NoHandle}]
    BY <2>1 DEF TypeOK
  <2>6. resize' \in {"no", "grew", "shrank", "failed"}
    BY <2>1, <2>3 DEF ResizeType
  <2>7. it' \in [pos : Nat, value_handle : Handle \cup {NoHandle}]
    BY <1>4 DEF Set, DropIter, DoneIter
  <2> QED BY <1>4, <2>1, <2>4, <2>5, <2>6, <2>7 DEF Set, DropIter, TypeOK
<1>5. ASSUME NEW k \in Key, NEW can_alloc \in BOOLEAN, Delete(k, can_alloc)
      PROVE  IInv'
  <2>1. PICK o \in do_delete(mp, Hash[k], can_alloc) :
          /\ mp' = o.map
          /\ resize' = o.resize
          /\ cut' = (cut \/ o.resize = "shrank" \/ CutsChain(mp, Hash[k]))
          /\ told' = [told EXCEPT ![k] = NoHandle]
    BY <1>5 DEF Delete
  <2>2. MapInv(o.map) /\ o.ret \in BOOLEAN /\ o.resize \in ResizeType
    BY <2>1, MapAssumption, DeleteKeepsInv
  <2>3. MapInv(mp)' /\ MapOK(mp)'
    BY <2>1, <2>2 DEF MapInv
  <2>4. told' \in [Key -> Handle \cup {NoHandle}]
    BY <2>1 DEF TypeOK
  <2>5. resize' \in {"no", "grew", "shrank", "failed"}
    BY <2>1, <2>2 DEF ResizeType
  <2>6. it' \in [pos : Nat, value_handle : Handle \cup {NoHandle}]
    BY <1>5 DEF Delete, DropIter, DoneIter
  <2>7. cut' \in BOOLEAN
    BY <2>1, Zenon
  <2> QED BY <1>5, <2>1, <2>3, <2>4, <2>5, <2>6, <2>7 DEF Delete, DropIter, TypeOK
<1>6. CASE IterFirst
  <2>1. map_first_value_iter(mp, live) \in
          [pos : Nat, value_handle : Handle \cup {NoHandle}]
    BY IterType DEF TypeOK
  <2> QED BY <1>6, <2>1, ArriveKeepsInv DEF IterFirst
<1>7. CASE IterNext
  <2>1. map_next_value_iter(mp, it, live) \in
          [pos : Nat, value_handle : Handle \cup {NoHandle}]
    BY IterType DEF TypeOK
  <2> QED BY <1>7, <2>1, ArriveKeepsInv DEF IterNext
<1>8. ASSUME NEW v \in Releasable, Release(v)
      PROVE  IInv'
  <2>1. MapInv(mp)' /\ MapOK(mp)'
    BY <1>8 DEF Release, TypeOK
  <2> QED BY <1>8, <2>1 DEF Release, TypeOK
<1>9. CASE UNCHANGED vars
  <2>1. MapInv(mp)' /\ MapOK(mp)'
    BY <1>9 DEF vars, TypeOK
  <2> QED BY <1>9, <2>1 DEF vars, TypeOK
<1> QED
  BY <1>1, <1>2, <1>3, <1>4, <1>5, <1>6, <1>7, <1>8, <1>9 DEF Next

LEMMA IInvAlways == Spec => []IInv
BY InitIInv, NextIInv, PTL DEF Spec

-----------------------------------------------------------------------------
\* Every reachable state of the map and of the client's loop has its types.
THEOREM TypeCorrect == Spec => []TypeOK
<1>1. IInv => TypeOK
  BY DEF IInv
<1> QED BY <1>1, IInvAlways, PTL

\* do_delete never takes entry_count below 0: it covers the occupied slots.
THEOREM CountsCover == Spec => []CountCoversEntries
<1>1. IInv => CountCoversEntries
  BY DEF IInv, MapInv, CountCoversEntries
<1> QED BY <1>1, IInvAlways, PTL

\* The assert of find_entry_pos never fails: a half-full table always has a
\* slot where the probe stops.
THEOREM ProbesStop == Spec => []ProbeStops
<1>1. IInv => ProbeStops
  <2> SUFFICES ASSUME IInv, NEW k \in Key
               PROVE  find_entry_pos(mp, Hash[k]) \in Slots(mp)
    BY DEF ProbeStops
  <2>1. HalfFull(mp) /\ mp.table_size \in Nat \ {0}
    BY DEF IInv, MapInv, MapOK
  <2>2. Hash[k] \in Nat
    BY MapAssumption
  <2> QED BY <2>1, <2>2, FindEntryPos
<1> QED BY <1>1, IInvAlways, PTL

-----------------------------------------------------------------------------
\* What keeps the table from thrashing: after a growth a delete stays clear of
\* the shrink threshold, after a shrink a set stays clear of the growth
\* threshold.
Hysteresis ==
  /\ resize = "grew" => mp.entry_count - 1 >= mp.table_size \div 4
  /\ resize = "shrank" => mp.entry_count + 1 <= mp.table_size \div 2

\* A set after a shrink does not grow, and one that grows leaves Hysteresis.
LEMMA SetHysteresis ==
  ASSUME NEW m, MapInv(m), m.entry_count < MaxCount,
         NEW kh \in Nat, NEW v \in Handle, NEW can_alloc \in BOOLEAN,
         NEW o \in do_set(m, kh, v, can_alloc)
  PROVE  /\ o.resize # "shrank"
         /\ o.resize = "grew" => /\ m.entry_count + 1 > m.table_size \div 2
                                 /\ o.map.entry_count = m.entry_count + 1
                                 /\ o.map.table_size = 2 * m.table_size
<1> DEFINE pos == find_entry_pos(m, kh)
           fresh == IsFree(m, pos)
           c == Counted(m)
           grows == fresh /\ NeedsGrowth(c)
           r == resize_entries_table(c, TRUE)
<1>1. CASE ~grows \/ ~can_alloc
  <2>1. o.resize \in {"no", "failed"}
    <3>1. CASE ~fresh
      <4>1. o = Outcome(Stored(m, pos, kh, v), TRUE, "no")
        BY <3>1 DEF do_set
      <4> QED BY <4>1 DEF Outcome
    <3>2. CASE fresh /\ ~grows
      <4>1. o = Outcome(Stored(c, pos, kh, v), TRUE, "no")
        BY <3>2 DEF do_set
      <4> QED BY <4>1 DEF Outcome
    <3>3. CASE grows /\ ~can_alloc
      <4>1. o = Outcome(c, FALSE, "failed")
        BY <3>3 DEF do_set
      <4> QED BY <4>1 DEF Outcome
    <3> QED BY <1>1, <3>1, <3>2, <3>3
  <2> QED BY <2>1
<1>2. CASE grows /\ can_alloc
  <2>1. PICK w \in StaleWrites(r, find_entry_pos(r, kh), m.table_size) :
          o = Outcome(w, TRUE, "grew")
    BY <1>2 DEF do_set
  <2>2. \A q, s : /\ Overwritten(r, q, s).entry_count = r.entry_count
                  /\ Overwritten(r, q, s).table_size = r.table_size
    BY DEF Overwritten, resize_entries_table, MapInv, MapOK
  <2>3. w.entry_count = r.entry_count /\ w.table_size = r.table_size
    <3> HIDE DEF r
    <3> QED BY <2>2 DEF StaleWrites
  <2>4. r.entry_count = m.entry_count + 1 /\ r.table_size = 2 * m.table_size
    BY DEF resize_entries_table, Counted, MapInv, MapOK
  <2>5. m.entry_count + 1 > m.table_size \div 2
    BY <1>2 DEF NeedsGrowth, Counted, MapInv, MapOK
  <2> QED BY <2>1, <2>3, <2>4, <2>5 DEF Outcome
<1> QED BY <1>1, <1>2

\* A delete after a growth does not shrink, and one that shrinks leaves
\* Hysteresis.
LEMMA DeleteHysteresis ==
  ASSUME NEW m, MapInv(m), NEW kh \in Nat, NEW can_alloc \in BOOLEAN,
         NEW o \in do_delete(m, kh, can_alloc)
  PROVE  /\ o.resize # "grew"
         /\ o.resize = "shrank" => /\ m.entry_count - 1 < m.table_size \div 4
                                   /\ o.map.entry_count = m.entry_count - 1
                                   /\ o.map.table_size = m.table_size \div 2
<1> DEFINE pos == find_entry_pos(m, kh)
           e == Emptied(m, pos)
<1>1. CASE IsFree(m, pos)
  BY <1>1 DEF do_delete, Outcome
<1>2. CASE ~IsFree(m, pos) /\ (~NeedsShrink(e) \/ ~can_alloc)
  <2>1. o = Outcome(e, TRUE, "no") \/ o = Outcome(e, FALSE, "failed")
    BY <1>2 DEF do_delete
  <2> QED BY <2>1 DEF Outcome
<1>3. CASE ~IsFree(m, pos) /\ NeedsShrink(e) /\ can_alloc
  <2>1. o = Outcome(resize_entries_table(e, FALSE), TRUE, "shrank")
    BY <1>3 DEF do_delete
  <2>2. e.entry_count = m.entry_count - 1 /\ e.table_size = m.table_size
    BY DEF Emptied
  <2>3. m.entry_count - 1 < m.table_size \div 4
    BY <1>3, <2>2 DEF NeedsShrink
  <2> QED BY <2>1, <2>2, <2>3 DEF Outcome, resize_entries_table
<1> QED BY <1>1, <1>2, <1>3

LEMMA NextHysteresis ==
  IInv /\ Hysteresis /\ [Next]_vars =>
    /\ Hysteresis'
    /\ [/\ resize = "grew" => resize' # "shrank"
        /\ resize = "shrank" => resize' # "grew"]_resize
<1> SUFFICES ASSUME IInv, Hysteresis, [Next]_vars
             PROVE  /\ Hysteresis'
                    /\ \/ /\ resize = "grew" => resize' # "shrank"
                          /\ resize = "shrank" => resize' # "grew"
                       \/ UNCHANGED resize
  OBVIOUS
<1>1. CASE Create
  BY <1>1 DEF Create, Hysteresis
<1>2. CASE Destroy
  BY <1>2 DEF Destroy, Hysteresis
<1>3. ASSUME NEW k \in Key, NEW v \in Handle \cup {NoHandle}, Refuse(k, v)
      PROVE  resize' = "no"
  BY <1>3 DEF Refuse
<1>4. ASSUME NEW k \in Key, NEW v \in Handle, NEW can_alloc \in BOOLEAN,
             Set(k, v, can_alloc)
      PROVE  Hysteresis' /\ resize' # "shrank"
             /\ (resize = "shrank" => resize' # "grew")
  <2>1. PICK o \in do_set(mp, Hash[k], v, can_alloc) :
          mp' = o.map /\ resize' = o.resize
    BY <1>4 DEF Set
  <2>2. Hash[k] \in Nat /\ mp.entry_count < MaxCount /\ MapInv(mp)
    BY <1>4, MapAssumption DEF Set, IInv
  <2>3. /\ o.resize # "shrank"
        /\ o.resize = "grew" => /\ mp.entry_count + 1 > mp.table_size \div 2
                                /\ mp'.entry_count = mp.entry_count + 1
                                /\ mp'.table_size = 2 * mp.table_size
    BY <2>1, <2>2, SetHysteresis
  <2>4. mp.entry_count \in Nat /\ mp.table_size \in Nat
    BY DEF IInv, MapInv, MapOK
  <2>5. o.resize = "grew" => mp'.entry_count - 1 >= mp'.table_size \div 4
    BY <2>3, <2>4
  <2> QED BY <2>1, <2>3, <2>4, <2>5 DEF Hysteresis
<1>5. ASSUME NEW k \in Key, NEW can_alloc \in BOOLEAN, Delete(k, can_alloc)
      PROVE  Hysteresis' /\ resize' # "grew"
             /\ (resize = "grew" => resize' # "shrank")
  <2>1. PICK o \in do_delete(mp, Hash[k], can_alloc) :
          mp' = o.map /\ resize' = o.resize
    BY <1>5 DEF Delete
  <2>2. Hash[k] \in Nat /\ MapInv(mp)
    BY MapAssumption DEF IInv
  <2>3. /\ o.resize # "grew"
        /\ o.resize = "shrank" => /\ mp.entry_count - 1 < mp.table_size \div 4
                                  /\ o.map.entry_count = mp.entry_count - 1
                                  /\ o.map.table_size = mp.table_size \div 2
    BY <2>1, <2>2, DeleteHysteresis
  <2>4. mp.entry_count \in Nat /\ mp.table_size \in Nat
    BY DEF IInv, MapInv, MapOK
  <2>5. o.resize = "shrank" => mp'.entry_count + 1 <= mp'.table_size \div 2
    BY <2>1, <2>3, <2>4
  <2> QED BY <2>1, <2>3, <2>4, <2>5 DEF Hysteresis
<1>6. CASE IterFirst \/ IterNext
  BY <1>6 DEF IterFirst, IterNext, Arrive, Hysteresis
<1>7. ASSUME NEW v \in Releasable, Release(v)
      PROVE  mp' = mp /\ resize' = resize
  BY <1>7 DEF Release
<1>8. CASE UNCHANGED vars
  BY <1>8 DEF vars, Hysteresis
<1>9. CASE \E k \in Key, v \in Handle \cup {NoHandle} : Refuse(k, v)
  BY <1>3, <1>9 DEF Hysteresis
<1>10. CASE \E v \in Releasable : Release(v)
  BY <1>7, <1>10 DEF Hysteresis
<1>11. CASE \E k \in Key, v \in Handle, can_alloc \in BOOLEAN : Set(k, v, can_alloc)
  BY <1>4, <1>11
<1>12. CASE \E k \in Key, can_alloc \in BOOLEAN : Delete(k, can_alloc)
  BY <1>5, <1>12
<1> QED
  BY <1>1, <1>2, <1>6, <1>8, <1>9, <1>10, <1>11, <1>12 DEF Next

\* A growth is not undone by the delete right after it, nor a shrink by the set
\* right after it, at every table size the resizes reach.
THEOREM NeverThrashes == Spec => NoThrash
<1>1. Init => Hysteresis
  BY DEF Init, Hysteresis
<1> QED BY <1>1, InitIInv, NextIInv, NextHysteresis, PTL DEF Spec, NoThrash
-----------------------------------------------------------------------------
(* Until the first resize or delete in front of an occupied slot: a probe   *)
(* for the hash of an entry ends at that entry, and the entries are those   *)
(* of the keys that the client was told are stored.                         *)
Told(t) == {k \in Key : t[k] # NoHandle}

Holds(m, t) ==
  /\ \A p \in Occupied(m) : find_entry_pos(m, m.entries[p].key_hash) = p
  /\ \A p \in Occupied(m) :
       \E k \in Told(t) : m.entries[p] = [key_hash |-> Hash[k], value_handle |-> t[k]]
  /\ \A k \in Told(t) : \E p \in Occupied(m) : m.entries[p].key_hash = Hash[k]

CountIs(m, t) == IsFiniteSet(Told(t)) /\ m.entry_count = Cardinality(Told(t))

ExactInv ==
  phase = "made" /\ HashesApart /\ ~cut =>
    /\ Holds(mp, told) /\ IsFiniteSet(Told(told))
    /\ ~drift => CountIs(mp, told)

\* A probe for a key: the entry of a key that is stored, a free slot otherwise.
LEMMA HoldsFinds ==
  ASSUME HashesApart, NEW m, MapInv(m), NEW t, Holds(m, t), NEW k \in Key
  PROVE  LET pos == find_entry_pos(m, Hash[k])
         IN /\ pos \in Slots(m) /\ m.entries[pos].key_hash \in {Hash[k], 0} /\ Hash[k] # 0
            /\ k \in Told(t) => /\ pos \in Occupied(m)
                               /\ m.entries[pos] = [key_hash |-> Hash[k], value_handle |-> t[k]]
            /\ k \notin Told(t) => m.entries[pos].key_hash = 0
<1> DEFINE pos == find_entry_pos(m, Hash[k])
<1>1. pos \in Slots(m) /\ m.entries[pos].key_hash \in {Hash[k], 0} /\ Hash[k] # 0
  BY MapAssumption, FindEntryPos DEF MapInv, MapOK, HashesApart
<1>2. \A j \in Told(t) : Hash[j] = Hash[k] => j = k
  BY DEF Told, HashesApart
<1>3. CASE k \in Told(t)
  <2>1. PICK p \in Occupied(m) : m.entries[p].key_hash = Hash[k]
    BY <1>3 DEF Holds
  <2>2. pos = p
    BY <2>1 DEF Holds
  <2>3. PICK j \in Told(t) : m.entries[p] = [key_hash |-> Hash[j], value_handle |-> t[j]]
    BY DEF Holds
  <2>4. j = k
    BY <1>2, <2>1, <2>3
  <2> QED BY <1>1, <1>3, <2>2, <2>3, <2>4
<1>4. CASE k \notin Told(t)
  <2>1. ASSUME pos \in Occupied(m)
        PROVE  m.entries[pos].key_hash # Hash[k]
    <3>1. PICK j \in Told(t) : m.entries[pos] = [key_hash |-> Hash[j], value_handle |-> t[j]]
      BY <2>1 DEF Holds
    <3> QED BY <1>2, <1>4, <3>1
  <2>2. m.entries[pos].key_hash = 0
    BY <1>1, <2>1 DEF Occupied
  <2> QED BY <1>1, <1>4, <2>2
<1> QED BY <1>3, <1>4

LEMMA EmptyHolds == Holds(EmptyMap, NothingTold) /\ CountIs(EmptyMap, NothingTold)
<1>1. Occupied(EmptyMap) = {}
  BY MapTableAssumption DEF EmptyMap, Occupied, Cleared, EmptyEntry, Slots
<1>2. Told(NothingTold) = {}
  BY DEF Told, NothingTold
<1> QED BY <1>1, <1>2, FS_EmptySet DEF Holds, CountIs, EmptyMap

\* Writing the value of a key to the slot that its probe finds.
LEMMA WriteHolds ==
  ASSUME HashesApart, NEW m, MapInv(m), NEW t \in [Key -> Handle \cup {NoHandle}], Holds(m, t),
         NEW k \in Key, NEW v \in Handle, NEW w, w.table_size = m.table_size,
         w.entries = [m.entries EXCEPT ![find_entry_pos(m, Hash[k])] =
                        [key_hash |-> Hash[k], value_handle |-> v]]
  PROVE  Holds(w, [t EXCEPT ![k] = v])
<1> DEFINE pos == find_entry_pos(m, Hash[k])
           e == [key_hash |-> Hash[k], value_handle |-> v]
           u == [t EXCEPT ![k] = v]
<1>1. /\ m.table_size \in Nat \ {0} /\ m.entries \in [Slots(m) -> EntryType]
      /\ Hash \in [Key -> Nat] /\ v # NoHandle
  BY MapAssumption DEF MapInv, MapOK
<1>2. /\ pos \in Slots(m) /\ m.entries[pos].key_hash \in {Hash[k], 0} /\ Hash[k] # 0
  BY HoldsFinds
<1>3. /\ Slots(w) = Slots(m) /\ w.entries[pos] = e /\ e.key_hash = Hash[k]
      /\ \A q \in Slots(m) : q # pos => w.entries[q] = m.entries[q]
  BY <1>1, <1>2 DEF Slots
<1>4. Told(u) = Told(t) \cup {k} /\ u[k] = v /\ \A j \in Key : j # k => u[j] = t[j]
  BY <1>1 DEF Told
<1> HIDE DEF e, u
<1>5. Occupied(w) = Occupied(m) \cup {pos}
  BY <1>2, <1>3 DEF Occupied
<1>6. find_entry_pos(w, Hash[k]) = pos
  <2>1. \A q \in Slots(m) : w.entries[q].key_hash \in {Hash[k], 0} =>
                              m.entries[q].key_hash \in {Hash[k], 0}
    BY <1>2, <1>3
  <2>2. m.table_size \in Nat \ {0} /\ Hash[k] \in Nat
    BY <1>1
  <2>3. w.entries[pos].key_hash \in {Hash[k], 0} /\ pos \in Slots(m)
    BY <1>2, <1>3
  <2>4. find_entry_pos(w, Hash[k]) = find_entry_pos(m, Hash[k])
    BY <2>1, <2>2, <2>3, ProbeKept, ZenonT(40)
  <2> QED BY <2>4
<1>7. ASSUME NEW p \in Occupied(m), p # pos
      PROVE  /\ find_entry_pos(w, w.entries[p].key_hash) = p
             /\ \E j \in Told(u) : w.entries[p] = [key_hash |-> Hash[j], value_handle |-> u[j]]
  <2>1. PICK j \in Told(t) : m.entries[p] = [key_hash |-> Hash[j], value_handle |-> t[j]]
    BY DEF Holds
  <2>2. w.entries[p] = m.entries[p] /\ m.entries[p].key_hash = Hash[j] /\ p \in Slots(m) /\ j \in Key
    BY <1>3, <1>7, <2>1 DEF Occupied, Told
  <2>3. find_entry_pos(m, Hash[j]) = p
    BY <2>2 DEF Holds
  <2>4. j # k
    BY <1>7, <2>3
  <2>5. Hash[j] # Hash[k] /\ Hash[j] \in Nat
    BY <1>1, <2>2, <2>4 DEF HashesApart
  <2>6. find_entry_pos(w, Hash[j]) = p
    <3>1. \A q \in Slots(m) : w.entries[q].key_hash \in {Hash[j], 0} =>
                                m.entries[q].key_hash \in {Hash[j], 0}
      BY <1>2, <1>3, <2>5
    <3>2. m.table_size \in Nat \ {0} /\ Hash[j] \in Nat
      BY <1>1, <2>5
    <3>3. /\ find_entry_pos(m, Hash[j]) \in Slots(m)
          /\ w.entries[find_entry_pos(m, Hash[j])].key_hash \in {Hash[j], 0}
      BY <2>2, <2>3
    <3>4. find_entry_pos(w, Hash[j]) = find_entry_pos(m, Hash[j])
      BY <3>1, <3>2, <3>3, ProbeKept, ZenonT(40)
    <3> QED BY <2>3, <3>4
  <2>7. j \in Told(u) /\ w.entries[p] = [key_hash |-> Hash[j], value_handle |-> u[j]]
    BY <1>4, <2>1, <2>2, <2>4
  <2> QED BY <2>2, <2>6, <2>7
<1>8. /\ find_entry_pos(w, w.entries[pos].key_hash) = pos
      /\ k \in Told(u) /\ w.entries[pos] = [key_hash |-> Hash[k], value_handle |-> u[k]]
  BY <1>3, <1>4, <1>6 DEF e
<1>9. ASSUME NEW j \in Told(u)
      PROVE  \E p \in Occupied(w) : w.entries[p].key_hash = Hash[j]
  <2>1. CASE j = k
    BY <1>3, <1>5, <2>1
  <2>2. CASE j # k
    <3>1. PICK p \in Occupied(m) : m.entries[p].key_hash = Hash[j]
      BY <1>4, <2>2 DEF Holds
    <3>2. j \in Key /\ Hash[j] # Hash[k] /\ Hash[j] # 0
      BY <1>4, <2>2 DEF HashesApart, Told
    <3>3. p # pos /\ p \in Slots(m)
      BY <1>2, <3>1, <3>2 DEF Occupied
    <3> QED BY <1>3, <1>5, <3>1, <3>3
  <2> QED BY <2>1, <2>2
<1> HIDE DEF pos
<1> QED BY <1>5, <1>7, <1>8, <1>9 DEF Holds, u

\* Emptying the slot of a key in front of a free slot.
LEMMA EmptiedHolds ==
  ASSUME HashesApart, NEW m, MapInv(m), NEW t \in [Key -> Handle \cup {NoHandle}], Holds(m, t),
         NEW k \in Told(t), NEW w, w.table_size = m.table_size,
         w.entries = [m.entries EXCEPT ![find_entry_pos(m, Hash[k])] = EmptyEntry],
         m.entries[Probe(m.table_size, find_entry_pos(m, Hash[k]), 1)].key_hash = 0
  PROVE  Holds(w, [t EXCEPT ![k] = NoHandle])
<1> DEFINE pos == find_entry_pos(m, Hash[k])
           u == [t EXCEPT ![k] = NoHandle]
<1>1. /\ m.table_size \in Nat \ {0} /\ m.entries \in [Slots(m) -> EntryType]
      /\ Hash \in [Key -> Nat] /\ k \in Key
  BY MapAssumption DEF MapInv, MapOK, Told
<1>2. /\ pos \in Slots(m) /\ pos \in Occupied(m) /\ m.entries[pos].key_hash = Hash[k]
  <2>1. /\ pos \in Slots(m) /\ pos \in Occupied(m)
        /\ m.entries[pos] = [key_hash |-> Hash[k], value_handle |-> t[k]]
    BY <1>1, HoldsFinds
  <2> HIDE DEF pos
  <2> QED BY <2>1
<1>3. /\ Slots(w) = Slots(m) /\ w.entries[pos] = EmptyEntry
      /\ \A q \in Slots(m) : q # pos => w.entries[q] = m.entries[q]
  BY <1>1, <1>2 DEF Slots
<1>4. Told(u) = Told(t) \ {k} /\ \A j \in Key : j # k => u[j] = t[j]
  BY <1>1 DEF Told
<1> HIDE DEF u
<1>5. Occupied(w) = Occupied(m) \ {pos}
  BY <1>2, <1>3 DEF Occupied, EmptyEntry
<1>6. ASSUME NEW p \in Occupied(m), p # pos
      PROVE  /\ find_entry_pos(w, w.entries[p].key_hash) = p
             /\ \E j \in Told(u) : w.entries[p] = [key_hash |-> Hash[j], value_handle |-> u[j]]
  <2>1. PICK j \in Told(t) : m.entries[p] = [key_hash |-> Hash[j], value_handle |-> t[j]]
    BY DEF Holds
  <2>2. /\ w.entries[p] = m.entries[p] /\ m.entries[p].key_hash = Hash[j]
        /\ j \in Key /\ Hash[j] \in Nat
    BY <1>1, <1>3, <1>6, <2>1 DEF Occupied, Told
  <2>3. find_entry_pos(m, Hash[j]) = p
    BY <2>2 DEF Holds
  <2>4. j # k
    BY <1>6, <2>3
  <2>5. find_entry_pos(w, Hash[j]) = p
    BY <1>1, <1>2, <1>3, <1>6, <2>2, <2>3, EmptiedKeepsFound
  <2>6. j \in Told(u) /\ w.entries[p] = [key_hash |-> Hash[j], value_handle |-> u[j]]
    BY <1>4, <2>1, <2>2, <2>4
  <2> QED BY <2>2, <2>5, <2>6
<1>7. ASSUME NEW j \in Told(u)
      PROVE  \E p \in Occupied(w) : w.entries[p].key_hash = Hash[j]
  <2>1. PICK p \in Occupied(m) : m.entries[p].key_hash = Hash[j]
    BY <1>4 DEF Holds
  <2>2. j \in Key /\ Hash[j] # Hash[k]
    BY <1>1, <1>4 DEF HashesApart, Told
  <2>3. p # pos /\ p \in Slots(m)
    BY <1>2, <2>1, <2>2 DEF Occupied
  <2> QED BY <1>3, <1>5, <2>1, <2>3
<1> HIDE DEF pos
<1> QED BY <1>5, <1>6, <1>7 DEF Holds, u
LEMMA SetHolds ==
  ASSUME HashesApart, NEW m, MapInv(m), NEW t \in [Key -> Handle \cup {NoHandle}],
         Holds(m, t), IsFiniteSet(Told(t)), NEW k \in Key, NEW v \in Handle,
         NEW can_alloc \in BOOLEAN, NEW o \in do_set(m, Hash[k], v, can_alloc),
         o.resize # "grew"
  PROVE  LET u == IF o.ret THEN [t EXCEPT ![k] = v] ELSE t
         IN /\ Holds(o.map, u) /\ IsFiniteSet(Told(u))
            /\ o.resize # "failed" /\ CountIs(m, t) => CountIs(o.map, u)
<1> DEFINE pos == find_entry_pos(m, Hash[k])
           fresh == IsFree(m, pos)
           c == Counted(m)
           grows == fresh /\ NeedsGrowth(c)
           set == [t EXCEPT ![k] = v]
<1>1. /\ m = [entry_count |-> m.entry_count, table_size |-> m.table_size, entries |-> m.entries]
      /\ c = [entry_count |-> m.entry_count + 1, table_size |-> m.table_size,
              entries |-> m.entries]
      /\ m.entry_count \in Nat
  BY MapAssumption DEF MapInv, MapOK, Counted
<1>2. k \in Told(t) <=> ~fresh
  BY HoldsFinds DEF IsFree, Occupied
<1>3. /\ Told(set) = Told(t) \cup {k} /\ IsFiniteSet(Told(set))
      /\ Cardinality(Told(set)) = Cardinality(Told(t)) + IF k \in Told(t) THEN 0 ELSE 1
  <2>1. Told(set) = Told(t) \cup {k}
    BY MapAssumption DEF Told
  <2>2. IsFiniteSet(Told(t) \cup {k}) /\ Cardinality(Told(t)) \in Nat
        /\ Cardinality(Told(t) \cup {k}) =
             IF k \in Told(t) THEN Cardinality(Told(t)) ELSE Cardinality(Told(t)) + 1
    BY FS_AddElement, FS_CardinalityType
  <2> HIDE DEF set
  <2> QED BY <2>1, <2>2
<1>4. ASSUME NEW w, w.table_size = m.table_size,
             w.entries = [m.entries EXCEPT ![pos] = [key_hash |-> Hash[k], value_handle |-> v]]
      PROVE  Holds(w, set)
  BY <1>4, WriteHolds
<1>5. CASE ~grows
  <2> DEFINE b == IF fresh THEN c ELSE m
             w == Stored(b, pos, Hash[k], v)
  <2>1. o = Outcome(w, TRUE, "no")
    BY <1>5 DEF do_set
  <2>2. /\ w.table_size = m.table_size
        /\ w.entry_count = m.entry_count + IF fresh THEN 1 ELSE 0
        /\ w.entries = [m.entries EXCEPT ![pos] = [key_hash |-> Hash[k], value_handle |-> v]]
    <3> HIDE DEF pos, c
    <3>1. CASE fresh
      BY <1>1, <3>1 DEF Stored
    <3>2. CASE ~fresh
      BY <1>1, <3>2 DEF Stored
    <3> QED BY <3>1, <3>2
  <2> HIDE DEF w
  <2>3. o.map = w /\ o.ret = TRUE
    BY <2>1 DEF Outcome
  <2>4. Holds(w, set)
    BY <1>4, <2>2
  <2>5. CountIs(m, t) => CountIs(w, set)
    <3> HIDE DEF set, fresh
    <3> QED BY <1>1, <1>2, <1>3, <2>2 DEF CountIs
  <2> HIDE DEF set
  <2> QED BY <1>3, <2>3, <2>4, <2>5 DEF set
<1>6. CASE grows /\ ~can_alloc
  <2>1. o = Outcome(c, FALSE, "failed")
    BY <1>6 DEF do_set
  <2>2. o.map = c /\ o.ret = FALSE /\ o.resize = "failed"
    BY <2>1 DEF Outcome
  <2>3. c.table_size = m.table_size /\ c.entries = m.entries
    BY <1>1
  <2> HIDE DEF c
  <2>4. Slots(c) = Slots(m) /\ Occupied(c) = Occupied(m)
    BY <2>3 DEF Slots, Occupied
  <2>5. \A kh : Stops(c, kh) = Stops(m, kh)
    BY <2>3, <2>4 DEF Stops
  <2>6. \A kh : find_entry_pos(c, kh) = find_entry_pos(m, kh)
    BY <2>3, <2>5 DEF find_entry_pos
  <2>7. Holds(c, t)
    BY <2>3, <2>4, <2>6 DEF Holds
  <2> QED BY <2>2, <2>7
<1>7. ~(grows /\ can_alloc)
  <2> SUFFICES ASSUME grows, can_alloc PROVE FALSE
    OBVIOUS
  <2>1. PICK w : o = Outcome(w, TRUE, "grew")
    BY DEF do_set
  <2> QED BY <2>1 DEF Outcome
<1> QED BY <1>5, <1>6, <1>7

LEMMA DeleteHolds ==
  ASSUME HashesApart, NEW m, MapInv(m), NEW t \in [Key -> Handle \cup {NoHandle}],
         Holds(m, t), IsFiniteSet(Told(t)), NEW k \in Key,
         NEW can_alloc \in BOOLEAN, NEW o \in do_delete(m, Hash[k], can_alloc),
         o.resize # "shrank", ~CutsChain(m, Hash[k])
  PROVE  LET u == [t EXCEPT ![k] = NoHandle]
         IN /\ Holds(o.map, u) /\ IsFiniteSet(Told(u))
            /\ CountIs(m, t) => CountIs(o.map, u)
<1> DEFINE pos == find_entry_pos(m, Hash[k])
           e == Emptied(m, pos)
           u == [t EXCEPT ![k] = NoHandle]
<1>1. k \in Told(t) <=> ~IsFree(m, pos)
  BY HoldsFinds DEF IsFree, Occupied
<1>2. CASE IsFree(m, pos)
  <2>1. o = Outcome(m, FALSE, "no")
    BY <1>2 DEF do_delete
  <2>2. u = t
    BY <1>1, <1>2 DEF Told
  <2> HIDE DEF u
  <2> QED BY <2>1, <2>2 DEF Outcome, u
<1>3. CASE ~IsFree(m, pos)
  <2>1. k \in Told(t)
    BY <1>1, <1>3
  <2>2. /\ e.entry_count = m.entry_count - 1 /\ e.table_size = m.table_size
        /\ e.entries = [m.entries EXCEPT ![pos] = EmptyEntry]
    BY DEF Emptied
  <2>3. m.entries[Probe(m.table_size, pos, 1)].key_hash = 0
    BY <1>3 DEF CutsChain, IsFree
  <2>4. o.map = e
    <3>1. \/ o = Outcome(e, TRUE, "no") \/ o = Outcome(e, FALSE, "failed")
          \/ o = Outcome(resize_entries_table(e, FALSE), TRUE, "shrank")
      <4> HIDE DEF e
      <4> QED BY <1>3 DEF do_delete, e
    <3> HIDE DEF e
    <3>2. CASE o = Outcome(e, TRUE, "no") \/ o = Outcome(e, FALSE, "failed")
      BY <3>2 DEF Outcome
    <3>3. CASE o = Outcome(resize_entries_table(e, FALSE), TRUE, "shrank")
      BY <3>3 DEF Outcome
    <3> QED BY <3>1, <3>2, <3>3
  <2> HIDE DEF e
  <2>5. Holds(e, u)
    BY <2>1, <2>2, <2>3, EmptiedHolds
  <2>6. Told(u) = Told(t) \ {k}
    BY DEF Told
  <2>7. /\ IsFiniteSet(Told(u)) /\ Cardinality(Told(u)) = Cardinality(Told(t)) - 1
    BY <2>1, <2>6, FS_RemoveElement
  <2> HIDE DEF u
  <2>8. CountIs(m, t) => CountIs(e, u)
    BY <2>2, <2>7 DEF CountIs
  <2> QED BY <2>4, <2>5, <2>7, <2>8 DEF u
<1> QED BY <1>2, <1>3

LEMMA NextExact ==
  ASSUME IInv, ExactInv, [Next]_vars
  PROVE  ExactInv'
<1> SUFFICES ASSUME HashesApart, phase' = "made", ~cut'
             PROVE  /\ Holds(mp', told') /\ IsFiniteSet(Told(told'))
                    /\ ~drift' => CountIs(mp', told')
  BY DEF ExactInv, HashesApart
<1>1. ASSUME NEW k \in Key, NEW v \in Handle, NEW can_alloc \in BOOLEAN, Set(k, v, can_alloc)
      PROVE  ExactInv'
  <2>1. PICK o \in do_set(mp, Hash[k], v, can_alloc) :
          /\ mp' = o.map
          /\ told' = IF o.ret THEN [told EXCEPT ![k] = v] ELSE told
          /\ cut' = (cut \/ o.resize = "grew")
          /\ drift' = (drift \/ o.resize = "failed")
    BY <1>1 DEF Set
  <2>2. o.resize # "grew" /\ ~cut /\ phase = "made"
    BY <1>1, <2>1 DEF Set
  <2>3. Holds(mp, told) /\ IsFiniteSet(Told(told)) /\ (~drift => CountIs(mp, told))
    BY <2>2 DEF ExactInv
  <2>4. /\ Holds(mp', told') /\ IsFiniteSet(Told(told'))
        /\ o.resize # "failed" /\ CountIs(mp, told) => CountIs(mp', told')
    BY <2>1, <2>2, <2>3, SetHolds DEF IInv, TypeOK
  <2> QED BY <2>1, <2>3, <2>4 DEF ExactInv
<1>2. ASSUME NEW k \in Key, NEW can_alloc \in BOOLEAN, Delete(k, can_alloc)
      PROVE  ExactInv'
  <2>1. PICK o \in do_delete(mp, Hash[k], can_alloc) :
          /\ mp' = o.map
          /\ cut' = (cut \/ o.resize = "shrank" \/ CutsChain(mp, Hash[k]))
    BY <1>2 DEF Delete
  <2>2. /\ o.resize # "shrank" /\ ~CutsChain(mp, Hash[k]) /\ ~cut /\ phase = "made"
        /\ told' = [told EXCEPT ![k] = NoHandle] /\ drift' = drift
    BY <1>2, <2>1 DEF Delete
  <2>3. Holds(mp, told) /\ IsFiniteSet(Told(told)) /\ (~drift => CountIs(mp, told))
    BY <2>2 DEF ExactInv
  <2>4. /\ Holds(mp', told') /\ IsFiniteSet(Told(told'))
        /\ CountIs(mp, told) => CountIs(mp', told')
    BY <2>1, <2>2, <2>3, DeleteHolds DEF IInv, TypeOK
  <2> QED BY <2>2, <2>3, <2>4 DEF ExactInv
<1>3. CASE Create
  BY <1>3, EmptyHolds DEF Create, CountIs
<1>4. CASE UNCHANGED <<phase, mp, told, cut, drift>>
  BY <1>4 DEF ExactInv
<1>5. CASE Destroy
  BY <1>5 DEF Destroy
<1>6. ASSUME \/ \E k \in Key, v \in Handle \cup {NoHandle} : Refuse(k, v)
             \/ IterFirst \/ IterNext \/ \E v \in Releasable : Release(v)
             \/ UNCHANGED vars
      PROVE  UNCHANGED <<phase, mp, told, cut, drift>>
  BY <1>6 DEF Refuse, IterFirst, IterNext, Arrive, Release, vars
<1> QED BY <1>1, <1>2, <1>3, <1>4, <1>5, <1>6 DEF Next, ExactInv

LEMMA ExactInvAlways == Spec => []ExactInv
<1>1. Init => ExactInv
  BY DEF Init, ExactInv
<1> QED BY <1>1, NextExact, InitIInv, NextIInv, PTL DEF Spec

\* For every table size and set of keys: whatever collides, wraps around the end
\* of the table, is overwritten or fails to grow, map_get answers what the
\* client was told until a resize or a delete in front of an occupied slot.
THEOREM MapExact == Spec => []ExactUntilCut
<1>1. IInv /\ ExactInv => ExactUntilCut
  <2> SUFFICES ASSUME IInv, Holds(mp, told), HashesApart, NEW k \in Key
               PROVE  do_get(mp, Hash[k]) = told[k]
    BY DEF ExactInv, ExactUntilCut
  <2> DEFINE pos == find_entry_pos(mp, Hash[k])
  <2>1. MapInv(mp)
    BY DEF IInv
  <2>2. CASE k \in Told(told)
    <3>1. mp.entries[pos] = [key_hash |-> Hash[k], value_handle |-> told[k]] /\ Hash[k] # 0
      BY <2>1, <2>2, HoldsFinds
    <3> HIDE DEF pos
    <3> QED BY <3>1 DEF do_get, pos
  <2>3. CASE k \notin Told(told)
    <3>1. mp.entries[pos].key_hash = 0
      BY <2>1, <2>3, HoldsFinds
    <3> QED BY <2>3, <3>1 DEF do_get, Told
  <2> QED BY <2>2, <2>3
<1> QED BY <1>1, IInvAlways, ExactInvAlways, PTL

\* entry_count counts the stored keys for as long, unless a growth has failed.
THEOREM MapCounts == Spec => []CountsUntilCut
<1>1. ExactInv => CountsUntilCut
  BY DEF ExactInv, CountsUntilCut, CountIs, Told
<1> QED BY <1>1, ExactInvAlways, PTL
-----------------------------------------------------------------------------
\* An iteration has delivered the usable entries up to its iterator, no slot
\* behind it, and all of them when it is done.
WalkInv ==
  /\ phase = "none" => walk = "off"
  /\ walk = "off" => visited = {}
  /\ walk = "at" =>
       /\ \A p \in visited : p <= it.pos
       /\ \A p \in Slots(mp) : p <= it.pos /\ mp.entries[p].value_handle \in live => p \in visited
  /\ IterationComplete

Sound ==
  walk' = "at" /\ visited' # {} /\ it' # it =>
    it'.pos \notin visited /\ mp.entries[it'.pos].value_handle = it'.value_handle

LEMMA FirstStep ==
  ASSUME IInv, WalkInv, IterFirst
  PROVE  WalkInv' /\ Sound
<1> DEFINE i == map_first_value_iter(mp, live)
<1>1. mp.table_size \in Nat \ {0} /\ live \subseteq Handle /\ visited = {} /\ phase = "made"
  BY DEF IInv, MapInv, MapOK, TypeOK, WalkInv, IterFirst
<1>2. \/ /\ i = DoneIter
         /\ \A p \in Slots(mp) : mp.entries[p].value_handle \notin live
      \/ /\ AtSlot(mp, i) /\ i.value_handle \in live
         /\ \A p \in Slots(mp) : mp.entries[p].value_handle \in live => i.pos <= p
  BY <1>1, FirstIter
<1>3. /\ it' = i
      /\ walk' = IF i.value_handle \notin live THEN "done" ELSE "at"
      /\ visited' = IF i.value_handle \notin live THEN visited ELSE visited \cup {i.pos}
      /\ mp' = mp /\ live' = live /\ phase' = phase
  BY DEF IterFirst, Arrive, map_iter_done
<1> HIDE DEF i
<1>4. CASE i = DoneIter /\ \A p \in Slots(mp) : mp.entries[p].value_handle \notin live
  <2>1. i.value_handle \notin live
    BY <1>1, <1>4, MapAssumption DEF DoneIter
  <2> QED BY <1>1, <1>3, <1>4, <2>1 DEF WalkInv, IterationComplete, Sound
<1>5. CASE /\ AtSlot(mp, i) /\ i.value_handle \in live
           /\ \A p \in Slots(mp) : mp.entries[p].value_handle \in live => i.pos <= p
  <2>1. i.pos \in Int /\ Slots(mp) \subseteq Int /\ mp.entries[i.pos].value_handle = i.value_handle
    BY <1>1, <1>5 DEF AtSlot, Slots
  <2>2. walk' = "at" /\ visited' = {i.pos}
    BY <1>1, <1>3, <1>5
  <2>3. \A p \in Slots(mp) : p <= i.pos /\ mp.entries[p].value_handle \in live => p = i.pos
    BY <1>5, <2>1
  <2> QED BY <1>1, <1>3, <2>1, <2>2, <2>3 DEF WalkInv, IterationComplete, Sound
<1> QED BY <1>2, <1>4, <1>5

LEMMA NextStep ==
  ASSUME IInv, WalkInv, IterNext
  PROVE  WalkInv' /\ Sound
<1> DEFINE i == map_next_value_iter(mp, it, live)
<1>1. /\ mp.table_size \in Nat \ {0} /\ live \subseteq Handle /\ walk = "at" /\ it.pos \in Int
      /\ Slots(mp) \subseteq Int /\ visited \subseteq Int /\ phase # "none"
      /\ \A p \in visited : p <= it.pos
      /\ \A p \in Slots(mp) : p <= it.pos /\ mp.entries[p].value_handle \in live => p \in visited
  BY DEF IInv, MapInv, MapOK, TypeOK, WalkInv, IterNext, Slots
<1>2. \/ /\ i = DoneIter
         /\ \A p \in Slots(mp) : p > it.pos => mp.entries[p].value_handle \notin live
      \/ /\ AtSlot(mp, i) /\ i.pos > it.pos /\ i.value_handle \in live
         /\ \A p \in Slots(mp) :
              p > it.pos /\ mp.entries[p].value_handle \in live => i.pos <= p
  BY <1>1, NextIter
<1>3. /\ it' = i
      /\ walk' = IF i.value_handle \notin live THEN "done" ELSE "at"
      /\ visited' = IF i.value_handle \notin live THEN visited ELSE visited \cup {i.pos}
      /\ mp' = mp /\ live' = live /\ phase' = phase
  BY DEF IterNext, Arrive, map_iter_done
<1> HIDE DEF i
<1>4. CASE /\ i = DoneIter
           /\ \A p \in Slots(mp) : p > it.pos => mp.entries[p].value_handle \notin live
  <2>1. i.value_handle \notin live
    BY <1>1, <1>4, MapAssumption DEF DoneIter
  <2>2. \A p \in Slots(mp) : mp.entries[p].value_handle \in live => p \in visited
    BY <1>1, <1>4
  <2> QED BY <1>1, <1>3, <2>1, <2>2 DEF WalkInv, IterationComplete, Sound
<1>5. CASE /\ AtSlot(mp, i) /\ i.pos > it.pos /\ i.value_handle \in live
           /\ \A p \in Slots(mp) :
                p > it.pos /\ mp.entries[p].value_handle \in live => i.pos <= p
  <2>1. i.pos \in Int /\ mp.entries[i.pos].value_handle = i.value_handle
    BY <1>1, <1>5 DEF AtSlot, Slots
  <2>2. walk' = "at" /\ visited' = visited \cup {i.pos}
    BY <1>3, <1>5
  <2>3. \A p \in Slots(mp) : p <= i.pos /\ mp.entries[p].value_handle \in live =>
                              p \in visited \cup {i.pos}
    BY <1>1, <1>5, <2>1
  <2>4. \A p \in visited \cup {i.pos} : p <= i.pos
    BY <1>1, <1>5, <2>1
  <2>5. i.pos \notin visited
    BY <1>1, <1>5, <2>1
  <2> QED BY <1>1, <1>3, <2>1, <2>2, <2>3, <2>4, <2>5 DEF WalkInv, IterationComplete, Sound
<1> QED BY <1>2, <1>4, <1>5

LEMMA NextWalk ==
  ASSUME IInv, WalkInv, [Next]_vars
  PROVE  WalkInv' /\ Sound
<1>1. CASE Create \/ Destroy
  BY <1>1 DEF Create, Destroy, WalkInv, IterationComplete, Sound
<1>2. ASSUME NEW k \in Key, NEW v \in Handle, NEW can_alloc \in BOOLEAN, Set(k, v, can_alloc)
      PROVE  WalkInv' /\ Sound
  BY <1>2 DEF Set, DropIter, WalkInv, IterationComplete, Sound
<1>3. ASSUME NEW k \in Key, NEW can_alloc \in BOOLEAN, Delete(k, can_alloc)
      PROVE  WalkInv' /\ Sound
  BY <1>3 DEF Delete, DropIter, WalkInv, IterationComplete, Sound
<1>4. ASSUME NEW v \in Releasable, Release(v)
      PROVE  WalkInv' /\ Sound
  BY <1>4 DEF Release, WalkInv, IterationComplete, Sound, Slots
<1>5. ASSUME \/ \E k \in Key, v \in Handle \cup {NoHandle} : Refuse(k, v)
             \/ UNCHANGED vars
      PROVE  WalkInv' /\ Sound
  BY <1>5 DEF Refuse, vars, WalkInv, IterationComplete, Sound, Slots
<1> QED BY <1>1, <1>2, <1>3, <1>4, <1>5, FirstStep, NextStep DEF Next

LEMMA InitWalk == Init => WalkInv
BY DEF Init, WalkInv, IterationComplete

\* A finished loop over the map has delivered every entry still usable, though
\* its body frees what it is given (map.c 241-268).
THEOREM WalksAll == Spec => []IterationComplete
<1>1. WalkInv => IterationComplete
  BY DEF WalkInv
<1> QED BY <1>1, InitWalk, InitIInv, NextIInv, NextWalk, PTL DEF Spec

\* No loop delivers a slot twice, or a value the slot does not have.
THEOREM WalksOnce == Spec => IterationSound
<1>1. IInv /\ WalkInv /\ [Next]_vars => [Sound]_vars
  BY NextWalk
<1> QED BY <1>1, InitWalk, InitIInv, NextIInv, NextWalk, PTL DEF Spec, IterationSound, Sound
=============================================================================
