---------------------------- MODULE MemtblProofs ----------------------------
(***************************************************************************)
(* Proofs about module Memtbl, for every set of addresses, hash function,  *)
(* table size and failure, and as long as the write to a freed table is    *)
(* lost (StrayWords is empty).                                             *)
(*                                                                         *)
(* Whatever the map loses, an entry that is left names the block its hash  *)
(* belongs to.  When moreover every address has a home slot of its own and *)
(* the map never has to grow, the table is the Registry of its live blocks.*)
(***************************************************************************)
EXTENDS Memtbl, DataProofs

EntryOf(a) == [key_hash |-> Hash[a], value_handle |-> a]

BlockEntry == {EmptyEntry} \cup {EntryOf(a) : a \in Addr}

NoStray == StrayWords = {}

Faults == {"bad_free", "null_access"}

MpInv == TableInv(mp, BlockEntry) /\ mp.entry_count <= MaxCount

SafeInv ==
  /\ phase \in {"none", "open", "closing"}
  /\ MpInv
  /\ heap \subseteq Addr /\ held \subseteq Addr /\ due \subseteq Addr
  /\ it \in [pos : Nat, value_handle : Addr \cup {NULL}]
  /\ fault \subseteq Faults
  /\ HashesApart => held \subseteq heap
  /\ phase = "closing" => held = {}

-----------------------------------------------------------------------------
LEMMA BlockEntries == NoStray => TableEntries(BlockEntry)
BY BlockMapAssumption DEF NoStray, TableEntries, BlockEntry, EntryOf, EmptyEntry

LEMMA AddressEntry ==
  ASSUME NEW a \in Addr
  PROVE  Hash[a] \in Nat /\ [key_hash |-> Hash[a], value_handle |-> a] \in BlockEntry
BY BlockMapAssumption DEF BlockEntry, EntryOf

\* An address resolves to itself, unless hashes collide.
LEMMA Resolves ==
  ASSUME NEW m, TableInv(m, BlockEntry), NEW a \in Addr
  PROVE  /\ memtbl_p(m, a) \in Addr \cup {NULL}
         /\ HashesApart => memtbl_p(m, a) \in {a, NULL}
<1> DEFINE pos == find_entry_pos(m, Hash[a])
           e == m.entries[pos]
<1>1. m.table_size \in Nat \ {0} /\ HalfFull(m) /\ Hash[a] \in Nat
  BY AddressEntry DEF TableInv, TableOK
<1>2. pos \in Slots(m) /\ e.key_hash \in {Hash[a], 0}
  BY <1>1, FindEntryPos
<1>3. e \in BlockEntry
  BY <1>2 DEF TableInv, TableOK
<1>4. memtbl_p(m, a) = IF e.key_hash = 0 THEN NULL ELSE e.value_handle
  BY DEF memtbl_p, do_get, NULL
<1> HIDE DEF pos, e
<1>5. CASE e.key_hash = 0
  BY <1>4, <1>5
<1>6. CASE e.key_hash # 0
  <2>1. PICK b \in Addr : e = EntryOf(b)
    BY <1>3, <1>6 DEF BlockEntry, EmptyEntry
  <2>2. memtbl_p(m, a) = b /\ Hash[b] = Hash[a]
    BY <1>2, <1>4, <1>6, <2>1 DEF EntryOf
  <2> QED BY <2>2 DEF HashesApart
<1> QED BY <1>5, <1>6

LEMMA KeyHashed ==
  ASSUME NEW p \in Addr \cup {NULL}
  PROVE  hash_ptr(p) \in Nat
BY BlockMapAssumption DEF hash_ptr

LEMMA EmptyTableInv ==
  ASSUME NoStray
  PROVE  TableInv(EmptyMap, BlockEntry) /\ EmptyMap.entry_count = 0
BY EmptyTable DEF BlockEntry

LEMMA IterType ==
  ASSUME NEW m, TableInv(m, BlockEntry), NEW j, NEW S \in SUBSET Addr
  PROVE  /\ map_next_value_iter(m, j, S) \in [pos : Nat, value_handle : Addr \cup {NULL}]
         /\ map_first_value_iter(m, S) \in [pos : Nat, value_handle : Addr \cup {NULL}]
<1>1. m.table_size \in Nat \ {0}
  BY DEF TableInv, TableOK
<1>2. [pos : Nat, value_handle : S \cup {NoHandle}] \subseteq [pos : Nat, value_handle : Addr \cup {NULL}]
  BY DEF NULL
<1> QED BY <1>1, <1>2, IterFrom

-----------------------------------------------------------------------------
\* The map after a set of an address and after a delete.
LEMMA SetMp ==
  ASSUME NoStray, NEW m, TableInv(m, BlockEntry), m.entry_count < MaxCount,
         NEW a \in Addr, NEW can_alloc \in BOOLEAN,
         NEW o \in do_set(m, Hash[a], a, can_alloc)
  PROVE  TableInv(o.map, BlockEntry) /\ o.map.entry_count <= MaxCount /\ o.ret \in BOOLEAN
<1>1. /\ TableInv(o.map, BlockEntry) /\ o.ret \in BOOLEAN
      /\ o.map.entry_count <= m.entry_count + 1
  BY BlockEntries, AddressEntry, SetKeepsTable
<1>2. m.entry_count \in Nat /\ o.map.entry_count \in Nat /\ MaxCount \in Nat
  BY <1>1, BlockMapAssumption DEF TableInv, TableOK
<1> QED BY <1>1, <1>2

LEMMA DeleteMp ==
  ASSUME NoStray, NEW m, TableInv(m, BlockEntry), m.entry_count <= MaxCount,
         NEW p \in Addr \cup {NULL}, NEW can_alloc \in BOOLEAN,
         NEW o \in do_delete(m, hash_ptr(p), can_alloc)
  PROVE  TableInv(o.map, BlockEntry) /\ o.map.entry_count <= MaxCount /\ o.ret \in BOOLEAN
<1>1. /\ TableInv(o.map, BlockEntry) /\ o.ret \in BOOLEAN
      /\ o.map.entry_count <= m.entry_count
  BY BlockEntries, KeyHashed, DeleteKeepsTable
<1>2. m.entry_count \in Nat /\ o.map.entry_count \in Nat /\ MaxCount \in Nat
  BY <1>1, BlockMapAssumption DEF TableInv, TableOK
<1> QED BY <1>1, <1>2

-----------------------------------------------------------------------------
LEMMA InitSafeInv ==
  ASSUME NoStray, Init
  PROVE  SafeInv
<1>1. MpInv
  BY EmptyTableInv, BlockMapAssumption DEF Init, MpInv
<1>2. it \in [pos : Nat, value_handle : Addr \cup {NULL}]
  BY DEF Init, DoneIter, NULL
<1> QED BY <1>1, <1>2 DEF Init, SafeInv

LEMMA CreateSafeInv ==
  ASSUME NoStray, SafeInv, memtbl_create
  PROVE  SafeInv'
<1>1. MpInv'
  BY EmptyTableInv, BlockMapAssumption DEF memtbl_create, MpInv
<1> QED BY <1>1 DEF memtbl_create, SafeInv

LEMMA AllocatesSafeInv ==
  ASSUME NoStray, SafeInv, NEW a \in Addr, NEW used, NEW can_alloc \in BOOLEAN,
         Allocates(a, used, can_alloc)
  PROVE  SafeInv'
<1>1. PICK o \in do_set(mp, Hash[a], a, can_alloc) :
        /\ mp' = o.map
        /\ heap' = IF o.ret THEN heap \cup {a} ELSE heap
        /\ held' = IF o.ret THEN held \cup {a} ELSE held
        /\ fault' \in {fault, fault \cup {"null_access"}}
  BY DEF Allocates
<1>2. MpInv'
  <2>1. mp.entry_count < MaxCount /\ TableInv(mp, BlockEntry)
    BY DEF Allocates, SafeInv, MpInv
  <2>2. TableInv(o.map, BlockEntry) /\ o.map.entry_count <= MaxCount
    BY <2>1, SetMp
  <2> QED BY <1>1, <2>2 DEF MpInv
<1>3. heap' \subseteq Addr /\ held' \subseteq Addr /\ (HashesApart => held' \subseteq heap')
  BY <1>1 DEF SafeInv
<1>4. fault' \subseteq Faults
  BY <1>1 DEF SafeInv, Faults
<1> QED BY <1>2, <1>3, <1>4 DEF Allocates, SafeInv

LEMMA ReallocInPlaceSafeInv ==
  ASSUME SafeInv, NEW h \in held, ReallocInPlace(h)
  PROVE  SafeInv'
<1> DEFINE old == memtbl_p(mp, h)
<1>1. h \in Addr /\ old \in Addr \cup {NULL} /\ (HashesApart => old \in {h, NULL})
  BY Resolves DEF SafeInv, MpInv
<1>2. /\ old # NULL /\ held' = (held \ {h}) \cup {old}
      /\ fault' = IF old \in heap THEN fault ELSE fault \cup {"bad_free"}
      /\ UNCHANGED <<phase, mp, heap, it, due>>
  BY DEF ReallocInPlace
<1> HIDE DEF old
<1>3. held' \subseteq Addr /\ (HashesApart => held' \subseteq heap')
  BY <1>1, <1>2 DEF SafeInv
<1>4. fault' \subseteq Faults
  BY <1>2 DEF SafeInv, Faults
<1> QED BY <1>2, <1>3, <1>4 DEF SafeInv, MpInv

LEMMA ReallocMovesSafeInv ==
  ASSUME NoStray, SafeInv, NEW h \in held, NEW n \in Addr,
         NEW can_grow \in BOOLEAN, NEW can_shrink \in BOOLEAN,
         ReallocMoves(h, n, can_grow, can_shrink)
  PROVE  SafeInv'
<1> DEFINE old == memtbl_p(mp, h)
<1>1. h \in Addr /\ old \in Addr \cup {NULL} /\ (HashesApart => old \in {h, NULL})
  BY Resolves DEF SafeInv, MpInv
<1>2. PICK o \in do_set(mp, Hash[n], n, can_grow) :
        \E d \in IF o.ret THEN do_delete(o.map, hash_ptr(old), can_shrink) ELSE {o} :
          /\ mp' = d.map
          /\ heap' = (heap \ {old}) \cup (IF d.ret THEN {n} ELSE {})
          /\ held' = (held \ {h}) \cup (IF d.ret THEN {n} ELSE {})
  BY DEF ReallocMoves
<1>3. PICK d \in IF o.ret THEN do_delete(o.map, hash_ptr(old), can_shrink) ELSE {o} :
        /\ mp' = d.map
        /\ heap' = (heap \ {old}) \cup (IF d.ret THEN {n} ELSE {})
        /\ held' = (held \ {h}) \cup (IF d.ret THEN {n} ELSE {})
  BY <1>2
<1>4. fault' \subseteq Faults
  BY DEF ReallocMoves, SafeInv, Faults
<1>5. UNCHANGED <<phase, it, due>>
  BY DEF ReallocMoves
<1> HIDE DEF old
<1>6. MpInv'
  <2>1. mp.entry_count < MaxCount /\ TableInv(mp, BlockEntry)
    BY DEF ReallocMoves, SafeInv, MpInv
  <2>2. TableInv(o.map, BlockEntry) /\ o.map.entry_count <= MaxCount
    BY <2>1, SetMp
  <2>3. TableInv(d.map, BlockEntry) /\ d.map.entry_count <= MaxCount
    <3>1. CASE o.ret
      BY <1>1, <1>3, <2>2, <3>1, DeleteMp
    <3>2. CASE ~o.ret
      BY <1>3, <2>2, <3>2
    <3> QED BY <3>1, <3>2
  <2> QED BY <1>3, <2>3 DEF MpInv
<1>7. heap' \subseteq Addr /\ held' \subseteq Addr
  BY <1>3 DEF SafeInv
<1>8. HashesApart => held' \subseteq heap'
  BY <1>1, <1>3, BlockMapAssumption DEF SafeInv, NULL
<1> QED BY <1>4, <1>5, <1>6, <1>7, <1>8 DEF SafeInv

\* The body of memtbl_free, for a handle that may have been lost.
LEMMA UnregisterMp ==
  ASSUME NoStray, SafeInv, NEW a \in Addr, NEW can_alloc \in BOOLEAN,
         Unregister(a, can_alloc)
  PROVE  /\ MpInv' /\ heap' = heap \ {memtbl_p(mp, a)}
         /\ fault' \in {fault, fault \cup {"bad_free"}}
         /\ memtbl_p(mp, a) \in Addr \cup {NULL}
         /\ HashesApart => memtbl_p(mp, a) \in {a, NULL}
<1> DEFINE data == memtbl_p(mp, a)
<1>1. data \in Addr \cup {NULL} /\ (HashesApart => data \in {a, NULL})
  BY Resolves DEF SafeInv, MpInv
<1>2. /\ \E d \in do_delete(mp, hash_ptr(data), can_alloc) : mp' = d.map
      /\ free(data, heap)
  BY DEF Unregister
<1> HIDE DEF data
<1>3. MpInv'
  BY <1>1, <1>2, DeleteMp DEF SafeInv, MpInv
<1>4. heap' = heap \ {data} /\ fault' \in {fault, fault \cup {"bad_free"}}
  BY <1>2 DEF free
<1> QED BY <1>1, <1>3, <1>4 DEF data

LEMMA FreeSafeInv ==
  ASSUME NoStray, SafeInv, NEW h \in held, NEW can_alloc \in BOOLEAN,
         memtbl_free(h, can_alloc)
  PROVE  SafeInv'
<1>1. h \in Addr /\ Unregister(h, can_alloc)
  BY DEF SafeInv, memtbl_free
<1>2. /\ MpInv' /\ heap' = heap \ {memtbl_p(mp, h)}
      /\ fault' \in {fault, fault \cup {"bad_free"}}
      /\ HashesApart => memtbl_p(mp, h) \in {h, NULL}
  BY <1>1, UnregisterMp
<1>3. held' = held \ {h} /\ UNCHANGED <<phase, it, due>>
  BY DEF memtbl_free
<1>4. HashesApart => held' \subseteq heap'
  BY <1>2, <1>3, BlockMapAssumption DEF SafeInv, NULL
<1>5. fault' \subseteq Faults
  BY <1>2 DEF SafeInv, Faults
<1> QED BY <1>2, <1>3, <1>4, <1>5 DEF SafeInv

LEMMA DestroyBeginSafeInv ==
  ASSUME SafeInv, DestroyBegin
  PROVE  SafeInv'
<1>1. it' \in [pos : Nat, value_handle : Addr \cup {NULL}]
  BY IterType DEF DestroyBegin, SafeInv, MpInv, Resolvable
<1> QED BY <1>1 DEF DestroyBegin, SafeInv, MpInv

LEMMA DestroyStepSafeInv ==
  ASSUME NoStray, SafeInv, NEW can_alloc \in BOOLEAN, DestroyStep(can_alloc)
  PROVE  SafeInv'
<1>1. it.value_handle \in Addr /\ Unregister(it.value_handle, can_alloc)
  BY DEF DestroyStep, map_iter_done, Resolvable
<1>2. /\ MpInv' /\ heap' \subseteq heap
      /\ fault' \in {fault, fault \cup {"bad_free"}}
  BY <1>1, UnregisterMp
<1>3. it' \in [pos : Nat, value_handle : Addr \cup {NULL}]
  <2>1. it' = map_next_value_iter(mp', it, Resolvable(mp'))
    BY DEF DestroyStep
  <2>2. Resolvable(mp') \in SUBSET Addr
    BY DEF Resolvable
  <2> QED BY <1>2, <2>1, <2>2, IterType DEF MpInv
<1>4. fault' \subseteq Faults
  BY <1>2 DEF SafeInv, Faults
<1> QED BY <1>2, <1>3, <1>4 DEF DestroyStep, SafeInv

LEMMA NextSafeInv ==
  ASSUME NoStray, SafeInv, [Next]_vars
  PROVE  SafeInv'
<1>1. CASE memtbl_create
  BY <1>1, CreateSafeInv
<1>2. CASE \E a \in Addr, can_alloc \in BOOLEAN :
             \/ mem_alloc(a, can_alloc) \/ mem_alloc_clear(a, can_alloc)
             \/ \E h \in held : mem_duplicate(h, a, can_alloc)
  BY <1>2, AllocatesSafeInv DEF mem_alloc, mem_alloc_clear, mem_duplicate
<1>3. ASSUME NEW h \in held, ReallocFails(h)
      PROVE  SafeInv'
  BY <1>3 DEF ReallocFails, SafeInv, MpInv
<1>4. CASE \E h \in held : ReallocFails(h) \/ ReallocInPlace(h)
  BY <1>3, <1>4, ReallocInPlaceSafeInv
<1>5. CASE \E h \in held, n \in Addr, can_grow, can_shrink \in BOOLEAN :
             ReallocMoves(h, n, can_grow, can_shrink)
  BY <1>5, ReallocMovesSafeInv
<1>6. CASE \E h \in held, can_alloc \in BOOLEAN : memtbl_free(h, can_alloc)
  BY <1>6, FreeSafeInv
<1>7. CASE DestroyBegin
  BY <1>7, DestroyBeginSafeInv
<1>8. CASE \E can_alloc \in BOOLEAN : DestroyStep(can_alloc)
  BY <1>8, DestroyStepSafeInv
<1>9. CASE DestroyEnd
  <2>1. MpInv'
    BY <1>9, EmptyTableInv, BlockMapAssumption DEF DestroyEnd, MpInv
  <2>2. it' \in [pos : Nat, value_handle : Addr \cup {NULL}]
    BY <1>9 DEF DestroyEnd, DoneIter, NULL
  <2> QED BY <1>9, <2>1, <2>2 DEF DestroyEnd, SafeInv
<1>10. CASE UNCHANGED vars
  BY <1>10 DEF vars, SafeInv, MpInv
<1> QED
  BY <1>1, <1>2, <1>4, <1>5, <1>6, <1>7, <1>8, <1>9, <1>10 DEF Next, Destroying

LEMMA SafeInvAlways ==
  ASSUME NoStray
  PROVE  Spec => []SafeInv
BY InitSafeInv, NextSafeInv, PTL DEF Spec

-----------------------------------------------------------------------------
\* Every entry of the map is the handle of an address under that address's hash,
\* through growing, shrinking and reallocation (memtbl.c 35-78).
THEOREM MemtblTypeCorrect ==
  ASSUME NoStray
  PROVE  Spec => []TypeOK
<1>1. SafeInv => TypeOK
  <2> SUFFICES ASSUME SafeInv PROVE TypeOK
    OBVIOUS
  <2>1. mp.entry_count \in 0 .. MaxCount
    BY BlockMapAssumption DEF SafeInv, MpInv, TableInv, TableOK
  <2>2. \A e \in BlockEntry : e.key_hash \in Nat /\ e.value_handle \in Addr \cup {NULL}
    BY BlockMapAssumption DEF BlockEntry, EntryOf, EmptyEntry, NULL
  <2>3. \A p \in Slots(mp) : mp.entries[p] \in BlockEntry
    BY DEF SafeInv, MpInv, TableInv, TableOK
  <2> QED BY <2>1, <2>2, <2>3 DEF SafeInv, TypeOK, Faults
<1> QED BY <1>1, SafeInvAlways, PTL

\* mem_p of a handle never gives another block (memtbl.c 80-88), even right
\* after a reallocation has freed an address that malloc hands out again.
THEOREM NeverAnotherBlock ==
  ASSUME NoStray
  PROVE  Spec => []ResolvesToSelf
<1>1. SafeInv => ResolvesToSelf
  BY Resolves DEF SafeInv, MpInv, ResolvesToSelf
<1> QED BY <1>1, SafeInvAlways, PTL

\* No call frees a block whose handle the client still has (memtbl.c 49-78),
\* whatever entries the map has lost and whichever allocation fails.
THEOREM HeldBlocksLive ==
  ASSUME NoStray
  PROVE  Spec => []HeldNeverFreed
<1>1. SafeInv => HeldNeverFreed
  BY DEF SafeInv, HeldNeverFreed
<1> QED BY <1>1, SafeInvAlways, PTL

-----------------------------------------------------------------------------
(* The condition under which the table is exact: every address has a home  *)
(* slot of its own, and all of them together never make the map grow.      *)
Home(a) == Hash[a] % INITIAL_TABLE_SIZE

HomesApart ==
  /\ HashesApart
  /\ \A a, b \in Addr : a # b => Home(a) # Home(b)
  /\ IsFiniteSet(Addr) /\ Cardinality(Addr) <= INITIAL_TABLE_SIZE \div 2

\* The map m registers the blocks h, each in its home slot.
Registers(m, h) ==
  /\ m = [entry_count |-> Cardinality(h), table_size |-> INITIAL_TABLE_SIZE,
          entries |-> m.entries]
  /\ m.entries \in [0 .. INITIAL_TABLE_SIZE - 1 -> BlockEntry]
  /\ \A a \in h : m.entries[Home(a)] = EntryOf(a)
  /\ \A p \in 0 .. INITIAL_TABLE_SIZE - 1 :
       m.entries[p] = EmptyEntry \/ \E a \in h : p = Home(a)

LEMMA HomeSlot ==
  ASSUME NEW a \in Addr
  PROVE  /\ Hash[a] \in Nat /\ Home(a) \in 0 .. INITIAL_TABLE_SIZE - 1
         /\ HashesApart => Hash[a] # 0 /\ hash_ptr(a) = Hash[a]
<1>1. Hash[a] \in Nat /\ INITIAL_TABLE_SIZE \in Nat \ {0}
  BY BlockMapAssumption, MapTableAssumption
<1>2. Home(a) \in 0 .. INITIAL_TABLE_SIZE - 1
  BY <1>1 DEF Home
<1> QED BY <1>1, <1>2, BlockMapAssumption DEF HashesApart, hash_ptr, NULL

LEMMA BlocksFinite ==
  ASSUME HomesApart, NEW h \in SUBSET Addr
  PROVE  /\ IsFiniteSet(h) /\ Cardinality(h) \in Nat
         /\ Cardinality(h) <= INITIAL_TABLE_SIZE \div 2
<1>1. IsFiniteSet(h) /\ Cardinality(h) <= Cardinality(Addr)
  BY FS_Subset DEF HomesApart
<1>2. Cardinality(h) \in Nat /\ Cardinality(Addr) \in Nat
  BY <1>1, FS_CardinalityType DEF HomesApart
<1>3. INITIAL_TABLE_SIZE \div 2 \in Nat
  BY MapTableAssumption
<1> QED BY <1>1, <1>2, <1>3 DEF HomesApart

\* A probe for an address stops at its home slot, and finds it exactly if the
\* block is registered.
LEMMA ProbeHome ==
  ASSUME HomesApart, NEW h \in SUBSET Addr, NEW m, Registers(m, h), NEW a \in Addr
  PROVE  /\ find_entry_pos(m, Hash[a]) = Home(a)
         /\ m.entries[Home(a)] = IF a \in h THEN EntryOf(a) ELSE EmptyEntry
         /\ memtbl_p(m, a) = IF a \in h THEN a ELSE NULL
<1> DEFINE n == INITIAL_TABLE_SIZE
<1>1. /\ m.table_size = n /\ n \in Nat \ {0} /\ Hash[a] \in Nat /\ Hash[a] # 0
      /\ Home(a) \in 0 .. n - 1 /\ Home(a) = Hash[a] % m.table_size
  BY HomeSlot, MapTableAssumption DEF Registers, HomesApart, Home
<1> HIDE DEF n
<1>2. m.entries[Home(a)] = IF a \in h THEN EntryOf(a) ELSE EmptyEntry
  <2>1. CASE a \in h
    BY <2>1 DEF Registers
  <2>2. CASE a \notin h
    <3>1. ~ \E b \in h : Home(a) = Home(b)
      BY <2>2 DEF HomesApart
    <3> QED BY <1>1, <2>2, <3>1 DEF Registers, n
  <2> QED BY <2>1, <2>2
<1>3. m.entries[Home(a)].key_hash \in {Hash[a], 0}
  BY <1>2 DEF EntryOf, EmptyEntry
<1>4. 0 \in Slots(m) /\ Probe(m.table_size, Hash[a] % m.table_size, 0) = Home(a)
  BY <1>1 DEF Slots, Probe
<1>5. 0 \in Stops(m, Hash[a])
  BY <1>3, <1>4 DEF Stops
<1>6. Stops(m, Hash[a]) \in SUBSET Nat
  BY <1>1 DEF Stops, Slots
<1>7. Min(Stops(m, Hash[a])) = 0
  BY <1>5, <1>6, MinNat
<1>8. find_entry_pos(m, Hash[a]) = Home(a)
  BY <1>4, <1>5, <1>7 DEF find_entry_pos
<1>9. memtbl_p(m, a) = IF a \in h THEN a ELSE NULL
  BY <1>1, <1>2, <1>8 DEF memtbl_p, do_get, EntryOf, EmptyEntry, NULL
<1> QED BY <1>2, <1>8, <1>9

LEMMA EmptyRegisters == Registers(EmptyMap, {})
<1>1. /\ EmptyMap.table_size = INITIAL_TABLE_SIZE /\ EmptyMap.entry_count = 0
      /\ EmptyMap.entries = Cleared(INITIAL_TABLE_SIZE)
      /\ Cardinality({}) = 0
  BY FS_EmptySet DEF EmptyMap
<1> QED BY <1>1 DEF Registers, EmptyMap, Cleared, BlockEntry

\* A set registers one more block, without a resize.
LEMMA SetRegisters ==
  ASSUME HomesApart, NEW h \in SUBSET Addr, NEW m, Registers(m, h), NEW a \in Addr, a \notin h,
         NEW can_alloc \in BOOLEAN, NEW o \in do_set(m, Hash[a], a, can_alloc)
  PROVE  o.ret = TRUE /\ Registers(o.map, h \cup {a})
<1> DEFINE n == INITIAL_TABLE_SIZE
           pos == find_entry_pos(m, Hash[a])
           w == Stored(Counted(m), pos, Hash[a], a)
           es == [m.entries EXCEPT ![Home(a)] = EntryOf(a)]
<1>1. pos = Home(a) /\ m.entries[Home(a)] = EmptyEntry
  BY ProbeHome
<1>2. Home(a) \in 0 .. n - 1 /\ n \in Nat \ {0}
  BY HomeSlot, MapTableAssumption
<1>3. /\ Cardinality(h \cup {a}) = Cardinality(h) + 1
      /\ Cardinality(h) \in Nat /\ Cardinality(h) + 1 <= n \div 2
  <2>1. IsFiniteSet(h) /\ Cardinality(h) \in Nat /\ h \cup {a} \in SUBSET Addr
    BY BlocksFinite
  <2>2. Cardinality(h \cup {a}) = Cardinality(h) + 1
    BY <2>1, FS_AddElement
  <2>3. Cardinality(h \cup {a}) <= n \div 2
    BY <2>1, BlocksFinite
  <2> QED BY <2>1, <2>2, <2>3
<1>4. m.entry_count = Cardinality(h) /\ m.table_size = n
  BY DEF Registers
<1>5. Counted(m) = [entry_count |-> Cardinality(h) + 1, table_size |-> n, entries |-> m.entries]
  BY DEF Registers, Counted
<1>6. IsFree(m, pos) /\ ~NeedsGrowth(Counted(m))
  <2>1. IsFree(m, pos)
    BY <1>1 DEF IsFree, EmptyEntry
  <2>2. ~(Cardinality(h) + 1 > n \div 2)
    BY <1>2, <1>3
  <2> HIDE DEF n
  <2> QED BY <1>5, <2>1, <2>2 DEF NeedsGrowth
<1>7. o = Outcome(w, TRUE, "no")
  <2> HIDE DEF w
  <2> QED BY <1>6 DEF do_set, w
<1>8. w = [entry_count |-> Cardinality(h) + 1, table_size |-> n, entries |-> es]
  BY <1>1, <1>5 DEF Stored, EntryOf
<1>9. /\ es \in [0 .. n - 1 -> BlockEntry]
      /\ es[Home(a)] = EntryOf(a)
      /\ \A p \in 0 .. n - 1 : p # Home(a) => es[p] = m.entries[p]
  BY <1>2 DEF Registers, BlockEntry
<1> HIDE DEF es, w
<1>10. \A b \in h : Home(b) # Home(a) /\ Home(b) \in 0 .. n - 1
  BY HomeSlot DEF HomesApart
<1>11. Registers(w, h \cup {a})
  BY <1>2, <1>3, <1>8, <1>9, <1>10 DEF Registers
<1> QED BY <1>7, <1>11 DEF Outcome

\* A delete takes the block out, without a resize.
LEMMA DeleteRegisters ==
  ASSUME HomesApart, NEW h \in SUBSET Addr, NEW m, Registers(m, h), NEW a \in h,
         NEW can_alloc \in BOOLEAN, NEW o \in do_delete(m, hash_ptr(a), can_alloc)
  PROVE  o.ret = TRUE /\ Registers(o.map, h \ {a})
<1> DEFINE n == INITIAL_TABLE_SIZE
           pos == find_entry_pos(m, Hash[a])
           w == Emptied(m, pos)
           es == [m.entries EXCEPT ![Home(a)] = EmptyEntry]
<1>1. pos = Home(a) /\ m.entries[Home(a)] = EntryOf(a) /\ a \in Addr
  BY ProbeHome
<1>2. /\ Home(a) \in 0 .. n - 1 /\ n \in Nat \ {0}
      /\ Hash[a] # 0 /\ hash_ptr(a) = Hash[a]
  BY HomeSlot, MapTableAssumption DEF HomesApart
<1>3. Cardinality(h \ {a}) = Cardinality(h) - 1
  BY BlocksFinite, FS_RemoveElement
<1>4. w = [entry_count |-> Cardinality(h) - 1, table_size |-> n, entries |-> es]
  BY <1>1 DEF Emptied, Registers
<1>5. /\ es \in [0 .. n - 1 -> BlockEntry]
      /\ es[Home(a)] = EmptyEntry
      /\ \A p \in 0 .. n - 1 : p # Home(a) => es[p] = m.entries[p]
  BY <1>2 DEF Registers, BlockEntry
<1>6. ~IsFree(m, pos)
  BY <1>1, <1>2 DEF IsFree, EntryOf
<1> HIDE DEF es
<1>7. ~NeedsShrink(w)
  BY <1>2, <1>4 DEF NeedsShrink
<1> HIDE DEF w
<1>8. o = Outcome(w, TRUE, "no")
  BY <1>2, <1>6, <1>7 DEF do_delete, w
<1>9. \A b \in h \ {a} : Home(b) # Home(a) /\ Home(b) \in 0 .. n - 1
  BY HomeSlot DEF HomesApart
<1>10. Registers(w, h \ {a})
  BY <1>2, <1>3, <1>4, <1>5, <1>9 DEF Registers
<1> QED BY <1>8, <1>10 DEF Outcome

-----------------------------------------------------------------------------
\* The iterator of memtbl_destroy is at the first block that is left, or at none.
IterAtFirst ==
  \/ heap = {} /\ it.value_handle = NULL
  \/ /\ it.value_handle \in heap /\ it.pos = Home(it.value_handle)
     /\ \A a \in heap : it.pos <= Home(a)

ExactInv ==
  /\ phase \in {"none", "open", "closing"}
  /\ heap \subseteq Addr /\ held \subseteq heap
  /\ Registers(mp, heap)
  /\ fault = {}
  /\ phase = "none" => heap = {}
  /\ phase = "closing" => held = {} /\ IterAtFirst

\* What the iterators of a table find that registers the blocks S.
LEMMA IterFindsFirst ==
  ASSUME HomesApart, NEW m, NEW S \in SUBSET Addr, Registers(m, S), NEW j,
         \A a \in S : j.pos < Home(a), NEW i,
         i \in {map_first_value_iter(m, S), map_next_value_iter(m, j, S)}
  PROVE  \/ S = {} /\ i.value_handle = NULL
         \/ /\ i.value_handle \in S /\ i.pos = Home(i.value_handle)
            /\ \A a \in S : i.pos <= Home(a)
<1>1. m.table_size = INITIAL_TABLE_SIZE /\ m.table_size \in Nat \ {0}
  BY MapTableAssumption DEF Registers
<1>2. \A a \in S : Home(a) \in Slots(m) /\ m.entries[Home(a)].value_handle = a
  <2> TAKE a \in S
  <2>1. Home(a) \in Slots(m)
    BY <1>1, HomeSlot DEF Slots
  <2>2. m.entries[Home(a)] = EntryOf(a)
    BY DEF Registers
  <2> QED BY <2>1, <2>2 DEF EntryOf
<1>3. \/ /\ i = DoneIter
         /\ \A a \in S : m.entries[Home(a)].value_handle \notin S
      \/ /\ AtSlot(m, i) /\ i.value_handle \in S
         /\ \A a \in S : m.entries[Home(a)].value_handle \in S => i.pos <= Home(a)
  <2>1. CASE i = map_first_value_iter(m, S)
    <3>1. \/ /\ i = DoneIter
             /\ \A p \in Slots(m) : m.entries[p].value_handle \notin S
          \/ /\ AtSlot(m, i) /\ i.value_handle \in S
             /\ \A p \in Slots(m) : m.entries[p].value_handle \in S => i.pos <= p
      BY <1>1, <2>1, FirstIter
    <3> QED BY <1>2, <3>1
  <2>2. CASE i = map_next_value_iter(m, j, S)
    <3>1. \/ /\ i = DoneIter
             /\ \A p \in Slots(m) : p > j.pos => m.entries[p].value_handle \notin S
          \/ /\ AtSlot(m, i) /\ i.pos > j.pos /\ i.value_handle \in S
             /\ \A p \in Slots(m) :
                  p > j.pos /\ m.entries[p].value_handle \in S => i.pos <= p
      BY <1>1, <2>2, NextIter
    <3>2. \A a \in S : Home(a) > j.pos
      OBVIOUS
    <3> QED BY <1>2, <3>1, <3>2
  <2> QED BY <2>1, <2>2
<1>4. CASE i = DoneIter /\ \A a \in S : m.entries[Home(a)].value_handle \notin S
  BY <1>2, <1>4 DEF DoneIter, NULL
<1>5. CASE /\ AtSlot(m, i) /\ i.value_handle \in S
           /\ \A a \in S : m.entries[Home(a)].value_handle \in S => i.pos <= Home(a)
  <2>1. i.pos \in 0 .. INITIAL_TABLE_SIZE - 1 /\ i.value_handle = m.entries[i.pos].value_handle
    BY <1>1, <1>5 DEF AtSlot, Slots
  <2>2. m.entries[i.pos] # EmptyEntry
    BY <1>5, <2>1, BlockMapAssumption DEF EmptyEntry
  <2>3. PICK a \in S : i.pos = Home(a)
    BY <2>1, <2>2 DEF Registers
  <2>4. i.value_handle = a
    BY <1>2, <2>1, <2>3
  <2> QED BY <1>2, <1>5, <2>3, <2>4
<1> QED BY <1>3, <1>4, <1>5

LEMMA ResolvableBlocks ==
  ASSUME HomesApart, NEW h \in SUBSET Addr, NEW m, Registers(m, h)
  PROVE  Resolvable(m) = h
BY ProbeHome, BlockMapAssumption DEF Resolvable, NULL

-----------------------------------------------------------------------------
LEMMA AllocatesExact ==
  ASSUME HomesApart, ExactInv, NEW a \in Addr, NEW can_alloc \in BOOLEAN,
         NEW used \in SUBSET (heap \cup {a}), Allocates(a, used, can_alloc)
  PROVE  ExactInv' /\ Reg!Allocate(a)
<1>1. PICK o \in do_set(mp, Hash[a], a, can_alloc) :
        /\ mp' = o.map
        /\ heap' = IF o.ret THEN heap \cup {a} ELSE heap
        /\ held' = IF o.ret THEN held \cup {a} ELSE held
        /\ fault' = IF o.ret /\ \E h \in used : memtbl_p(o.map, h) = NULL
                    THEN fault \cup {"null_access"} ELSE fault
  BY DEF Allocates
<1>2. phase = "open" /\ a \notin heap /\ UNCHANGED <<phase, it, due>>
  BY DEF Allocates
<1>3. o.ret = TRUE /\ Registers(o.map, heap \cup {a})
  BY <1>2, SetRegisters DEF ExactInv
<1>4. \A h \in used : memtbl_p(o.map, h) # NULL
  BY <1>3, ProbeHome, BlockMapAssumption DEF ExactInv, NULL
<1>5. heap' = heap \cup {a} /\ held' = held \cup {a} /\ fault' = fault /\ mp' = o.map
  BY <1>1, <1>3, <1>4
<1> QED BY <1>2, <1>3, <1>5 DEF ExactInv, Reg!Allocate

LEMMA ReallocInPlaceExact ==
  ASSUME HomesApart, ExactInv, NEW h \in held, ReallocInPlace(h)
  PROVE  ExactInv' /\ UNCHANGED <<phase, heap>>
<1>1. memtbl_p(mp, h) = h /\ h \in heap
  BY ProbeHome DEF ExactInv
<1>2. UNCHANGED <<phase, mp, heap, held, it, due, fault>>
  BY <1>1 DEF ReallocInPlace
<1> QED BY <1>2 DEF ExactInv, IterAtFirst

LEMMA ReallocMovesExact ==
  ASSUME HomesApart, ExactInv, NEW h \in held, NEW n \in Addr,
         NEW can_grow \in BOOLEAN, NEW can_shrink \in BOOLEAN,
         ReallocMoves(h, n, can_grow, can_shrink)
  PROVE  ExactInv' /\ Reg!Move(h, n)
<1>1. memtbl_p(mp, h) = h /\ h \in heap /\ n \notin heap /\ h \in Addr
  BY ProbeHome DEF ExactInv, ReallocMoves
<1>2. PICK o \in do_set(mp, Hash[n], n, can_grow) :
        \E d \in IF o.ret THEN do_delete(o.map, hash_ptr(h), can_shrink) ELSE {o} :
          /\ mp' = d.map
          /\ heap' = (heap \ {h}) \cup (IF d.ret THEN {n} ELSE {})
          /\ held' = (held \ {h}) \cup (IF d.ret THEN {n} ELSE {})
  BY <1>1 DEF ReallocMoves
<1>3. o.ret = TRUE /\ Registers(o.map, heap \cup {n})
  BY <1>1, SetRegisters DEF ExactInv
<1>4. PICK d \in do_delete(o.map, hash_ptr(h), can_shrink) :
          /\ mp' = d.map
          /\ heap' = (heap \ {h}) \cup (IF d.ret THEN {n} ELSE {})
          /\ held' = (held \ {h}) \cup (IF d.ret THEN {n} ELSE {})
  BY <1>2, <1>3
<1>5. d.ret = TRUE /\ Registers(d.map, (heap \cup {n}) \ {h})
  <2>1. heap \cup {n} \in SUBSET Addr /\ h \in heap \cup {n}
    BY <1>1 DEF ExactInv
  <2> QED BY <1>3, <2>1, DeleteRegisters
<1>6. (heap \cup {n}) \ {h} = (heap \ {h}) \cup {n}
  BY <1>1
<1>7. /\ heap' = (heap \ {h}) \cup {n} /\ held' = (held \ {h}) \cup {n}
      /\ mp' = d.map
  BY <1>4, <1>5
<1>8. Registers(mp', heap')
  BY <1>5, <1>6, <1>7
<1>9. phase = "open" /\ fault' = fault /\ UNCHANGED <<phase, it, due>>
  BY <1>1 DEF ReallocMoves
<1> QED BY <1>1, <1>7, <1>8, <1>9 DEF ExactInv, Reg!Move

\* The body of memtbl_free of a live block.
LEMMA UnregisterExact ==
  ASSUME HomesApart, ExactInv, NEW a \in heap, NEW can_alloc \in BOOLEAN,
         Unregister(a, can_alloc)
  PROVE  heap' = heap \ {a} /\ Registers(mp', heap \ {a}) /\ fault' = fault
<1>1. memtbl_p(mp, a) = a
  BY ProbeHome DEF ExactInv
<1>2. PICK d \in do_delete(mp, hash_ptr(a), can_alloc) : mp' = d.map /\ free(a, heap)
  BY <1>1 DEF Unregister
<1>3. heap \in SUBSET Addr /\ Registers(mp, heap)
  BY DEF ExactInv
<1>4. Registers(d.map, heap \ {a})
  BY <1>3, DeleteRegisters
<1> QED BY <1>2, <1>4 DEF free

LEMMA FreeExact ==
  ASSUME HomesApart, ExactInv, NEW h \in held, NEW can_alloc \in BOOLEAN,
         memtbl_free(h, can_alloc)
  PROVE  ExactInv' /\ Reg!Release(h)
<1>1. heap' = heap \ {h} /\ Registers(mp', heap \ {h}) /\ fault' = fault
  BY UnregisterExact DEF ExactInv, memtbl_free
<1>2. phase = "open" /\ held' = held \ {h} /\ UNCHANGED <<phase, it, due>>
  BY DEF memtbl_free
<1> QED BY <1>1, <1>2 DEF ExactInv, Reg!Release

LEMMA DestroyBeginExact ==
  ASSUME HomesApart, ExactInv, DestroyBegin
  PROVE  ExactInv' /\ Reg!Close
<1>1. it' = map_first_value_iter(mp, heap)
  BY ResolvableBlocks DEF DestroyBegin, ExactInv
<1>2. IterAtFirst'
  <2> DEFINE j == [pos |-> -1]
  <2>1. \A a \in heap : j.pos < Home(a)
    BY HomeSlot DEF ExactInv
  <2> HIDE DEF j
  <2>2. \/ heap = {} /\ it'.value_handle = NULL
        \/ /\ it'.value_handle \in heap /\ it'.pos = Home(it'.value_handle)
           /\ \A a \in heap : it'.pos <= Home(a)
    BY <1>1, <2>1, IterFindsFirst DEF ExactInv
  <2> QED BY <2>2 DEF IterAtFirst, DestroyBegin
<1> QED BY <1>2 DEF ExactInv, DestroyBegin, Reg!Close

LEMMA DestroyStepExact ==
  ASSUME HomesApart, ExactInv, NEW can_alloc \in BOOLEAN, DestroyStep(can_alloc)
  PROVE  ExactInv' /\ Reg!ReleaseNext
<1> DEFINE b == it.value_handle
<1>1. Resolvable(mp) = heap /\ phase = "closing"
  BY ResolvableBlocks DEF ExactInv, DestroyStep
<1>2. b \in heap /\ Unregister(b, can_alloc)
  BY <1>1 DEF DestroyStep, map_iter_done
<1>3. heap' = heap \ {b} /\ Registers(mp', heap \ {b}) /\ fault' = fault
  BY <1>2, UnregisterExact
<1>4. it' = map_next_value_iter(mp', it, heap')
  BY <1>3, ResolvableBlocks DEF ExactInv, DestroyStep
<1>5. it.pos = Home(b) /\ \A a \in heap : it.pos <= Home(a)
  BY <1>1, <1>2, BlockMapAssumption DEF ExactInv, IterAtFirst, NULL
<1>6. \A a \in heap' : it.pos < Home(a)
  <2> TAKE a \in heap'
  <2>1. a \in Addr /\ b \in Addr /\ a # b /\ a \in heap
    BY <1>2, <1>3 DEF ExactInv
  <2>2. Home(a) # Home(b) /\ Home(a) \in Int /\ Home(b) \in Int
    BY <2>1, HomeSlot DEF HomesApart
  <2> QED BY <1>5, <2>1, <2>2
<1>7. IterAtFirst'
  <2>1. heap' \in SUBSET Addr
    BY <1>3 DEF ExactInv
  <2>2. \/ heap' = {} /\ it'.value_handle = NULL
        \/ /\ it'.value_handle \in heap' /\ it'.pos = Home(it'.value_handle)
           /\ \A a \in heap' : it'.pos <= Home(a)
    BY <1>3, <1>4, <1>6, <2>1, IterFindsFirst
  <2> QED BY <2>2 DEF IterAtFirst
<1>8. UNCHANGED <<phase, held, due>>
  BY DEF DestroyStep
<1> QED BY <1>1, <1>2, <1>3, <1>7, <1>8 DEF ExactInv, Reg!ReleaseNext

LEMMA DestroyEndExact ==
  ASSUME HomesApart, ExactInv, DestroyEnd
  PROVE  ExactInv' /\ Reg!Closed
<1>1. Resolvable(mp) = heap
  BY ResolvableBlocks DEF ExactInv
<1>2. heap = {}
  BY <1>1 DEF DestroyEnd, map_iter_done, ExactInv, IterAtFirst
<1>3. Registers(mp', {})
  BY EmptyRegisters DEF DestroyEnd
<1> QED BY <1>2, <1>3 DEF DestroyEnd, ExactInv, Reg!Closed

LEMMA OpenExact ==
  ASSUME ExactInv, memtbl_create
  PROVE  ExactInv' /\ Reg!Open
<1>1. heap = {} /\ heap' = {} /\ Registers(mp', {})
  BY EmptyRegisters DEF memtbl_create, ExactInv
<1> QED BY <1>1 DEF memtbl_create, ExactInv, Reg!Open

LEMMA InitExact == Init => ExactInv /\ Reg!RegInit
BY EmptyRegisters DEF Init, ExactInv, Reg!RegInit

\* Every step keeps the table exact and is a step of the registry, or none.
LEMMA NextExact ==
  ASSUME HomesApart, ExactInv, [Next]_vars
  PROVE  ExactInv' /\ [Reg!RegNext]_(Reg!regVars)
<1> DEFINE Good == ExactInv' /\ [Reg!RegNext]_(Reg!regVars)
<1>1. CASE memtbl_create
  BY <1>1, OpenExact DEF Reg!RegNext
<1>2. ASSUME NEW a \in Addr, NEW can_alloc \in BOOLEAN,
             \/ mem_alloc(a, can_alloc) \/ mem_alloc_clear(a, can_alloc)
             \/ \E h \in held : mem_duplicate(h, a, can_alloc)
      PROVE  Good
  <2>1. PICK used \in SUBSET (heap \cup {a}) : Allocates(a, used, can_alloc)
    <3>1. CASE mem_alloc(a, can_alloc)
      BY <3>1 DEF mem_alloc
    <3>2. CASE mem_alloc_clear(a, can_alloc)
      BY <3>2 DEF mem_alloc_clear
    <3>3. ASSUME NEW h \in held, mem_duplicate(h, a, can_alloc)
          PROVE  \E used \in SUBSET (heap \cup {a}) : Allocates(a, used, can_alloc)
      BY <3>3 DEF mem_duplicate, ExactInv
    <3> QED BY <1>2, <3>1, <3>2, <3>3
  <2> QED BY <2>1, AllocatesExact DEF Reg!RegNext
<1>3. ASSUME NEW h \in held, ReallocFails(h) \/ ReallocInPlace(h)
      PROVE  Good
  <2>1. CASE ReallocFails(h)
    BY <2>1 DEF ReallocFails, ExactInv, IterAtFirst, Reg!regVars
  <2>2. CASE ReallocInPlace(h)
    BY <2>2, ReallocInPlaceExact DEF Reg!regVars
  <2> QED BY <1>3, <2>1, <2>2
<1>4. ASSUME NEW h \in held, NEW n \in Addr, NEW can_grow \in BOOLEAN,
             NEW can_shrink \in BOOLEAN, ReallocMoves(h, n, can_grow, can_shrink)
      PROVE  Good
  <2>1. ExactInv' /\ Reg!Move(h, n) /\ h \in Addr
    BY <1>4, ReallocMovesExact DEF ExactInv
  <2> QED BY <2>1 DEF Reg!RegNext
<1>5. ASSUME NEW h \in held, NEW can_alloc \in BOOLEAN, memtbl_free(h, can_alloc)
      PROVE  Good
  <2>1. ExactInv' /\ Reg!Release(h) /\ h \in Addr
    BY <1>5, FreeExact DEF ExactInv
  <2> QED BY <2>1 DEF Reg!RegNext
<1>6. CASE DestroyBegin
  BY <1>6, DestroyBeginExact DEF Reg!RegNext
<1>7. ASSUME NEW can_alloc \in BOOLEAN, DestroyStep(can_alloc)
      PROVE  Good
  BY <1>7, DestroyStepExact DEF Reg!RegNext
<1>8. CASE DestroyEnd
  BY <1>8, DestroyEndExact DEF Reg!RegNext
<1>9. CASE UNCHANGED vars
  BY <1>9 DEF vars, ExactInv, IterAtFirst, Reg!regVars
<1> QED BY <1>1, <1>2, <1>3, <1>4, <1>5, <1>6, <1>7, <1>8, <1>9 DEF Next, Destroying

LEMMA ExactInvAlways ==
  ASSUME HomesApart
  PROVE  Spec => []ExactInv
BY InitExact, NextExact, PTL DEF Spec

-----------------------------------------------------------------------------
\* With a home slot for every address the table resolves exactly the live
\* blocks, whatever fails and in the middle of memtbl_destroy too (memtbl.c).
THEOREM TableExact ==
  ASSUME HomesApart
  PROVE  Spec => []RegistersExactly
<1>1. ExactInv => RegistersExactly
  BY ProbeHome DEF ExactInv, RegistersExactly
<1> QED BY <1>1, ExactInvAlways, PTL

\* Then no call frees a block twice or accesses one through a NULL mem_p
\* (memtbl.c 49-78, mem.c 73-107).
THEOREM NoUndefined ==
  ASSUME HomesApart
  PROVE  Spec => []NoFault
<1>1. ExactInv => NoFault
  BY DEF ExactInv, NoFault
<1> QED BY <1>1, ExactInvAlways, PTL

\* And the table implements the safety part of the registry that memtbl.h
\* promises: memtbl_destroy ends only when every block is freed.
THEOREM TableImplementsRegistry ==
  ASSUME HomesApart
  PROVE  Spec => Reg!RegSafety
BY InitExact, NextExact, ExactInvAlways, PTL DEF Spec, Reg!RegSafety
=============================================================================
