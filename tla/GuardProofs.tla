----------------------------- MODULE GuardProofs -----------------------------
(***************************************************************************)
(* What a SIGINT handler finds and what the guards leave, proved for any   *)
(* number of blocks, any hash function and table size and any semantics of *)
(* signal().  The inductive invariant has three parts: the guards that are *)
(* open at each step; the types of the blocks and of the table; and, when  *)
(* addresses hash apart, how far table and heap are apart at each step.    *)
(* The last two need, as the proofs of Memtbl do, that the write to a      *)
(* freed table is lost (StrayWords is empty).                              *)
(***************************************************************************)
EXTENDS SigintGuard, DataProofs

Unguarded == {"idle", "next", "enter", "return"}

\* The guards that are open, and the disposition, at each step.
GuardsMatch ==
  /\ disp \in Disposition /\ expected \in {"DFL", "HND"}
  /\ guards \in Seq(Disposition)
  /\ run \in {"running", "handling", "aborting", "killed", "wild"}
  /\ step \in Unguarded => Len(guards) = 0 /\ disp = expected
  /\ step \notin Unguarded =>
       /\ disp = "IGN" /\ guards[1] = expected
       /\ \/ Len(guards) = 1
          \/ step \in {"set", "delete"} /\ Len(guards) = 2 /\ guards[2] = "IGN"
  /\ run = "handling" => step \in Unguarded

\* The steps of each operation.
OpMatches ==
  /\ op \in {"none", "alloc", "realloc", "free", "destroy"}
  /\ step \in {"idle", "next", "enter", "malloc", "set", "delete", "free", "leave", "return"}
  /\ op = "none" <=> step = "idle"
  /\ step = "next" => op = "destroy"
  /\ step \in {"malloc", "set"} => op \in {"alloc", "realloc"}
  /\ step = "delete" => op \in {"realloc", "free", "destroy"}
  /\ step = "free" => op \in Frees

ProcessInv == GuardsMatch /\ OpMatches

-----------------------------------------------------------------------------
LEMMA AppendedGuard ==
  ASSUME NEW S, NEW g \in Seq(S), Len(g) \in {0, 1}, NEW d \in S
  PROVE  /\ Append(g, d) \in Seq(S) /\ Len(Append(g, d)) = Len(g) + 1
         /\ Append(g, d)[Len(g) + 1] = d
         /\ Len(g) = 1 => Append(g, d)[1] = g[1]
<1>1. Append(g, d) \in Seq(S) /\ Len(Append(g, d)) = Len(g) + 1
  BY AppendProperties
<1>2. \A k \in 1 .. Len(g) : Append(g, d)[k] = g[k]
  BY AppendProperties
<1>3. Append(g, d)[Len(g) + 1] = d
  BY AppendProperties
<1> QED
  BY <1>1, <1>2, <1>3

LEMMA CallProcess ==
  ASSUME ProcessInv,
         \/ \E d \in {"DFL", "HND"} : Install(d)
         \/ Call("alloc", NULL) \/ CallDestroy
         \/ \E b \in held : Call("realloc", b) \/ Call("free", b)
  PROVE  ProcessInv'
<1>1. CASE \E d \in {"DFL", "HND"} : Install(d)
  BY <1>1 DEF Install, ProcessInv, GuardsMatch, OpMatches, Disposition, Unguarded, Frees
<1>2. CASE Call("alloc", NULL) \/ \E b \in held : Call("realloc", b) \/ Call("free", b)
  BY <1>2 DEF Call, process, ProcessInv, GuardsMatch, OpMatches, Unguarded, Frees
<1>3. CASE CallDestroy
  BY <1>3 DEF CallDestroy, Destroys, process, ProcessInv, GuardsMatch, OpMatches, Unguarded, Frees
<1> QED BY <1>1, <1>2, <1>3

LEMMA GuardProcess ==
  ASSUME ProcessInv, Enter \/ NestedEnter \/ NestedLeave \/ Leave
  PROVE  ProcessInv'
<1>1. CASE Enter
  <2>1. /\ disp \in Disposition /\ guards \in Seq(Disposition) /\ Len(guards) = 0
        /\ disp = expected /\ guards' = Append(guards, disp)
    BY <1>1 DEF Enter, At, EnterGuard, ProcessInv, GuardsMatch, Unguarded
  <2>2. guards' \in Seq(Disposition) /\ Len(guards') = 1 /\ guards'[1] = expected
    BY <2>1, AppendedGuard
  <2> QED
    BY <1>1, <2>2 DEF Enter, At, EnterGuard, Continue, ProcessInv, GuardsMatch, OpMatches,
                      Disposition, Unguarded, Frees
<1>2. CASE NestedEnter
  <2>1. /\ disp \in Disposition /\ guards \in Seq(Disposition) /\ Len(guards) = 1
        /\ disp = "IGN" /\ guards[1] = expected /\ guards' = Append(guards, disp)
        /\ step \in {"set", "delete"}
    BY <1>2 DEF NestedEnter, Resizes, EnterGuard, ProcessInv, GuardsMatch, Unguarded
  <2>2. /\ guards' \in Seq(Disposition) /\ Len(guards') = 2
        /\ guards'[1] = expected /\ guards'[2] = "IGN"
    <3>1. /\ Append(guards, disp) \in Seq(Disposition)
          /\ Len(Append(guards, disp)) = Len(guards) + 1
          /\ Append(guards, disp)[Len(guards) + 1] = disp
          /\ Len(guards) = 1 => Append(guards, disp)[1] = guards[1]
      <4>1. disp \in Disposition /\ guards \in Seq(Disposition) /\ Len(guards) \in {0, 1}
        BY <2>1
      <4> QED BY <4>1, AppendedGuard
    <3> QED BY <2>1, <3>1
  <2> QED
    BY <1>2, <2>1, <2>2 DEF NestedEnter, At, EnterGuard, ProcessInv, GuardsMatch, OpMatches,
                            Disposition, Unguarded, Frees
<1>3. CASE NestedLeave
  <2>1. /\ guards' \in Seq(Disposition) /\ Len(guards') = 1
        /\ guards'[1] = expected /\ disp' = "IGN" /\ step \in {"set", "delete"}
    <3>1. /\ guards \in Seq(Disposition) /\ Len(guards) = 2 /\ guards[1] = expected
          /\ guards[2] = "IGN" /\ step \in {"set", "delete"}
      BY <1>3 DEF NestedLeave, ProcessInv, GuardsMatch, Unguarded
    <3>2. guards' = SubSeq(guards, 1, Len(guards) - 1) /\ disp' = guards[Len(guards)]
      BY <1>3 DEF NestedLeave, LeaveGuard
    <3> QED BY <3>1, <3>2
  <2> QED
    BY <1>3, <2>1 DEF NestedLeave, At, ProcessInv, GuardsMatch, OpMatches, Disposition, Unguarded,
                      Frees
<1>4. CASE Leave
  <2>1. guards' \in Seq(Disposition) /\ Len(guards') = 0 /\ disp' = expected
    <3>1. guards \in Seq(Disposition) /\ Len(guards) = 1 /\ guards[1] = expected
      BY <1>4 DEF Leave, At, ProcessInv, GuardsMatch, Unguarded
    <3>2. guards' = SubSeq(guards, 1, Len(guards) - 1) /\ disp' = guards[Len(guards)]
      BY <1>4 DEF Leave, LeaveGuard
    <3> QED BY <3>1, <3>2
  <2> QED
    BY <1>4, <2>1 DEF Leave, At, Continue, ProcessInv, GuardsMatch, OpMatches, Disposition,
                      Unguarded, Frees
<1> QED BY <1>1, <1>2, <1>3, <1>4

LEMMA StepProcess ==
  ASSUME ProcessInv,
         \/ \E b \in Addr : Obtain(b)
         \/ ObtainNothing \/ KeepInPlace
         \/ MapSet \/ MapSetFails \/ MapDelete \/ MapDeleteFails \/ FreeBlock
         \/ DestroyNext \/ DestroyUnmaps \/ Return
  PROVE  ProcessInv'
<1> USE DEF At, Continue, ProcessInv, GuardsMatch, OpMatches, Unguarded, Frees
<1>1. CASE (\E b \in Addr : Obtain(b)) \/ ObtainNothing \/ KeepInPlace
  BY <1>1 DEF Obtain, ObtainNothing, KeepInPlace
<1>2. CASE MapSet \/ MapSetFails
  BY <1>2 DEF MapSet, MapSetFails
<1>3. CASE MapDelete \/ MapDeleteFails
  BY <1>3 DEF MapDelete, MapDeleteFails
<1>4. CASE FreeBlock
  BY <1>4 DEF FreeBlock
<1>5. CASE DestroyNext \/ DestroyUnmaps
  BY <1>5 DEF DestroyNext, DestroyUnmaps
<1>6. CASE Return
  BY <1>6 DEF Return
<1> QED BY <1>1, <1>2, <1>3, <1>4, <1>5, <1>6

LEMMA SigintProcess ==
  ASSUME ProcessInv, Sigint \/ HandlerReturns \/ HandlerAborts \/ HandlerRevisits
  PROVE  ProcessInv'
<1> USE DEF ProcessInv, GuardsMatch, OpMatches, Unguarded, Frees
<1>1. CASE Sigint
  BY <1>1, GuardAssumption DEF Sigint, Disposition
<1>2. CASE HandlerReturns \/ HandlerRevisits
  BY <1>2 DEF HandlerReturns, HandlerRevisits
<1>3. CASE HandlerAborts
  BY <1>3 DEF HandlerAborts, Destroys
<1> QED BY <1>1, <1>2, <1>3

LEMMA NextProcess ==
  ASSUME ProcessInv, [Next]_vars
  PROVE  ProcessInv'
<1>1. CASE UNCHANGED vars
  BY <1>1 DEF vars, ProcessInv, GuardsMatch, OpMatches
<1> QED
  BY <1>1, CallProcess, GuardProcess, StepProcess, SigintProcess DEF Next, Stopped

LEMMA ProcessAlways == Spec => []ProcessInv
<1>1. Init => ProcessInv
  BY DEF Init, ProcessInv, GuardsMatch, OpMatches, Disposition, Unguarded, Frees
<1> QED BY <1>1, NextProcess, PTL DEF Spec

-----------------------------------------------------------------------------
EntryOf(a) == [key_hash |-> Hash[a], value_handle |-> a]

BlockEntry == {EmptyEntry} \cup {EntryOf(a) : a \in Addr}

NoStray == StrayWords = {}

BlockTypes ==
  /\ old \in Addr \cup {NULL} /\ new \in Addr \cup {NULL}
  /\ it \in [pos : Nat, value_handle : Addr \cup {NULL}]
  /\ heap \subseteq Addr /\ held \subseteq Addr /\ lost \subseteq Addr /\ stale \subseteq Addr
  /\ TableInv(mp, BlockEntry) /\ mp.entry_count <= MaxCount
  /\ step = "set" => mp.entry_count < MaxCount /\ new \in Addr
  /\ step = "enter" /\ op # "alloc" => old \in Addr

LEMMA BlockEntries == NoStray => TableEntries(BlockEntry)
BY BlockMapAssumption DEF NoStray, TableEntries, BlockEntry, EntryOf, EmptyEntry

LEMMA BlockHashed ==
  /\ \A a \in Addr : /\ Hash[a] \in Nat /\ EntryOf(a) \in BlockEntry
                     /\ EntryOf(a).key_hash = Hash[a] /\ hash_ptr(a) = Hash[a]
  /\ \A p \in Addr \cup {NULL} : hash_ptr(p) \in Nat
BY BlockMapAssumption DEF BlockEntry, EntryOf, hash_ptr, NULL

\* Under an address the map holds the handle of a block, if any; when addresses
\* hash apart it is its own, and it is there if the probe reaches its entry.
LEMMA BlockFound ==
  ASSUME NEW m, TableInv(m, BlockEntry), NEW a \in Addr
  PROVE  /\ memtbl_p(m, a) \in Addr \cup {NULL}
         /\ HashesApart => memtbl_p(m, a) = IF Reaches(m, EntryOf(a)) THEN a ELSE NULL
<1> DEFINE pos == find_entry_pos(m, Hash[a])
           e == m.entries[pos]
<1>1. m.table_size \in Nat \ {0} /\ HalfFull(m) /\ Hash[a] \in Nat
  BY BlockHashed DEF TableInv, TableOK
<1>2. pos \in Slots(m) /\ e.key_hash \in {Hash[a], 0}
  BY <1>1, FindEntryPos
<1>3. e \in BlockEntry
  BY <1>2 DEF TableInv, TableOK
<1>4. /\ memtbl_p(m, a) = IF e.key_hash = 0 THEN NULL ELSE e.value_handle
      /\ Reaches(m, EntryOf(a)) <=> e = EntryOf(a)
  BY BlockHashed DEF memtbl_p, do_get, NULL, Reaches
<1> HIDE DEF pos, e
<1>5. CASE e.key_hash = 0
  BY <1>4, <1>5 DEF HashesApart, EntryOf
<1>6. CASE e.key_hash # 0
  <2>1. PICK b \in Addr : e = EntryOf(b)
    BY <1>3, <1>6 DEF BlockEntry, EmptyEntry
  <2>2. memtbl_p(m, a) = b /\ Hash[b] = Hash[a]
    BY <1>2, <1>4, <1>6, <2>1 DEF EntryOf
  <2> QED BY <1>4, <2>1, <2>2 DEF HashesApart
<1> QED BY <1>5, <1>6

LEMMA SetOutcomeTypes ==
  ASSUME NoStray, BlockTypes, step = "set", NEW o \in SetOutcomes
  PROVE  TableInv(o.map, BlockEntry) /\ o.map.entry_count <= MaxCount /\ o.ret \in BOOLEAN
<1>1. PICK can_alloc \in BOOLEAN : o \in do_set(mp, Hash[new], new, can_alloc)
  BY DEF SetOutcomes
<1>2. new \in Addr /\ TableInv(mp, BlockEntry) /\ mp.entry_count < MaxCount
  BY DEF BlockTypes
<1>3. Hash[new] \in Nat /\ [key_hash |-> Hash[new], value_handle |-> new] \in BlockEntry
  BY <1>2, BlockHashed DEF EntryOf
<1>4. /\ TableInv(o.map, BlockEntry) /\ o.ret \in BOOLEAN
      /\ o.map.entry_count <= mp.entry_count + 1
  BY <1>1, <1>2, <1>3, BlockEntries, SetKeepsTable
<1>5. mp.entry_count \in Nat /\ o.map.entry_count \in Nat /\ MaxCount \in Nat
  BY <1>2, <1>4, BlockMapAssumption DEF TableInv, TableOK
<1> QED BY <1>2, <1>4, <1>5

LEMMA DeleteOutcomeTypes ==
  ASSUME NoStray, BlockTypes, NEW d \in DeleteOutcomes
  PROVE  TableInv(d.map, BlockEntry) /\ d.map.entry_count <= MaxCount /\ d.ret \in BOOLEAN
<1>1. PICK can_alloc \in BOOLEAN : d \in do_delete(mp, hash_ptr(old), can_alloc)
  BY DEF DeleteOutcomes
<1>2. hash_ptr(old) \in Nat /\ TableInv(mp, BlockEntry) /\ mp.entry_count <= MaxCount
  BY BlockHashed DEF BlockTypes
<1>3. /\ TableInv(d.map, BlockEntry) /\ d.ret \in BOOLEAN
      /\ d.map.entry_count <= mp.entry_count
  BY <1>1, <1>2, BlockEntries, DeleteKeepsTable
<1>4. mp.entry_count \in Nat /\ d.map.entry_count \in Nat /\ MaxCount \in Nat
  BY <1>2, <1>3, BlockMapAssumption DEF TableInv, TableOK
<1> QED BY <1>2, <1>3, <1>4

LEMMA BlockIter ==
  ASSUME NEW m, TableInv(m, BlockEntry), NEW j
  PROVE  /\ map_next_value_iter(m, j, Resolvable(m)) \in
              [pos : Nat, value_handle : Addr \cup {NULL}]
         /\ map_first_value_iter(m, Resolvable(m)) \in [pos : Nat, value_handle : Addr \cup {NULL}]
<1>1. m.table_size \in Nat \ {0}
  BY DEF TableInv, TableOK
<1>2. [pos : Nat, value_handle : Resolvable(m) \cup {NoHandle}]
        \subseteq [pos : Nat, value_handle : Addr \cup {NULL}]
  BY DEF NULL, Resolvable
<1> QED BY <1>1, <1>2, IterFrom

LEMMA EmptyTypes ==
  /\ TableInv(EmptyMap, BlockEntry) /\ EmptyMap.entry_count <= MaxCount
  /\ DoneIter \in [pos : Nat, value_handle : Addr \cup {NULL}]
BY EmptyTable, BlockMapAssumption DEF BlockEntry, DoneIter, NULL

LEMMA CallTypes ==
  ASSUME BlockTypes,
         \/ \E d \in {"DFL", "HND"} : Install(d)
         \/ Call("alloc", NULL) \/ CallDestroy \/ HandlerAborts
         \/ \E b \in held : Call("realloc", b) \/ Call("free", b)
  PROVE  BlockTypes'
<1>1. CASE \E d \in {"DFL", "HND"} : Install(d)
  BY <1>1 DEF Install, table, history, BlockTypes
<1>2. CASE Call("alloc", NULL) \/ \E b \in held : Call("realloc", b) \/ Call("free", b)
  BY <1>2 DEF Call, process, table, history, BlockTypes
<1>3. CASE CallDestroy \/ HandlerAborts
  BY <1>3, BlockIter DEF CallDestroy, HandlerAborts, Destroys, process, history, BlockTypes
<1> QED BY <1>1, <1>2, <1>3

LEMMA GuardTypes ==
  ASSUME BlockTypes, OpMatches, Enter \/ NestedEnter \/ NestedLeave \/ Leave
  PROVE  BlockTypes'
<1>1. CASE Enter
  <2>1. old' \in Addr \cup {NULL}
    BY <1>1, BlockFound DEF Enter, At, BlockTypes
  <2> QED BY <1>1, <2>1 DEF Enter, Continue, Frees, table, history, BlockTypes
<1>2. CASE NestedEnter \/ NestedLeave
  BY <1>2 DEF NestedEnter, NestedLeave, table, history, BlockTypes
<1>3. CASE Leave
  <2>1. it' \in [pos : Nat, value_handle : Addr \cup {NULL}]
    BY <1>3, BlockIter DEF Leave, BlockTypes
  <2> QED BY <1>3, <2>1 DEF Leave, Continue, history, BlockTypes
<1> QED BY <1>1, <1>2, <1>3

LEMMA StepTypes ==
  ASSUME NoStray, BlockTypes,
         \/ \E b \in Addr : Obtain(b)
         \/ ObtainNothing \/ KeepInPlace
         \/ MapSet \/ MapSetFails \/ MapDelete \/ MapDeleteFails \/ FreeBlock
         \/ DestroyNext \/ DestroyUnmaps \/ Return
  PROVE  BlockTypes'
<1> USE DEF At, Continue, table, history
<1>1. CASE (\E b \in Addr : Obtain(b)) \/ ObtainNothing \/ KeepInPlace
  BY <1>1 DEF Obtain, ObtainNothing, KeepInPlace, BlockTypes
<1>2. CASE MapSet \/ MapSetFails
  <2>1. PICK o \in SetOutcomes : \E S \in {{}, Resolvable(mp) \cup {new}} : Becomes(o.map, S)
    BY <1>2 DEF MapSet, MapSetFails
  <2>2. step = "set"
    BY <1>2 DEF MapSet, MapSetFails
  <2>3. TableInv(mp', BlockEntry) /\ mp'.entry_count <= MaxCount
    BY <2>1, <2>2, SetOutcomeTypes DEF Becomes
  <2>4. lost' \subseteq Addr
    BY <2>1, <2>2 DEF Becomes, BlockTypes, Resolvable
  <2> QED BY <1>2, <2>3, <2>4 DEF MapSet, MapSetFails, BlockTypes
<1>3. CASE MapDelete \/ MapDeleteFails
  <2>1. PICK d \in DeleteOutcomes : DeletedTo(d)
    BY <1>3 DEF MapDelete, MapDeleteFails
  <2>2. TableInv(mp', BlockEntry) /\ mp'.entry_count <= MaxCount
    BY <2>1, DeleteOutcomeTypes DEF DeletedTo, Becomes
  <2>3. lost' \subseteq Addr
    BY <2>1 DEF DeletedTo, Becomes, BlockTypes, Resolvable
  <2> QED BY <1>3, <2>2, <2>3 DEF MapDelete, MapDeleteFails, BlockTypes
<1>4. CASE FreeBlock
  BY <1>4 DEF FreeBlock, BlockTypes
<1>5. CASE DestroyNext
  <2>1. old' \in Addr
    BY <1>5 DEF DestroyNext, map_iter_done, Resolvable
  <2> QED BY <1>5, <2>1 DEF DestroyNext, BlockTypes
<1>6. CASE DestroyUnmaps
  BY <1>6, EmptyTypes DEF DestroyUnmaps, BlockTypes
<1>7. CASE Return
  BY <1>7 DEF Return, BlockTypes
<1> QED BY <1>1, <1>2, <1>3, <1>4, <1>5, <1>6, <1>7

LEMMA NextTypes ==
  ASSUME NoStray, BlockTypes, OpMatches, [Next]_vars
  PROVE  BlockTypes'
<1>1. CASE Sigint \/ HandlerReturns \/ HandlerRevisits \/ UNCHANGED vars
  BY <1>1 DEF Sigint, HandlerReturns, HandlerRevisits, table, history, vars, BlockTypes
<1> QED
  BY <1>1, CallTypes, GuardTypes, StepTypes DEF Next, Stopped

LEMMA TypesAlways ==
  ASSUME NoStray
  PROVE  Spec => []BlockTypes
<1>1. Init => BlockTypes
  BY EmptyTypes DEF Init, BlockTypes
<1>2. OpMatches /\ BlockTypes /\ [Next]_vars => BlockTypes'
  BY NextTypes
<1>3. ProcessInv => OpMatches
  BY DEF ProcessInv
<1> QED BY <1>1, <1>2, <1>3, ProcessAlways, PTL DEF Spec

-----------------------------------------------------------------------------
(* How far table and heap are apart, when addresses hash apart.            *)
Present(m) == {a \in Addr : HasEntry(m, EntryOf(a))}

Twice(m) == {a \in Addr : HasTwice(m, EntryOf(a))}

\* The block that is obtained and not registered yet, or registered no more and
\* not freed yet.
InHand == IF step = "set" THEN {new} ELSE IF step = "free" THEN {old} ELSE {}

\* The block that realloc has freed, as long as its entry is left.
LeftBehind == IF step \in {"set", "delete"} /\ op = "realloc" THEN {old} ELSE {}

\* Every live block resolves, but for the one in hand and what the map has lost.
Complete == heap \ (lost \cup InHand) \subseteq Resolvable(mp)

\* Every entry, the hidden ones too, is of a live block or of a stale one; only
\* a stale one, which malloc may return again, has two.
Sound ==
  /\ Present(mp) \subseteq (heap \ InHand) \cup stale \cup LeftBehind
  /\ Twice(mp) \subseteq stale

\* The client's handles are of live blocks, and not of the block the operation
\* works on; the result is a live block, too.
HandlesSafe ==
  /\ held \subseteq heap
  /\ op = "destroy" => held = {}
  /\ op \in {"realloc", "free"} => old \notin held
  /\ op = "alloc" => old = NULL
  /\ op \in Frees => new = NULL
  /\ op = "none" => old = NULL /\ new = NULL
  /\ step \in {"enter", "malloc"} => new = NULL
  /\ op = "realloc" /\ step \in {"enter", "malloc"} => old \in heap \cup {NULL}
  /\ op = "realloc" /\ step \in {"set", "delete"} => old \notin heap
  /\ op \in Frees /\ step = "delete" => old \in Resolvable(mp) \cup {NULL}
  /\ step = "set" \/ (step = "delete" /\ op = "realloc") => new \in heap \ held
  /\ step \in {"leave", "return"} => new \in heap \cup {NULL}

Apart == Complete /\ Sound /\ HandlesSafe

\* The invariants of the parts above.
Based == ProcessInv /\ BlockTypes

-----------------------------------------------------------------------------
LEMMA BlockKeys ==
  ASSUME HashesApart, NEW a \in Addr
  PROVE  /\ EntryOf(a) \in BlockEntry /\ EntryOf(a).key_hash = Hash[a] /\ Hash[a] \in Nat \ {0}
         /\ \A g \in BlockEntry : g.key_hash = EntryOf(a).key_hash => g = EntryOf(a)
         /\ \A p \in Addr \cup {NULL} : p # a => hash_ptr(p) # Hash[a]
         /\ a # NULL
<1>1. EntryOf(a) \in BlockEntry /\ EntryOf(a).key_hash = Hash[a] /\ Hash[a] \in Nat \ {0}
  BY BlockHashed DEF HashesApart
<1>2. \A g \in BlockEntry : g.key_hash = EntryOf(a).key_hash => g = EntryOf(a)
  BY <1>1 DEF HashesApart, BlockEntry, EntryOf, EmptyEntry
<1>3. \A p \in Addr \cup {NULL} : p # a => hash_ptr(p) # Hash[a]
  BY BlockMapAssumption DEF HashesApart, hash_ptr, NULL
<1> QED BY <1>1, <1>2, <1>3, BlockMapAssumption DEF NULL

LEMMA ResolvableBlocks ==
  ASSUME HashesApart, NEW m, TableInv(m, BlockEntry)
  PROVE  /\ Resolvable(m) = {a \in Addr : Reaches(m, EntryOf(a))}
         /\ Resolvable(m) \subseteq Present(m)
<1>1. ASSUME NEW a \in Addr PROVE a \in Resolvable(m) <=> Reaches(m, EntryOf(a))
  BY BlockFound, BlockKeys DEF Resolvable
<1>2. ASSUME NEW a \in Addr, Reaches(m, EntryOf(a)) PROVE HasEntry(m, EntryOf(a))
  BY <1>2, BlockKeys, ReachedEntry
<1> QED BY <1>1, <1>2 DEF Resolvable, Present

LEMMA SetOutcomeBlocks ==
  ASSUME NoStray, HashesApart, BlockTypes, step = "set", NEW o \in SetOutcomes
  PROVE  /\ Present(o.map) \subseteq Present(mp) \cup (IF o.ret THEN {new} ELSE {})
         /\ Twice(o.map) \subseteq Twice(mp) \cup ({new} \cap Present(mp))
         /\ o.resize # "grew" => Resolvable(mp) \subseteq Resolvable(o.map)
         /\ o.resize # "grew" /\ o.ret => new \in Resolvable(o.map)
<1>1. PICK can_alloc \in BOOLEAN : o \in do_set(mp, Hash[new], new, can_alloc)
  BY DEF SetOutcomes
<1>2. new \in Addr /\ TableInv(mp, BlockEntry) /\ TableInv(o.map, BlockEntry)
  BY SetOutcomeTypes DEF BlockTypes
<1>3. ASSUME NEW a \in Addr
      PROVE  LET f == EntryOf(a)
                 e == EntryOf(new)
             IN /\ HasEntry(o.map, f) => HasEntry(mp, f) \/ (o.ret /\ f = e)
                /\ HasTwice(o.map, f) => HasTwice(mp, f) \/ (f = e /\ HasEntry(mp, e))
                /\ o.resize # "grew" /\ Reaches(mp, f) => Reaches(o.map, f)
                /\ o.resize # "grew" /\ o.ret => Reaches(o.map, e)
  <2> DEFINE f == EntryOf(a)
             e == EntryOf(new)
  <2>1. /\ f \in BlockEntry /\ f.key_hash \in Nat \ {0}
        /\ e \in BlockEntry /\ Hash[new] \in Nat \ {0}
        /\ f.key_hash = Hash[new] => f = e
    BY <1>2, BlockKeys
  <2>2. e = [key_hash |-> Hash[new], value_handle |-> new]
    BY DEF EntryOf
  <2>3. TableEntries(BlockEntry) /\ StrayWords = {}
    BY BlockEntries DEF NoStray
  <2> HIDE DEF f, e
  <2>4. /\ HasEntry(o.map, f) => HasEntry(mp, f) \/ (o.ret /\ f = e)
        /\ HasTwice(o.map, f) => HasTwice(mp, f) \/ (f = e /\ HasEntry(mp, e))
        /\ o.resize # "grew" /\ Reaches(mp, f) => Reaches(o.map, f)
        /\ o.resize # "grew" /\ o.ret => Reaches(o.map, e)
    BY <1>1, <1>2, <2>1, <2>2, <2>3, SetReaches
  <2> QED BY <2>4 DEF f, e
<1>4. \A a \in Addr : EntryOf(a) = EntryOf(new) => a = new
  BY DEF EntryOf
<1>5. /\ Resolvable(mp) = {a \in Addr : Reaches(mp, EntryOf(a))}
      /\ Resolvable(o.map) = {a \in Addr : Reaches(o.map, EntryOf(a))}
  BY <1>2, ResolvableBlocks
<1> QED BY <1>2, <1>3, <1>4, <1>5 DEF Present, Twice

LEMMA DeleteOutcomeBlocks ==
  ASSUME NoStray, HashesApart, BlockTypes, NEW d \in DeleteOutcomes
  PROVE  /\ Present(d.map) \subseteq Present(mp) /\ Twice(d.map) \subseteq Twice(mp)
         /\ (d.ret \/ old \in Resolvable(mp)) /\ old \in Present(d.map) => old \in Twice(mp)
         /\ d.resize # "shrank" /\ ~CutsChain(mp, hash_ptr(old)) =>
              Resolvable(mp) \ {old} \subseteq Resolvable(d.map)
<1>1. PICK can_alloc \in BOOLEAN : d \in do_delete(mp, hash_ptr(old), can_alloc)
  BY DEF DeleteOutcomes
<1>2. /\ hash_ptr(old) \in Nat /\ old \in Addr \cup {NULL}
      /\ TableInv(mp, BlockEntry) /\ TableInv(d.map, BlockEntry)
  BY BlockHashed, DeleteOutcomeTypes DEF BlockTypes
<1>3. ASSUME NEW a \in Addr
      PROVE  LET f == EntryOf(a)
             IN /\ HasEntry(d.map, f) => HasEntry(mp, f)
                /\ HasTwice(d.map, f) => HasTwice(mp, f)
                /\ a = old /\ (d.ret \/ Reaches(mp, f)) /\ HasEntry(d.map, f) => HasTwice(mp, f)
                /\ d.resize # "shrank" /\ ~CutsChain(mp, hash_ptr(old)) /\ a # old /\ Reaches(mp, f)
                     => Reaches(d.map, f)
  <2> DEFINE f == EntryOf(a)
  <2>1. /\ f \in BlockEntry /\ f.key_hash \in Nat \ {0}
        /\ \A g \in BlockEntry : g.key_hash = f.key_hash => g = f
        /\ f.key_hash = hash_ptr(old) <=> a = old
    BY <1>2, BlockKeys, BlockHashed
  <2>2. TableEntries(BlockEntry)
    BY BlockEntries
  <2> HIDE DEF f
  <2>3. /\ HasEntry(d.map, f) => HasEntry(mp, f)
        /\ HasTwice(d.map, f) => HasTwice(mp, f)
        /\ f.key_hash = hash_ptr(old) /\ (d.ret \/ Reaches(mp, f)) /\ HasEntry(d.map, f)
             => HasTwice(mp, f)
        /\ d.resize # "shrank" /\ ~CutsChain(mp, hash_ptr(old)) /\ f.key_hash # hash_ptr(old)
             /\ Reaches(mp, f) => Reaches(d.map, f)
    BY <1>1, <1>2, <2>1, <2>2, DeleteReaches
  <2> QED BY <2>1, <2>3 DEF f
<1>4. /\ Resolvable(mp) = {a \in Addr : Reaches(mp, EntryOf(a))}
      /\ Resolvable(d.map) = {a \in Addr : Reaches(d.map, EntryOf(a))}
  BY <1>2, ResolvableBlocks
<1> QED BY <1>3, <1>4 DEF Present, Twice

-----------------------------------------------------------------------------
LEMMA CallApart ==
  ASSUME Based, Apart,
         \/ \E d \in {"DFL", "HND"} : Install(d)
         \/ Call("alloc", NULL) \/ CallDestroy \/ HandlerAborts
         \/ \E b \in held : Call("realloc", b) \/ Call("free", b)
  PROVE  Apart'
<1> USE DEF Based, ProcessInv, OpMatches, Apart, Complete, Sound, HandlesSafe, InHand, LeftBehind,
            Frees
<1>1. CASE \E d \in {"DFL", "HND"} : Install(d)
  BY <1>1 DEF Install, table, history
<1>2. CASE Call("alloc", NULL) \/ \E b \in held : Call("realloc", b) \/ Call("free", b)
  BY <1>2, BlockMapAssumption DEF Call, process, table, history, BlockTypes, NULL
<1>3. CASE CallDestroy
  BY <1>3 DEF CallDestroy, Destroys, process, history
<1>4. CASE HandlerAborts
  BY <1>4 DEF HandlerAborts, Destroys, history, GuardsMatch, Unguarded
<1> QED BY <1>1, <1>2, <1>3, <1>4

LEMMA EnterApart ==
  ASSUME HashesApart, Based, Apart, Enter
  PROVE  Apart'
<1>1. /\ step = "enter" /\ UNCHANGED <<new, mp, heap, held, lost, stale, op>>
      /\ step' = IF op \in Frees THEN "delete" ELSE "malloc"
      /\ old' = IF op = "alloc" THEN old ELSE memtbl_p(mp, old)
  BY DEF Enter, At, Continue, table, history
<1>2. op # "alloc" => old \in Addr /\ old' \in {old, NULL} /\ old' \in Resolvable(mp) \cup {NULL}
  BY <1>1, BlockFound DEF Based, BlockTypes, Resolvable
<1>3. Complete' /\ Sound'
  BY <1>1 DEF Apart, Complete, Sound, InHand, LeftBehind, Frees, Based, ProcessInv, OpMatches
<1>4. HandlesSafe'
  BY <1>1, <1>2, BlockMapAssumption DEF Apart, HandlesSafe, Frees, Based, ProcessInv, OpMatches,
                                        BlockTypes, NULL
<1> QED BY <1>3, <1>4 DEF Apart

LEMMA GuardApart ==
  ASSUME Based, Apart, NestedEnter \/ NestedLeave \/ Leave
  PROVE  Apart'
<1> USE DEF Based, ProcessInv, OpMatches, Apart, Complete, Sound, HandlesSafe, InHand, LeftBehind,
            Frees
<1>1. CASE NestedEnter \/ NestedLeave
  BY <1>1 DEF NestedEnter, NestedLeave, table, history
<1>2. CASE Leave
  BY <1>2 DEF Leave, At, Continue, history
<1> QED BY <1>1, <1>2

LEMMA ObtainApart ==
  ASSUME HashesApart, Based, Apart, NEW b \in Addr, Obtain(b)
  PROVE  Apart'
<1>1. /\ step = "malloc" /\ step' = "set" /\ op' = op /\ op \in {"alloc", "realloc"}
      /\ b \notin heap /\ new' = b /\ heap' = (heap \ {old}) \cup {b}
      /\ UNCHANGED <<old, mp, held, lost, stale>>
  BY DEF Obtain, At, Continue, table, history, Based, ProcessInv, OpMatches
<1>2. /\ held \subseteq heap /\ old \notin held /\ old \in heap \cup {NULL}
      /\ op = "alloc" => old = NULL
      /\ b # NULL
  BY <1>1, BlockMapAssumption DEF Apart, HandlesSafe, Based, BlockTypes, NULL
<1>3. Complete'
  BY <1>1 DEF Apart, Complete, InHand
<1>4. Sound'
  BY <1>1, <1>2, BlockMapAssumption DEF Apart, Sound, InHand, LeftBehind, Present, NULL
<1>5. HandlesSafe'
  BY <1>1, <1>2 DEF Apart, HandlesSafe, Frees
<1> QED BY <1>3, <1>4, <1>5 DEF Apart

LEMMA ObtainNothingApart ==
  ASSUME Based, Apart, ObtainNothing \/ KeepInPlace
  PROVE  Apart'
<1> USE DEF Based, ProcessInv, OpMatches, Apart, Complete, Sound, HandlesSafe, InHand, LeftBehind,
            Frees, At, Continue, table, history
<1>1. CASE ObtainNothing
  BY <1>1 DEF ObtainNothing
<1>2. CASE KeepInPlace
  BY <1>2 DEF KeepInPlace
<1> QED BY <1>1, <1>2

LEMMA MapSetApart ==
  ASSUME NoStray, HashesApart, Based, Apart, MapSet
  PROVE  Apart'
<1>1. /\ step = "set" /\ step' = (IF op = "realloc" THEN "delete" ELSE "leave") /\ op' = op
      /\ op \in {"alloc", "realloc"}
      /\ UNCHANGED <<old, new, heap, held, stale>>
  BY DEF MapSet, At, Continue, Based, ProcessInv, OpMatches
<1>2. PICK o \in SetOutcomes :
        o.ret /\ Becomes(o.map, IF o.resize = "grew" THEN Resolvable(mp) \cup {new} ELSE {})
  BY DEF MapSet
<1>3. /\ mp' = o.map
      /\ lost' = (lost \cup (IF o.resize = "grew" THEN Resolvable(mp) \cup {new} ELSE {}))
                   \ Resolvable(mp')
  BY <1>2 DEF Becomes
<1>4. /\ Present(mp') \subseteq Present(mp) \cup {new}
      /\ Twice(mp') \subseteq Twice(mp) \cup ({new} \cap Present(mp))
      /\ o.resize # "grew" => Resolvable(mp) \cup {new} \subseteq Resolvable(mp')
  BY <1>1, <1>2, <1>3, SetOutcomeBlocks DEF Based
<1>5. /\ heap \ (lost \cup {new}) \subseteq Resolvable(mp)
      /\ Present(mp) \subseteq (heap \ {new}) \cup stale \cup (IF op = "realloc" THEN {old} ELSE {})
      /\ Twice(mp) \subseteq stale
      /\ new \in heap \ held /\ held \subseteq heap
      /\ op = "realloc" => old \notin heap /\ old \notin held
  BY <1>1 DEF Apart, Complete, Sound, HandlesSafe, InHand, LeftBehind
<1>6. Complete'
  BY <1>1, <1>3, <1>4, <1>5 DEF Complete, InHand
<1>7. Sound'
  BY <1>1, <1>4, <1>5 DEF Sound, InHand, LeftBehind
<1>8. HandlesSafe'
  BY <1>1, <1>5 DEF Apart, HandlesSafe, Frees
<1> QED BY <1>6, <1>7, <1>8 DEF Apart

LEMMA MapSetFailsApart ==
  ASSUME NoStray, HashesApart, Based, Apart, MapSetFails
  PROVE  Apart'
<1>1. /\ step = "set" /\ step' = "leave" /\ op' = op /\ op \in {"alloc", "realloc"}
      /\ heap' = heap \ {new} /\ new' = NULL /\ stale' = stale \cup ({old} \ {NULL})
      /\ UNCHANGED <<old, held>>
  BY DEF MapSetFails, At, Continue, Based, ProcessInv, OpMatches
<1>2. PICK o \in SetOutcomes : ~o.ret /\ Becomes(o.map, {})
  BY DEF MapSetFails
<1>3. mp' = o.map /\ lost' = lost \ Resolvable(mp')
  BY <1>2 DEF Becomes
<1>4. o.resize # "grew"
  <2>1. PICK can_alloc \in BOOLEAN : o \in do_set(mp, Hash[new], new, can_alloc)
    BY DEF SetOutcomes
  <2> DEFINE pos == find_entry_pos(mp, Hash[new])
             grows == IsFree(mp, pos) /\ NeedsGrowth(Counted(mp))
             resized == resize_entries_table(Counted(mp), TRUE)
  <2>2. \A m, r : o # Outcome(m, TRUE, r)
    BY <1>2 DEF Outcome
  <2>3. \/ o = Outcome(Counted(mp), FALSE, "failed")
        \/ \E m, r : o = Outcome(m, TRUE, r)
    <3>1. CASE ~IsFree(mp, pos)
      BY <2>1, <3>1 DEF do_set
    <3>2. CASE IsFree(mp, pos) /\ ~grows
      BY <2>1, <3>2 DEF do_set
    <3>3. CASE grows /\ ~can_alloc
      BY <2>1, <3>3 DEF do_set
    <3>4. CASE grows /\ can_alloc
      <4>1. \E w \in StaleWrites(resized, find_entry_pos(resized, Hash[new]), mp.table_size) :
              o = Outcome(w, TRUE, "grew")
        BY <2>1, <3>4 DEF do_set
      <4> QED BY <4>1
    <3> QED BY <3>1, <3>2, <3>3, <3>4
  <2> QED BY <2>2, <2>3 DEF Outcome
<1>5. /\ Present(mp') \subseteq Present(mp)
      /\ Twice(mp') \subseteq Twice(mp) \cup ({new} \cap Present(mp))
      /\ Resolvable(mp) \subseteq Resolvable(mp')
  BY <1>1, <1>2, <1>3, <1>4, SetOutcomeBlocks DEF Based
<1>6. /\ heap \ (lost \cup {new}) \subseteq Resolvable(mp)
      /\ Present(mp) \subseteq (heap \ {new}) \cup stale \cup (IF op = "realloc" THEN {old} ELSE {})
      /\ Twice(mp) \subseteq stale
      /\ new \in heap \ held /\ held \subseteq heap
      /\ op = "realloc" => old \notin heap
      /\ NULL \notin Present(mp)
  BY <1>1, BlockMapAssumption
     DEF Apart, Complete, Sound, HandlesSafe, InHand, LeftBehind, Present, NULL
<1>7. Complete'
  BY <1>1, <1>3, <1>5, <1>6 DEF Complete, InHand
<1>8. Sound'
  BY <1>1, <1>5, <1>6 DEF Sound, InHand, LeftBehind
<1>9. HandlesSafe'
  BY <1>1, <1>6 DEF Apart, HandlesSafe, Frees
<1> QED BY <1>7, <1>8, <1>9 DEF Apart

\* What a delete makes of the table, whatever the operation does next.
LEMMA DeletedBlocks ==
  ASSUME NoStray, HashesApart, Based, NEW d \in DeleteOutcomes, DeletedTo(d)
  PROVE  /\ Present(mp') \subseteq Present(mp) /\ Twice(mp') \subseteq Twice(mp)
         /\ (d.ret \/ old \in Resolvable(mp)) /\ old \in Present(mp') => old \in Twice(mp)
         /\ \A a \in Resolvable(mp) \ (lost \cup {old}) : a \in Resolvable(mp') \cup lost'
         /\ lost \subseteq lost' \cup Resolvable(mp')
<1> DEFINE cuts == d.resize = "shrank" \/ CutsChain(mp, hash_ptr(old))
<1>1. /\ mp' = d.map
      /\ lost' = (lost \cup (IF cuts THEN Resolvable(mp) \ {old} ELSE {})) \ Resolvable(mp')
  BY DEF DeletedTo, Becomes
<1>2. /\ Present(mp') \subseteq Present(mp) /\ Twice(mp') \subseteq Twice(mp)
      /\ (d.ret \/ old \in Resolvable(mp)) /\ old \in Present(mp') => old \in Twice(mp)
      /\ ~cuts => Resolvable(mp) \ {old} \subseteq Resolvable(mp')
  BY <1>1, DeleteOutcomeBlocks DEF Based
<1> HIDE DEF cuts
<1> QED BY <1>1, <1>2

LEMMA MapDeleteApart ==
  ASSUME NoStray, HashesApart, Based, Apart, MapDelete
  PROVE  Apart'
<1>1. /\ step = "delete" /\ step' = (IF op \in Frees THEN "free" ELSE "leave") /\ op' = op
      /\ op \in {"realloc", "free", "destroy"}
      /\ UNCHANGED <<old, new, heap, held, stale>>
  BY DEF MapDelete, At, Continue, Based, ProcessInv, OpMatches
<1>2. PICK d \in DeleteOutcomes : (op \in Frees \/ d.ret) /\ DeletedTo(d)
  BY DEF MapDelete
<1>3. /\ Present(mp') \subseteq Present(mp) /\ Twice(mp') \subseteq Twice(mp)
      /\ (d.ret \/ old \in Resolvable(mp)) /\ old \in Present(mp') => old \in Twice(mp)
      /\ \A a \in Resolvable(mp) \ (lost \cup {old}) : a \in Resolvable(mp') \cup lost'
      /\ lost \subseteq lost' \cup Resolvable(mp')
  BY <1>2, DeletedBlocks
<1>4. /\ heap \ lost \subseteq Resolvable(mp)
      /\ Present(mp) \subseteq heap \cup stale \cup (IF op = "realloc" THEN {old} ELSE {})
      /\ Twice(mp) \subseteq stale
      /\ op \in Frees => old \in Resolvable(mp) \cup {NULL}
      /\ op = "realloc" => old \notin heap /\ new \in heap
      /\ NULL \notin Present(mp')
  BY <1>1, BlockMapAssumption
     DEF Apart, Complete, Sound, HandlesSafe, InHand, LeftBehind, Present, NULL
<1>5. old \in Present(mp') => old \in stale
  BY <1>1, <1>2, <1>3, <1>4 DEF Frees
<1>6. Complete'
  <2>1. ASSUME NEW a \in heap, a \notin lost', a # old PROVE a \in Resolvable(mp')
    BY <1>3, <1>4, <2>1
  <2>2. op = "realloc" => old \notin heap
    BY <1>4
  <2> QED BY <1>1, <2>1, <2>2 DEF Complete, InHand, Frees
<1>7. Sound'
  BY <1>1, <1>3, <1>4, <1>5 DEF Sound, InHand, LeftBehind, Frees
<1>8. HandlesSafe'
  BY <1>1, <1>4 DEF Apart, HandlesSafe, Frees
<1> QED BY <1>6, <1>7, <1>8 DEF Apart

LEMMA MapDeleteFailsApart ==
  ASSUME NoStray, HashesApart, Based, Apart, MapDeleteFails
  PROVE  Apart'
<1>1. /\ step = "delete" /\ step' = "leave" /\ op' = op /\ op = "realloc"
      /\ heap' = heap \ {new} /\ new' = NULL /\ stale' = stale \cup ({old, new} \ {NULL})
      /\ UNCHANGED <<old, held>>
  BY DEF MapDeleteFails, At, Continue
<1>2. PICK d \in DeleteOutcomes : DeletedTo(d)
  BY DEF MapDeleteFails
<1>3. /\ Present(mp') \subseteq Present(mp) /\ Twice(mp') \subseteq Twice(mp)
      /\ \A a \in Resolvable(mp) \ (lost \cup {old}) : a \in Resolvable(mp') \cup lost'
      /\ lost \subseteq lost' \cup Resolvable(mp')
  BY <1>2, DeletedBlocks
<1>4. /\ heap \ lost \subseteq Resolvable(mp)
      /\ Present(mp) \subseteq heap \cup stale \cup {old}
      /\ Twice(mp) \subseteq stale
      /\ old \notin heap /\ new \in heap \ held /\ held \subseteq heap
      /\ NULL \notin Present(mp')
  BY <1>1, BlockMapAssumption
     DEF Apart, Complete, Sound, HandlesSafe, InHand, LeftBehind, Present, NULL
<1>5. Complete'
  <2>1. ASSUME NEW a \in heap, a \notin lost', a # old PROVE a \in Resolvable(mp')
    BY <1>3, <1>4, <2>1
  <2> QED BY <1>1, <1>4, <2>1 DEF Complete, InHand
<1>6. Sound'
  BY <1>1, <1>3, <1>4 DEF Sound, InHand, LeftBehind
<1>7. HandlesSafe'
  BY <1>1, <1>4 DEF Apart, HandlesSafe, Frees
<1> QED BY <1>5, <1>6, <1>7 DEF Apart

LEMMA FreeBlockApart ==
  ASSUME Based, Apart, FreeBlock
  PROVE  Apart'
<1>1. /\ step = "free" /\ step' = "leave" /\ op' = op /\ op \in Frees /\ heap' = heap \ {old}
      /\ UNCHANGED <<old, new, mp, held, lost, stale>>
  BY DEF FreeBlock, At, Continue, table, history, Based, ProcessInv, OpMatches
<1>2. Complete' /\ Sound'
  BY <1>1 DEF Apart, Complete, Sound, InHand, LeftBehind
<1>3. HandlesSafe'
  BY <1>1 DEF Apart, HandlesSafe, Frees
<1> QED BY <1>2, <1>3 DEF Apart

LEMMA EmptyBlocks == Present(EmptyMap) = {} /\ Twice(EmptyMap) = {}
<1>1. ASSUME NEW a \in Addr PROVE ~HasEntry(EmptyMap, EntryOf(a))
  <2> SUFFICES ASSUME HasEntry(EmptyMap, EntryOf(a)) PROVE FALSE
    OBVIOUS
  <2>1. EntryOf(a) = EmptyEntry
    BY EmptyTable DEF HasEntry, BlockEntry
  <2> QED BY <2>1, BlockMapAssumption DEF EntryOf, EmptyEntry
<1> QED BY <1>1 DEF Present, Twice, HasEntry, HasTwice

LEMMA DestroyApart ==
  ASSUME Based, Apart, DestroyNext \/ DestroyUnmaps \/ Return
  PROVE  Apart'
<1> USE DEF Based, ProcessInv, OpMatches, Apart, Complete, Sound, HandlesSafe, InHand, LeftBehind,
            Frees, At, Continue, table, history
<1>2. CASE DestroyNext
  BY <1>2 DEF DestroyNext
<1>3. CASE DestroyUnmaps
  BY <1>3, EmptyBlocks DEF DestroyUnmaps
<1>4. CASE Return
  BY <1>4 DEF Return
<1> QED BY <1>2, <1>3, <1>4

LEMMA NextApart ==
  ASSUME NoStray, HashesApart, Based, Apart, [Next]_vars
  PROVE  Apart'
<1>1. CASE Sigint \/ HandlerReturns \/ HandlerRevisits \/ UNCHANGED vars
  BY <1>1 DEF Sigint, HandlerReturns, HandlerRevisits, table, history, vars, Apart, Complete, Sound,
              HandlesSafe, InHand, LeftBehind
<1> QED
  BY <1>1, CallApart, EnterApart, GuardApart, ObtainApart, ObtainNothingApart, MapSetApart,
     MapSetFailsApart, MapDeleteApart, MapDeleteFailsApart, FreeBlockApart, DestroyApart
     DEF Next, Stopped

LEMMA ApartAlways ==
  ASSUME NoStray, HashesApart
  PROVE  Spec => []Apart
<1>1. Init => Apart
  BY EmptyBlocks DEF Init, Apart, Complete, Sound, HandlesSafe, InHand, LeftBehind, Frees
<1>2. Based /\ Apart /\ [Next]_vars => Apart'
  BY NextApart
<1> QED BY <1>1, <1>2, ProcessAlways, TypesAlways, PTL DEF Spec, Based

-----------------------------------------------------------------------------
\* The guards nest at most twice and every state has its types, whatever an
\* interrupted or aborted operation (mem.c 66-111) left behind.
THEOREM GuardTypeCorrect ==
  ASSUME NoStray
  PROVE  Spec => []TypeOK
<1>1. ProcessInv /\ BlockTypes => TypeOK
  <2> SUFFICES ASSUME ProcessInv, BlockTypes PROVE TypeOK
    OBVIOUS
  <2>1. mp.entry_count \in 0 .. MaxCount
    BY BlockMapAssumption DEF BlockTypes, TableInv, TableOK
  <2>2. Len(guards) <= 2
    <3>1. Len(guards) \in {0, 1, 2}
      BY DEF ProcessInv, GuardsMatch
    <3>2. \A n \in {0, 1, 2} : n <= 2
      OBVIOUS
    <3> QED BY <3>1, <3>2
  <2> QED BY <2>1, <2>2 DEF ProcessInv, GuardsMatch, OpMatches, BlockTypes, TypeOK
<1> QED BY <1>1, ProcessAlways, TypesAlways, PTL

\* A handler that interrupts any operation of mem.c on a memory table, or
\* memtbl_destroy, resolves every live block but those a resize or a delete of
\* the map (map.c 125-128, 172-177, 197) has lost, and nothing else but the stale
\* entries of a failed reallocation (memtbl.c 60-66).
THEOREM HandlerFindsTable ==
  ASSUME NoStray
  PROVE  Spec => []HandlerSeesConsistentTable
<1>1. ASSUME HashesApart, Based, Apart PROVE HandlerSeesConsistentTable
  <2> SUFFICES ASSUME run = "handling"
               PROVE  /\ heap \ lost \subseteq Resolvable(mp)
                      /\ Resolvable(mp) \subseteq heap \cup stale
    BY DEF HandlerSeesConsistentTable
  <2>1. InHand = {} /\ LeftBehind = {}
    BY <1>1 DEF Based, ProcessInv, GuardsMatch, Unguarded, InHand, LeftBehind
  <2>2. Resolvable(mp) \subseteq Present(mp)
    BY <1>1, ResolvableBlocks DEF Based, BlockTypes
  <2> QED BY <1>1, <2>1, <2>2 DEF Apart, Complete, Sound
<1>2. ~HashesApart => HandlerSeesConsistentTable
  BY DEF HandlerSeesConsistentTable
<1>3. CASE HashesApart
  BY <1>1, <1>3, ProcessAlways, TypesAlways, ApartAlways, PTL DEF Based
<1>4. CASE ~HashesApart
  BY <1>2, <1>4, PTL
<1> QED BY <1>3, <1>4

\* What the client has a handle of when mem_alloc, mem_realloc or mem_free is
\* interrupted is live, even if the map (map.c) has lost its entry.
THEOREM HandlerFindsHandles ==
  ASSUME NoStray
  PROVE  Spec => []HandlesAreRegistered
<1>1. ASSUME HashesApart, Based, Apart PROVE HandlesAreRegistered
  <2> SUFFICES ASSUME run = "handling"
               PROVE  held \subseteq heap \cap (Resolvable(mp) \cup lost)
    BY DEF HandlesAreRegistered
  <2>1. InHand = {}
    BY <1>1 DEF Based, ProcessInv, GuardsMatch, Unguarded, InHand
  <2> QED BY <1>1, <2>1 DEF Apart, Complete, HandlesSafe
<1>2. ~HashesApart => HandlesAreRegistered
  BY DEF HandlesAreRegistered
<1>3. CASE HashesApart
  BY <1>1, <1>3, ProcessAlways, TypesAlways, ApartAlways, PTL DEF Based
<1>4. CASE ~HashesApart
  BY <1>2, <1>4, PTL
<1> QED BY <1>3, <1>4

\* The guards (mem.c 66-71) leave SIGINT as the application has installed it.
THEOREM GuardsRestore == Spec => []DispositionRestored
<1>1. ProcessInv => DispositionRestored
  BY DEF ProcessInv, GuardsMatch, OpMatches, Unguarded, DispositionRestored
<1> QED BY <1>1, ProcessAlways, PTL
=============================================================================
