-------------------------------- MODULE Map --------------------------------
(***************************************************************************)
(* The map of src/datastruct/map.h as its client sees it: create, destroy, *)
(* set, delete and iterate, over the hash table of module MapTable.  The   *)
(* reads (map_get) change nothing and appear in the properties.            *)
(*                                                                         *)
(* The history variables told, resize, cut and drift record what the       *)
(* client was told and which of the table's lossy steps have happened.     *)
(***************************************************************************)
EXTENDS MapTable

CONSTANTS Key,       \* client keys
          StrKey,    \* the keys of C type str; the others are void *
          Hash,      \* Hash[k]: the value of hash_str or hash_ptr for k
          Handle,    \* the mem_handles the client stores
          Releasable, \* those of them their owner may free meanwhile
          MaxCount   \* bound on entry_count (UINT_MAX in the code)

ASSUME MapAssumption ==
  /\ StrKey \subseteq Key
  /\ Hash \in [Key -> Nat]
  /\ Releasable \subseteq Handle
  /\ NoHandle \notin Handle /\ Junk \notin Handle
  /\ MaxCount \in Nat

VARIABLES phase,    \* "none" before map_create and after map_destroy, else "made"
          mp,       \* the map (meaningful when made)
          live,     \* the handles whose mem_p is not NULL
          walk,     \* the client's iteration: "off", "at" an entry, "done"
          it,       \* the map_iter
          visited,  \* slots the iteration has delivered
          told,     \* told[k]: what the calls' results say is stored for k
          resize,   \* what the last call did: "grew", "shrank", "failed" or "no"
          cut,      \* a resize, or a delete in front of an occupied slot, happened
          drift     \* a failed growth happened

vars == <<phase, mp, live, walk, it, visited, told, resize, cut, drift>>

NothingTold == [k \in Key |-> NoHandle]

Init ==
  /\ phase = "none" /\ mp = EmptyMap
  /\ live = Handle
  /\ walk = "off" /\ it = DoneIter /\ visited = {}
  /\ told = NothingTold /\ resize = "no" /\ cut = FALSE /\ drift = FALSE

-----------------------------------------------------------------------------
\* map_create allocates the map and its cleared table; when the second
\* allocation fails the first is freed, so a failed call changes nothing.
Create ==
  /\ phase = "none"
  /\ phase' = "made" /\ mp' = EmptyMap
  /\ told' = NothingTold /\ resize' = "no" /\ cut' = FALSE /\ drift' = FALSE
  /\ UNCHANGED <<live, walk, it, visited>>

Destroy ==
  /\ phase = "made"
  /\ phase' = "none" /\ mp' = EmptyMap
  /\ walk' = "off" /\ it' = DoneIter /\ visited' = {}
  /\ told' = NothingTold /\ resize' = "no" /\ cut' = FALSE /\ drift' = FALSE
  /\ UNCHANGED live

\* A change of the map makes an iterator undefined: the client drops it.
DropIter == walk' = "off" /\ it' = DoneIter /\ visited' = {}

\* map_set_str asks for a value with a non-NULL mem_p, map_set_ptr for a valid
\* handle; a refused value returns false before the table is touched.
Accepts(k, v) == v # NoHandle /\ (k \in StrKey => v \in live)

Refuse(k, v) ==
  /\ phase = "made" /\ ~Accepts(k, v)
  /\ resize' = "no"
  /\ UNCHANGED <<phase, mp, live, walk, it, visited, told, cut, drift>>

Set(k, v, can_alloc) ==
  /\ phase = "made" /\ Accepts(k, v) /\ mp.entry_count < MaxCount
  /\ \E o \in do_set(mp, Hash[k], v, can_alloc) :
       /\ mp' = o.map
       /\ told' = IF o.ret THEN [told EXCEPT ![k] = v] ELSE told
       /\ resize' = o.resize
       /\ cut' = (cut \/ o.resize = "grew")
       /\ drift' = (drift \/ o.resize = "failed")
  /\ DropIter
  /\ UNCHANGED <<phase, live>>

Delete(k, can_alloc) ==
  /\ phase = "made"
  /\ \E o \in do_delete(mp, Hash[k], can_alloc) :
       /\ mp' = o.map
       /\ resize' = o.resize
       /\ cut' = (cut \/ o.resize = "shrank" \/ CutsChain(mp, Hash[k]))
  /\ told' = [told EXCEPT ![k] = NoHandle]
  /\ DropIter
  /\ UNCHANGED <<phase, live, drift>>

-----------------------------------------------------------------------------
\* The client's loop: for (it = first; !done(it); it = next(it)) { body }.
Arrive(i) ==
  /\ it' = i
  /\ walk' = IF map_iter_done(i, live) THEN "done" ELSE "at"
  /\ visited' = IF map_iter_done(i, live) THEN visited ELSE visited \cup {i.pos}
  /\ UNCHANGED <<phase, mp, live, told, resize, cut, drift>>

IterFirst == phase = "made" /\ walk = "off" /\ Arrive(map_first_value_iter(mp, live))

IterNext == walk = "at" /\ Arrive(map_next_value_iter(mp, it, live))

\* The owner of a stored handle frees it: the map keeps the entry, mem_p of the
\* handle becomes NULL.  The loop body of memtbl_destroy does this.
Release(v) ==
  /\ v \in live /\ live' = live \ {v}
  /\ UNCHANGED <<phase, mp, walk, it, visited, told, resize, cut, drift>>

Next ==
  \/ Create \/ Destroy
  \/ \E k \in Key, v \in Handle \cup {NoHandle} : Refuse(k, v)
  \/ \E k \in Key, v \in Handle, can_alloc \in BOOLEAN : Set(k, v, can_alloc)
  \/ \E k \in Key, can_alloc \in BOOLEAN : Delete(k, can_alloc)
  \/ IterFirst \/ IterNext
  \/ \E v \in Releasable : Release(v)

Spec == Init /\ [][Next]_vars

\* The client's loop keeps calling map_next_value_iter until it is done.
FairSpec == Spec /\ WF_vars(IterNext)
-----------------------------------------------------------------------------
\* Types.  A value handle of the table is one the client stored, none, or Junk.
EntryType == [key_hash : Nat, value_handle : Handle \cup {NoHandle, Junk}]

MapOK(m) ==
  /\ m = [entry_count |-> m.entry_count, table_size |-> m.table_size,
          entries |-> m.entries]
  /\ m.table_size \in Nat \ {0}
  /\ m.entry_count \in 0 .. MaxCount
  /\ m.entries \in [Slots(m) -> EntryType]

\* The types of the map, the client's loop and the history variables.
TypeOK ==
  /\ phase \in {"none", "made"}
  /\ MapOK(mp)
  /\ live \subseteq Handle
  /\ walk \in {"off", "at", "done"}
  /\ it \in [pos : Nat, value_handle : Handle \cup {NoHandle}]
  /\ visited \subseteq Nat
  /\ told \in [Key -> Handle \cup {NoHandle}]
  /\ resize \in {"no", "grew", "shrank", "failed"}
  /\ cut \in BOOLEAN /\ drift \in BOOLEAN

\* The assert of find_entry_pos never fails: whatever the calls and failed
\* resizes so far, a probe for any key finds its entry or an empty slot.
ProbeStops == \A k \in Key : find_entry_pos(mp, Hash[k]) \in Slots(mp)

\* entry_count is never below the number of occupied slots, although failed
\* growths, lost entries and hash-0 keys make it drift away from it; so the
\* --entry_count of do_delete never wraps below 0.
CountCoversEntries == Cardinality(Occupied(mp)) <= mp.entry_count

\* A growth is never undone by a delete right after it, nor a shrink by a set
\* right after it (the comment of do_delete on its shrink threshold).
NoThrash ==
  [][/\ resize = "grew" => resize' # "shrank"
     /\ resize = "shrank" => resize' # "grew"]_resize

\* No key hashes to 0 and no two keys hash alike.
HashesApart ==
  /\ \A k \in Key : Hash[k] # 0
  /\ \A j, k \in Key : j # k => Hash[j] # Hash[k]

\* Until the first resize or delete in front of an occupied slot, map_get
\* answers for every key exactly what the client was told, whatever collisions,
\* overwrites, failed growths and other deletes came before.
ExactUntilCut ==
  phase = "made" /\ HashesApart /\ ~cut =>
    \A k \in Key : do_get(mp, Hash[k]) = told[k]

\* Until then entry_count counts the stored keys, unless a growth has failed.
CountsUntilCut ==
  phase = "made" /\ HashesApart /\ ~cut /\ ~drift =>
    mp.entry_count = Cardinality({k \in Key : told[k] # NoHandle})

\* A finished iteration has delivered every entry whose value is still usable,
\* also when the loop body freed the values it was given.
IterationComplete ==
  walk = "done" =>
    \A p \in Slots(mp) : mp.entries[p].value_handle \in live => p \in visited

\* An iteration never delivers a slot twice, and only entries the map holds.
IterationSound ==
  [][walk' = "at" /\ visited' # {} /\ it' # it =>
       it'.pos \notin visited /\ mp.entries[it'.pos].value_handle = it'.value_handle]_vars

\* A loop over an unchanged map ends.
IterationEnds == walk = "at" ~> walk # "at"

-----------------------------------------------------------------------------
\* What map.h promises and the table does not keep: map_get returns the value
\* stored (map.h 85), which a set that returns true has stored (map.h 62-68).
StoredIsFound ==
  \A k \in Key : told[k] # NoHandle => do_get(mp, Hash[k]) = told[k]
=============================================================================
