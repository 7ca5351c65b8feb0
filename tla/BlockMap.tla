------------------------------ MODULE BlockMap ------------------------------
(***************************************************************************)
(* The map of a memory table (src/datastruct/memtbl.c): the hash table of  *)
(* module MapTable with the addresses of the blocks as keys and the        *)
(* handles of the blocks as values.  A handle is the address of its block: *)
(* size and allocator are the same for every handle of one table.          *)
(***************************************************************************)
EXTENDS MapTable

CONSTANTS Addr,      \* the addresses malloc can return for client blocks
          Hash,      \* Hash[a]: hash_ptr of address a
          NullHash,  \* hash_ptr of the NULL pointer
          MaxCount   \* bound on the map's entry_count (UINT_MAX in the code)

ASSUME BlockMapAssumption ==
  /\ Hash \in [Addr -> Nat] /\ NullHash \in Nat /\ MaxCount \in Nat
  /\ NoHandle \notin Addr /\ Junk \notin Addr

\* The address in an invalid handle.
NULL == NoHandle

-----------------------------------------------------------------------------
\* mem_p of the handle with address a: what the map holds for a.
memtbl_p(m, a) == do_get(m, Hash[a])

\* The handles whose mem_p is not NULL.
Resolvable(m) == {a \in Addr : memtbl_p(m, a) # NULL}

hash_ptr(p) == IF p = NULL THEN NullHash ELSE Hash[p]

\* Addresses hash apart from each other, from NULL and from 0.
HashesApart ==
  /\ \A a, b \in Addr : a # b => Hash[a] # Hash[b]
  /\ \A a \in Addr : Hash[a] \notin {0, NullHash}
=============================================================================
