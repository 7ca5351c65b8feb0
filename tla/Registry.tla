------------------------------ MODULE Registry ------------------------------
(***************************************************************************)
(* What src/datastruct/memtbl.h promises of a memory table, with no hash   *)
(* table in sight: the table knows exactly the blocks allocated through it *)
(* and not freed yet, and destroying it frees every one of them.           *)
(***************************************************************************)
CONSTANT Addr   \* block addresses

VARIABLES state,   \* "none", "open", or "closing" while being destroyed
          blocks   \* the blocks the table owns

regVars == <<state, blocks>>

RegInit == state = "none" /\ blocks = {}

Open == state = "none" /\ state' = "open" /\ UNCHANGED blocks

Allocate(a) ==
  state = "open" /\ a \notin blocks /\ blocks' = blocks \cup {a} /\ UNCHANGED state

Release(a) ==
  state = "open" /\ a \in blocks /\ blocks' = blocks \ {a} /\ UNCHANGED state

\* A reallocation that moves the block.
Move(a, b) ==
  /\ state = "open" /\ a \in blocks /\ b \notin blocks
  /\ blocks' = (blocks \ {a}) \cup {b} /\ UNCHANGED state

Close == state = "open" /\ state' = "closing" /\ UNCHANGED blocks

ReleaseNext ==
  /\ state = "closing"
  /\ \E a \in blocks : blocks' = blocks \ {a}
  /\ UNCHANGED state

\* Only a table with no block left is gone.
Closed == state = "closing" /\ blocks = {} /\ state' = "none" /\ UNCHANGED blocks

RegNext ==
  \/ Open \/ Close \/ ReleaseNext \/ Closed
  \/ \E a \in Addr : Allocate(a) \/ Release(a)
  \/ \E a, b \in Addr : Move(a, b)

RegSafety == RegInit /\ [][RegNext]_regVars

RegSpec == RegSafety /\ WF_regVars(ReleaseNext \/ Closed)
=============================================================================
