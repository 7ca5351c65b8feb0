------------------------------ MODULE MemtblMC ------------------------------
(* Small instances of Memtbl: block addresses and their hashes.            *)
EXTENDS Memtbl, TLC

CONSTANTS a1, a2, a3, a4, a5  \* addresses

\* Every address has a home slot of its own.
ApartIn8 == (a1 :> 1) @@ (a2 :> 2) @@ (a3 :> 15) @@ (a4 :> 8)

\* All homes are slot 3, the last of a table of 4; in a table of 8, a1 and a3
\* still collide.
Colliding == (a1 :> 3) @@ (a2 :> 7) @@ (a3 :> 11)

\* Apart in a table of 8; in a table of 16, a3 and a4 live in the upper half.
SpreadIn16 == (a1 :> 6) @@ (a2 :> 7) @@ (a3 :> 8) @@ (a4 :> 12) @@ (a5 :> 5)
=============================================================================
