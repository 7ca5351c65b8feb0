--------------------------- MODULE SigintGuardMC ---------------------------
(* Small instances of SigintGuard: block addresses and their hashes.       *)
EXTENDS SigintGuard, TLC

CONSTANTS b1, b2, b3  \* addresses

\* All homes are slot 3, the last of a table of 4; in a table of 8, b1 and b3
\* still collide.
Colliding == (b1 :> 3) @@ (b2 :> 7) @@ (b3 :> 11)
=============================================================================
