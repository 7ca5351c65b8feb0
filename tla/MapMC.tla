------------------------------- MODULE MapMC -------------------------------
(* Small instances of Map: keys and their hashes.                          *)
EXTENDS Map, TLC

CONSTANTS ka, kb, kc, kd,  \* keys
          v1, v2           \* value handles

\* In a table of 6, ka, kb and kc share the last slot and kd the first: their
\* probe chains run into each other around the end.  In a table of 12, ka and
\* kc still collide.
Colliding == (ka :> 5) @@ (kb :> 11) @@ (kc :> 17) @@ (kd :> 6)

\* A home slot for each key in a table of 4.
ApartIn4 == (ka :> 1) @@ (kb :> 2) @@ (kc :> 3)

\* kd hashes to 0, the mark of an empty slot; ka and kb hash alike.
Awkward == (ka :> 3) @@ (kb :> 3) @@ (kc :> 7) @@ (kd :> 0)
=============================================================================
