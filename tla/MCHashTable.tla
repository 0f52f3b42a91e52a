----------------------------- MODULE MCHashTable -----------------------------
(***************************************************************************)
(* Definitions for checking HashTable: three keys in two buckets, two of   *)
(* them colliding in the first, so a bucket list holds two entries and     *)
(* Remove erases from the middle or the tail.                              *)
(***************************************************************************)
EXTENDS HashTable, TLC

CONSTANTS k1, k2, k3

MCKeyHash == (k1 :> 0) @@ (k2 :> 2) @@ (k3 :> 1)

MCFailuresNone == {}

MCFailuresAll == {"Reserve", "PushBack", "AddTail"}

=============================================================================
