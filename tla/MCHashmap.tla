----------------------------- MODULE MCHashmap -----------------------------
(* Two slots and three keys, two of which share a slot. *)
EXTENDS Hashmap

CONSTANTS k1, k2, k3, a, b

MCHash == [k \in Keys |-> IF k = k2 THEN 1 ELSE IF k = k3 THEN 4 ELSE 2]
=============================================================================
