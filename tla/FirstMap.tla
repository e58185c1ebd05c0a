------------------------------ MODULE FirstMap ------------------------------
(***************************************************************************)
(* What a caller of Hashmap can rely on, without buckets, chains or hash   *)
(* values: a map from keys to values in which the first value stored for a *)
(* key stays.  A store may be refused, and then changes nothing; a bucket  *)
(* that is asked for by its key may be that of another key.                *)
(***************************************************************************)
CONSTANTS Keys, Items, NoValue

VARIABLES
  contents,  \* the value of each key, NoValue while it has none
  found      \* what the last lookup returned

MapInit ==
  /\ contents = [k \in Keys |-> NoValue]
  /\ found = NoValue

Store(k, v) ==
  /\ contents' = [contents EXCEPT ![k] = IF @ = NoValue THEN v ELSE @]
  /\ UNCHANGED found

Lookup(k) ==
  /\ found' = contents[k]
  /\ UNCHANGED contents

SomeBucket ==
  /\ \E k \in Keys : found' = contents[k]
  /\ UNCHANGED contents

Forget ==
  /\ contents' = [k \in Keys |-> NoValue]
  /\ UNCHANGED found

MapNext ==
  \/ \E k \in Keys, v \in Items : Store(k, v)
  \/ \E k \in Keys : Lookup(k)
  \/ SomeBucket \/ Forget

MapSpec == MapInit /\ [][MapNext]_<<contents, found>>
=============================================================================
