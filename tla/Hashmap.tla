------------------------------ MODULE Hashmap ------------------------------
(***************************************************************************)
(* src/data_structures/hashmap: an array of slots, each the head of a      *)
(* chain of buckets.  Bucket_set and Bucket_destroy walk the chain by      *)
(* calling themselves on this->next; Bucket_get calls this->next->get with *)
(* this, and stays where it is.  One call is one step here, but for        *)
(* Hashmap_destroy, which takes the slots in turn.                         *)
(* A map serves one caller at a time.  The hash function is any function.  *)
(***************************************************************************)
EXTENDS Naturals, Sequences, FiniteSets

CONSTANTS
  Keys,        \* the strings used as keys
  Values,      \* what callers store
  NULL,
  NumSlots,    \* _MAX_HASHTABLE_KEYS
  get_hash,    \* Hashmap_get_hash, as a function
  MaxChain     \* bound: buckets in one slot

ASSUME MapAssumption ==
  /\ NULL \notin Values
  /\ NumSlots \in Nat \ {0}
  /\ get_hash \in [Keys -> Nat]
  /\ MaxChain \in Nat

Slots == 0..(NumSlots - 1)
Slot(k) == get_hash[k] % NumSlots

VARIABLES
  buckets,       \* per slot: its chain, from this->buckets[slot] on
  bucket_count,  \* this->bucket_count
  alive,         \* Hashmap_destroy has not been called
  turn,          \* the slot Hashmap_destroy is at
  frees,         \* history: per slot, how often each bucket was freed
  proc,          \* the process: running or crashed
  answer,        \* history: what the last get or get_bucket returned
  last           \* history: the key and value of the last set that succeeded

vars == <<buckets, bucket_count, alive, turn, frees, proc, answer, last>>

Bucket == [key : Keys, value : Values]

Init ==
  /\ buckets = [s \in Slots |-> <<>>]
  /\ bucket_count = 0
  /\ alive = TRUE
  /\ turn = 0
  /\ frees = [s \in Slots |-> <<>>]
  /\ proc = "running"
  /\ answer = NULL
  /\ last = NULL

-----------------------------------------------------------------------------
(* Variant: the new bucket becomes the head of the chain. *)
AtTheHead(chain, k, v) == <<[key |-> k, value |-> v]>> \o chain

(* Bucket_set on a bucket that has a key hands the pair on to the next one,
   and the last one makes a new bucket; the keys are not compared.          *)
Chained(chain, k, v) == Append(chain, [key |-> k, value |-> v])

(* Variant: every new bucket is counted. *)
CountsBuckets(chain) == 1

NewSlots(chain) == IF chain = <<>> THEN 1 ELSE 0

Full == ~(bucket_count < NumSlots)

Ready == alive /\ proc = "running"

(* Hashmap_set *)
Set(k, v) ==
  /\ Ready /\ ~Full
  /\ Len(buckets[Slot(k)]) < MaxChain
  /\ buckets' = [buckets EXCEPT ![Slot(k)] = Chained(@, k, v)]
  /\ bucket_count' = bucket_count + NewSlots(buckets[Slot(k)])
  /\ last' = [key |-> k, value |-> v]
  /\ UNCHANGED <<alive, turn, frees, proc, answer>>

(* "out of space", even for a key whose slot is in use. *)
SetFails ==
  /\ Ready /\ Full
  /\ UNCHANGED vars

(* The value of a key: that of the first bucket of the chain that has it. *)
FirstOf(chain, k) ==
  LET matching == {i \in DOMAIN chain : chain[i].key = k}
  IN IF matching = {} THEN NULL
     ELSE chain[CHOOSE i \in matching : \A j \in matching : i <= j].value

(* Bucket_get on the head: its value if the key is its own, and NULL if it is
   not and the head is alone.                                              *)
HeadValue(chain, k) ==
  IF chain # <<>> /\ chain[1].key = k THEN chain[1].value ELSE NULL

(* A head with another key and a bucket behind it asks itself again, until
   the stack is used up (bucket.c:141).                                    *)
AsksItself(chain, k) == Len(chain) > 1 /\ chain[1].key # k

(* Hashmap_get *)
Get(k) ==
  /\ Ready
  /\ LET chain == buckets[Slot(k)]
     IN \/ /\ ~AsksItself(chain, k)
           /\ answer' = HeadValue(chain, k)
           /\ UNCHANGED proc
        \/ /\ AsksItself(chain, k)
           /\ proc' = "crashed"
           /\ UNCHANGED answer
  /\ UNCHANGED <<buckets, bucket_count, alive, turn, frees, last>>

(* Hashmap_get_bucket: the head of the chain, whatever its key. *)
GetBucket(k) ==
  /\ Ready
  /\ answer' = IF buckets[Slot(k)] = <<>> THEN NULL ELSE buckets[Slot(k)][1].value
  /\ UNCHANGED <<buckets, bucket_count, alive, turn, frees, proc, last>>

-----------------------------------------------------------------------------
(* Hashmap_destroy *)

(* Variant: the next bucket is destroyed by the call, and freed by nobody. *)
FreesOfNone(chain) == [i \in DOMAIN chain |-> IF i = 1 THEN 1 ELSE 0]

(* Bucket_destroy: a bucket frees itself, and the one before it, which has
   called it, frees it once more.                                          *)
FreesOf(chain) == [i \in DOMAIN chain |-> IF i = 1 THEN 1 ELSE 2]

BeginDestroy ==
  /\ Ready
  /\ alive' = FALSE
  /\ UNCHANGED <<buckets, bucket_count, turn, frees, proc, answer, last>>

DestroySlot ==
  /\ proc = "running" /\ ~alive /\ turn < NumSlots
  /\ frees' = [frees EXCEPT ![turn] = FreesOf(buckets[turn])]
  /\ \/ proc' = "running" /\ turn' = turn + 1
     \/ /\ Len(buckets[turn]) > 1     \* free of what was freed
        /\ proc' = "crashed" /\ UNCHANGED turn
  /\ buckets' = [buckets EXCEPT ![turn] = <<>>]
  /\ UNCHANGED <<bucket_count, alive, answer, last>>

-----------------------------------------------------------------------------
Next ==
  \/ \E k \in Keys, v \in Values : Set(k, v)
  \/ SetFails
  \/ \E k \in Keys : Get(k) \/ GetBucket(k)
  \/ BeginDestroy \/ DestroySlot

Spec == Init /\ [][Next]_vars

-----------------------------------------------------------------------------
(* Properties *)

(* Every variable has its type; the counter never passes the array's size. *)
TypeOK ==
  /\ buckets \in [Slots -> Seq(Bucket)]
  /\ bucket_count \in 0..NumSlots
  /\ alive \in BOOLEAN
  /\ turn \in 0..NumSlots
  /\ frees \in [Slots -> Seq(Nat)]
  /\ proc \in {"running", "crashed"}
  /\ answer \in Values \cup {NULL}
  /\ last \in Bucket \cup {NULL}

(* Every pair is in the slot its key is looked up in, and the counter is the
   number of slots in use: "out of space" (hashmap.c:98) is said when the last
   slot is taken, and not before, however long the chains are.               *)
Placed ==
  alive =>
    /\ \A s \in Slots : \A i \in DOMAIN buckets[s] : Slot(buckets[s][i].key) = s
    /\ bucket_count = Cardinality({s \in Slots : buckets[s] # <<>>})

(* Hashmap implements FirstMap: the first value of a key stays whatever keys
   share its slot, and a get that returns returns that value: never NULL for
   a key that is stored, never the value of a neighbour.                    *)
FM == INSTANCE FirstMap WITH
        Items <- Values, NoValue <- NULL, found <- answer,
        contents <- [k \in Keys |->
                       IF alive THEN FirstOf(buckets[Slot(k)], k) ELSE NULL]

ImplementsFirstMap == FM!MapSpec

(* The destruction of the map frees every bucket, and those that are alone in
   their slot once (bucket.c:65-68).                                         *)
FreedOnceIfAlone ==
  \A s \in Slots :
    /\ ~alive /\ s < turn => /\ buckets[s] = <<>>
                              /\ \A i \in DOMAIN frees[s] : frees[s][i] >= 1
    /\ Len(frees[s]) <= 1 => \A i \in DOMAIN frees[s] : frees[s][i] <= 1

(* A map whose keys have a slot each never stops the process: what a get and
   the destruction do wrong, they do on a chain of two buckets or more.      *)
SafeWithoutChains ==
  (\A s \in Slots : Len(buckets[s]) <= 1 /\ Len(frees[s]) <= 1) => proc = "running"

(* hashmap.c:89: set "stores a value in a bucket if it exists, or adds a
   bucket if it's needed".  Read: after a set that succeeded, the key has the
   value.                                                                   *)
StoresValue ==
  alive /\ last # NULL => FirstOf(buckets[Slot(last.key)], last.key) = last.value

(* hashmap.c:122-123: get "retreive[s] a consty value from the hashmap" and
   returns the "value stored for the key".  Read: while the map is in use, a
   get returns.                                                             *)
GetReturns == alive => proc = "running"
=============================================================================
