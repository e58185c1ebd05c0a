----------------------------- MODULE Maps_proofs -----------------------------
(***************************************************************************)
(* Proofs about maps, and about the decoder that makes one of a text.      *)
(*                                                                         *)
(* Hashmap, for every set of keys and every hash function.  Two slots      *)
(* never mix, since a pair is only ever put in the slot of its key; the    *)
(* counter then counts the slots in use, and the map implements FirstMap,  *)
(* whatever the keys that share a slot.                                    *)
(*                                                                         *)
(* Bencode, for dictionaries of any size and any depth, with anything      *)
(* behind them, cut off anywhere.  As long as the decoder has not come to  *)
(* the cut, each of its calls stands for a value of the dictionary, at its *)
(* place in the text, with what is to be kept of the entries behind it.    *)
(***************************************************************************)
EXTENDS Hashmap, Bencode, FiniteSetTheorems, TLAPS

Seqs == INSTANCE SequencesExt
Order == INSTANCE WellFoundedInduction
Series == INSTANCE SequenceTheorems

-----------------------------------------------------------------------------
(* What is shown step by step up to a number, by the least one at which it
   would fail.                                                               *)

LEMMA Least ==
  ASSUME NEW T, T \subseteq Nat, T # {}
  PROVE  \E x \in T : \A y \in T : x <= y
<1> DEFINE R == Order!OpToRel(<, Nat)
<1>1. Order!IsWellFoundedOn(R, Nat)
  BY Order!NatLessThanWellFounded, Zenon
<1>2. \A x, y \in Nat : x < y => <<x, y>> \in R
  BY Zenon DEF Order!OpToRel
<1> HIDE DEF R
<1>3. PICK x \in T : \A y \in T : ~(<<y, x>> \in R)
  BY <1>1, Order!WFMin, Zenon
<1>4. ASSUME NEW y \in T
      PROVE  x <= y
  <2>1. x \in Nat /\ y \in Nat
    OBVIOUS
  <2>2. ~(y < x)
    BY <1>2, <1>3, <2>1, Zenon
  <2> QED
    BY <2>1, <2>2
<1> QED
  BY <1>4

LEMMA Upward ==
  ASSUME NEW n \in Nat, NEW G, 0 \in G, \A k \in 1..n : k - 1 \in G => k \in G
  PROVE  \A k \in 0..n : k \in G
<1> SUFFICES ASSUME (0..n) \ G # {}
             PROVE  FALSE
  OBVIOUS
<1>1. (0..n) \ G \subseteq Nat
  OBVIOUS
<1>2. PICK m \in (0..n) \ G : \A y \in (0..n) \ G : m <= y
  BY <1>1, Least, Zenon
<1>3. m # 0 /\ m \in 0..n /\ m \notin G
  BY <1>2
<1>4. m \in 1..n /\ m - 1 \in 0..n /\ ~(m <= m - 1)
  BY <1>3
<1>5. m - 1 \in G
  BY <1>2, <1>4
<1> QED
  BY <1>3, <1>4, <1>5

(* A function that recurs from one number to the next exists. *)
Recursion(S, n, a, g, f) ==
  /\ f \in [0..n -> S] /\ f[0] = a
  /\ \A k \in 1..n : f[k] = g[<<k, f[k - 1]>>]

LEMMA Recurs ==
  ASSUME NEW S, NEW n \in Nat, NEW a \in S, NEW g \in [(1..n) \X S -> S]
  PROVE  \E f : Recursion(S, n, a, g, f)
<1> DEFINE Steps(m, f) == /\ f \in [0..m -> S] /\ f[0] = a
                          /\ \A k \in 1..m : f[k] = g[<<k, f[k - 1]>>]
           G == {m \in 0..n : \E f : Steps(m, f)}
<1>1. 0 \in G
  <2>1. Steps(0, [k \in 0..0 |-> a])
    OBVIOUS
  <2>2. 0 \in 0..n
    OBVIOUS
  <2> QED
    BY <2>1, <2>2
<1>2. ASSUME NEW m \in 1..n, m - 1 \in G
      PROVE  m \in G
  <2>1. PICK f : Steps(m - 1, f)
    BY <1>2
  <2> DEFINE v == g[<<m, f[m - 1]>>]
             h == [k \in 0..m |-> IF k = m THEN v ELSE f[k]]
  <2>2. f[m - 1] \in S /\ v \in S
    BY <2>1
  <2> HIDE DEF v
  <2>3. /\ h \in [0..m -> S] /\ h[m] = v
        /\ \A k \in 0..(m - 1) : h[k] = f[k]
    BY <2>1, <2>2
  <2> HIDE DEF h
  <2>4. h[0] = a
    BY <2>1, <2>3
  <2>5. ASSUME NEW k \in 1..m
        PROVE  h[k] = g[<<k, h[k - 1]>>]
    <3>1. k - 1 \in 0..(m - 1) /\ h[k - 1] = f[k - 1]
      BY <2>3
    <3>2. CASE k = m
      BY <2>3, <3>1, <3>2 DEF v
    <3>3. CASE k # m
      <4>1. k \in 1..(m - 1) /\ k \in 0..(m - 1)
        BY <3>3
      <4> QED
        BY <2>1, <2>3, <3>1, <4>1
    <3> QED
      BY <3>2, <3>3
  <2>6. Steps(m, h)
    BY <2>3, <2>4, <2>5
  <2>7. m \in 0..n
    OBVIOUS
  <2> HIDE DEF Steps
  <2> QED
    BY <2>6, <2>7
<1>3. n \in G
  <2> HIDE DEF G
  <2>1. \A k \in 0..n : k \in G
    BY <1>1, <1>2, Upward, Zenon
  <2> QED
    BY <2>1
<1>4. PICK f : Steps(n, f)
  BY <1>3
<1>5. Recursion(S, n, a, g, f)
  BY <1>4 DEF Recursion
<1> QED
  BY <1>5

-----------------------------------------------------------------------------
(* The slots and the chains *)

(* A hash value has a slot of the array. *)
LEMMA Modulus ==
  ASSUME NEW h \in Nat, NEW n \in Nat \ {0}
  PROVE  h % n \in 0..(n - 1)
  BY SMT

LEMMA SlotOfKey == \A k \in Keys : Slot(k) \in Slots
<1> SUFFICES ASSUME NEW k \in Keys PROVE Slot(k) \in Slots
  OBVIOUS
<1>1. get_hash[k] \in Nat /\ NumSlots \in Nat \ {0}
  BY MapAssumption
<1> QED
  BY <1>1, Modulus DEF Slot, Slots

(* What Bucket_set makes of a chain. *)
LEMMA ChainedEffect ==
  ASSUME NEW chain \in Seq(Bucket), NEW k \in Keys, NEW v \in Values
  PROVE  /\ Chained(chain, k, v) \in Seq(Bucket)
         /\ Chained(chain, k, v) # <<>>
         /\ Len(chain) \in Nat /\ DOMAIN chain = 1..Len(chain)
         /\ Len(Chained(chain, k, v)) = Len(chain) + 1
         /\ DOMAIN Chained(chain, k, v) = 1..(Len(chain) + 1)
         /\ \A i \in DOMAIN chain : Chained(chain, k, v)[i] = chain[i]
         /\ Chained(chain, k, v)[Len(chain) + 1] = [key |-> k, value |-> v]
<1>1. [key |-> k, value |-> v] \in Bucket
  BY DEF Bucket
<1>2. Append(chain, [key |-> k, value |-> v]) # <<>>
  <2>1. Len(Append(chain, [key |-> k, value |-> v])) = Len(chain) + 1 /\ Len(chain) \in Nat
    BY <1>1
  <2>2. Len(<<>>) = 0
    OBVIOUS
  <2> QED
    BY <2>1, <2>2
<1> QED
  BY <1>1, <1>2 DEF Chained

(* The first bucket with the key is the one FirstOf finds. *)
LEMMA FirstOfIs ==
  ASSUME NEW chain \in Seq(Bucket), NEW k, NEW i \in DOMAIN chain,
         chain[i].key = k,
         \A j \in DOMAIN chain : chain[j].key = k => i <= j
  PROVE  FirstOf(chain, k) = chain[i].value
<1> DEFINE matching == {j \in DOMAIN chain : chain[j].key = k}
<1>1. i \in matching /\ matching \subseteq Nat /\ \A j \in matching : i <= j
  OBVIOUS
<1>2. (CHOOSE j \in matching : \A l \in matching : j <= l) = i
  <2> HIDE DEF matching
  <2>1. \A j \in matching : (\A l \in matching : j <= l) => j = i
    BY <1>1
  <2> QED
    BY <1>1, <2>1
<1> QED
  BY <1>1, <1>2 DEF FirstOf

LEMMA FirstOfNone ==
  ASSUME NEW chain, NEW k, \A j \in DOMAIN chain : chain[j].key # k
  PROVE  FirstOf(chain, k) = NULL
  BY DEF FirstOf

(* A set does not move the first value of any key, and gives one to a key
   that has none.                                                           *)
LEMMA FirstOfChained ==
  ASSUME NEW chain \in Seq(Bucket), NEW k \in Keys, NEW v \in Values, NEW j \in Keys
  PROVE  FirstOf(Chained(chain, k, v), j) =
           IF j = k /\ FirstOf(chain, j) = NULL THEN v ELSE FirstOf(chain, j)
<1> DEFINE longer == Chained(chain, k, v)
           n == Len(chain)
           matching == {i \in DOMAIN chain : chain[i].key = j}
<1>1. /\ longer \in Seq(Bucket) /\ n \in Nat /\ DOMAIN chain = 1..n
      /\ DOMAIN longer = 1..(n + 1)
      /\ \A i \in DOMAIN chain : longer[i] = chain[i]
      /\ longer[n + 1] = [key |-> k, value |-> v]
  BY ChainedEffect
<1>2. CASE matching # {}
  <2>1. matching \subseteq Nat
    BY <1>1
  <2>2. PICK i \in matching : \A l \in matching : i <= l
    BY <1>2, <2>1, Least
  <2>3. i \in DOMAIN chain /\ chain[i].key = j /\ chain[i].value \in Values
    <3>1. i \in DOMAIN chain /\ chain[i].key = j
      BY <2>2
    <3>2. chain[i] \in Bucket
      BY <3>1
    <3> QED
      BY <3>1, <3>2 DEF Bucket
  <2>4. FirstOf(chain, j) = chain[i].value
    BY <2>2, <2>3, FirstOfIs
  <2>5. FirstOf(longer, j) = longer[i].value
    <3>1. i \in DOMAIN longer /\ longer[i].key = j
      BY <1>1, <2>3
    <3>2. \A l \in DOMAIN longer : longer[l].key = j => i <= l
      BY <1>1, <2>2, <2>3
    <3> HIDE DEF longer
    <3> QED
      BY <1>1, <3>1, <3>2, FirstOfIs
  <2>6. chain[i].value # NULL
    BY <2>3, MapAssumption
  <2> QED
    BY <1>1, <2>3, <2>4, <2>5, <2>6
<1>3. CASE matching = {}
  <2>1. FirstOf(chain, j) = NULL
    BY <1>3, FirstOfNone
  <2>2. CASE j = k
    <3>1. n + 1 \in DOMAIN longer /\ longer[n + 1].key = j
      BY <1>1, <2>2
    <3>2. \A l \in DOMAIN longer : longer[l].key = j => n + 1 <= l
      BY <1>1, <1>3
    <3>3. FirstOf(longer, j) = longer[n + 1].value
      <4> HIDE DEF longer, n
      <4> QED
        BY <1>1, <3>1, <3>2, FirstOfIs
    <3> QED
      BY <1>1, <2>1, <2>2, <3>3
  <2>3. CASE j # k
    <3>1. \A l \in DOMAIN longer : longer[l].key # j
      BY <1>1, <1>3, <2>3
    <3> QED
      BY <2>1, <2>3, <3>1, FirstOfNone
  <2> QED
    BY <2>2, <2>3
<1> QED
  BY <1>2, <1>3

-----------------------------------------------------------------------------
(* The invariant *)

Used == {s \in Slots : buckets[s] # <<>>}

(* The counts of a slot are those of what its chain was freed with. *)
Freed(f) ==
  /\ \A i \in DOMAIN f : f[i] >= 1
  /\ Len(f) <= 1 => \A i \in DOMAIN f : f[i] <= 1

(* Before the destruction nothing has been freed; during it, nothing of the
   slots it has not come to.                                               *)
FreeInv ==
  /\ alive => turn = 0
  /\ \A s \in Slots :
       /\ alive => frees[s] = <<>>
       /\ ~alive /\ s > turn => frees[s] = <<>>
       /\ ~alive /\ s < turn => buckets[s] = <<>>
       /\ Freed(frees[s])

(* What has stopped the process is still there to be seen. *)
CrashInv ==
  proc = "crashed" => \E s \in Slots : Len(buckets[s]) > 1 \/ Len(frees[s]) > 1

MapInv == TypeOK /\ Placed /\ FreeInv /\ CrashInv

LEMMA FreesOfChain ==
  ASSUME NEW chain \in Seq(Bucket)
  PROVE  /\ FreesOf(chain) \in Seq(Nat)
         /\ Len(FreesOf(chain)) = Len(chain)
         /\ Freed(FreesOf(chain))
<1>1. Len(chain) \in Nat /\ DOMAIN chain = 1..Len(chain)
  OBVIOUS
<1>2. FreesOf(chain) = [i \in 1..Len(chain) |-> IF i = 1 THEN 1 ELSE 2]
  BY <1>1 DEF FreesOf
<1>3. FreesOf(chain) \in Seq(Nat) /\ Len(FreesOf(chain)) = Len(chain)
  <2> DEFINE n == Len(chain)
  <2>1. \A i \in 1..n : (IF i = 1 THEN 1 ELSE 2) \in Nat
    OBVIOUS
  <2> HIDE DEF n
  <2> QED
    BY <1>1, <1>2, <2>1 DEF n
<1>4. \A i \in DOMAIN FreesOf(chain) :
         /\ FreesOf(chain)[i] >= 1
         /\ Len(chain) <= 1 => FreesOf(chain)[i] <= 1
  BY <1>1, <1>2
<1> QED
  BY <1>3, <1>4 DEF Freed

LEMMA InitMap == Init => MapInv
<1> SUFFICES ASSUME Init PROVE MapInv
  OBVIOUS
<1>1. TypeOK
  BY MapAssumption DEF Init, TypeOK
<1>2. Used = {}
  BY DEF Init, Used
<1>3. Placed
  BY <1>2, FS_EmptySet DEF Init, Placed, Used
<1>4. FreeInv
  BY DEF Init, FreeInv, Freed
<1>5. CrashInv
  BY DEF Init, CrashInv
<1> QED
  BY <1>1, <1>3, <1>4, <1>5 DEF MapInv

(* A set fills the slot of the key and no other. *)
LEMMA SetEffect ==
  ASSUME TypeOK, NEW k \in Keys, NEW v \in Values, Set(k, v)
  PROVE  LET s == Slot(k)
         IN /\ s \in Slots
            /\ buckets' = [buckets EXCEPT ![s] = Chained(buckets[s], k, v)]
            /\ buckets'[s] = Chained(buckets[s], k, v)
            /\ \A r \in Slots : r # s => buckets'[r] = buckets[r]
            /\ buckets[s] \in Seq(Bucket)
            /\ bucket_count' = bucket_count + (IF buckets[s] = <<>> THEN 1 ELSE 0)
            /\ bucket_count < NumSlots
            /\ alive /\ alive' = alive
            /\ UNCHANGED <<turn, frees, proc, answer>>
  BY SlotOfKey DEF Set, Ready, Full, NewSlots, TypeOK

LEMMA SetKeepsTypes ==
  ASSUME TypeOK, NEW k \in Keys, NEW v \in Values, Set(k, v)
  PROVE  TypeOK'
<1> DEFINE s == Slot(k)
<1>1. Chained(buckets[s], k, v) \in Seq(Bucket)
  BY SetEffect, ChainedEffect
<1>2. buckets' \in [Slots -> Seq(Bucket)]
  BY <1>1, SetEffect DEF TypeOK
<1>3. bucket_count' \in 0..NumSlots
  BY SetEffect, MapAssumption DEF TypeOK
<1>4. last' \in Bucket
  BY DEF Set, Bucket
<1>5. /\ alive' \in BOOLEAN /\ turn' \in 0..NumSlots
      /\ frees' \in [Slots -> Seq(Nat)] /\ proc' \in {"running", "crashed"}
      /\ answer' \in Values \cup {NULL}
  BY SetEffect DEF TypeOK
<1> QED
  BY <1>2, <1>3, <1>4, <1>5 DEF TypeOK

LEMMA SetKeepsPlaced ==
  ASSUME TypeOK, Placed, NEW k \in Keys, NEW v \in Values, Set(k, v)
  PROVE  Placed'
<1> DEFINE s == Slot(k)
           chain == buckets[s]
           longer == Chained(chain, k, v)
<1>0. /\ s \in Slots /\ chain \in Seq(Bucket) /\ buckets'[s] = longer
      /\ \A r \in Slots : r # s => buckets'[r] = buckets[r]
  BY SetEffect
<1>1. /\ Len(chain) \in Nat /\ DOMAIN chain = 1..Len(chain)
      /\ DOMAIN longer = 1..(Len(chain) + 1)
      /\ longer # <<>>
      /\ \A i \in DOMAIN chain : longer[i] = chain[i]
      /\ longer[Len(chain) + 1] = [key |-> k, value |-> v]
  BY <1>0, ChainedEffect
<1>2. \A i \in DOMAIN longer : Slot(longer[i].key) = s
  <2> SUFFICES ASSUME NEW i \in DOMAIN longer PROVE Slot(longer[i].key) = s
    OBVIOUS
  <2>1. CASE i = Len(chain) + 1
    BY <1>1, <2>1
  <2>2. CASE i # Len(chain) + 1
    <3>1. i \in DOMAIN chain /\ longer[i] = chain[i]
      BY <1>1, <2>2
    <3>2. Slot(chain[i].key) = s
      BY <1>0, <3>1, SetEffect DEF Placed
    <3> QED
      BY <3>1, <3>2
  <2> QED
    BY <2>1, <2>2
<1>3. \A r \in Slots : \A i \in DOMAIN buckets'[r] : Slot(buckets'[r][i].key) = r
  <2> HIDE DEF s, longer, chain
  <2>1. alive
    BY SetEffect
  <2> QED
    BY <1>0, <1>2, <2>1 DEF Placed
<1>4. IsFiniteSet(Slots)
  BY FS_Interval, MapAssumption DEF Slots
<1>5. IsFiniteSet(Used) /\ Cardinality(Used) \in Nat
  BY <1>4, FS_Subset, FS_CardinalityType DEF Used
<1>6. Used' = Used \cup {s}
  BY <1>0, <1>1 DEF Used
<1>7. Cardinality(Used') = IF s \in Used THEN Cardinality(Used) ELSE Cardinality(Used) + 1
  <2> HIDE DEF s
  <2> QED
    BY <1>5, <1>6, FS_AddElement
<1>8. bucket_count' = Cardinality(Used')
  <2>1. s \in Used <=> chain # <<>>
    BY <1>0 DEF Used
  <2>2. bucket_count = Cardinality(Used)
    BY SetEffect DEF Placed, Used
  <2>3. bucket_count' = bucket_count + (IF chain = <<>> THEN 1 ELSE 0)
    BY SetEffect
  <2> HIDE DEF s, chain
  <2> QED
    BY <1>5, <1>7, <2>1, <2>2, <2>3
<1> QED
  BY <1>3, <1>8 DEF Placed, Used

LEMMA SetKeepsMap ==
  ASSUME MapInv, NEW k \in Keys, NEW v \in Values, Set(k, v)
  PROVE  MapInv'
<1>0. TypeOK /\ Placed /\ FreeInv /\ proc = "running"
  BY DEF MapInv, Set, Ready
<1>1. TypeOK' /\ Placed'
  BY <1>0, SetKeepsTypes, SetKeepsPlaced
<1>2. alive /\ alive' /\ turn' = turn /\ frees' = frees /\ proc' = proc
  BY <1>0, SetEffect
<1>3. FreeInv'
  BY <1>0, <1>2 DEF FreeInv
<1>4. CrashInv'
  BY <1>0, <1>2 DEF CrashInv
<1> QED
  BY <1>1, <1>3, <1>4 DEF MapInv

LEMMA GetKeepsMap ==
  ASSUME MapInv, NEW k \in Keys, Get(k)
  PROVE  MapInv'
<1> DEFINE s == Slot(k)
           chain == buckets[s]
<1>1. /\ TypeOK /\ proc = "running" /\ alive
      /\ UNCHANGED <<buckets, bucket_count, alive, turn, frees, last>>
      /\ \/ answer' = HeadValue(chain, k) /\ proc' = proc
         \/ AsksItself(chain, k) /\ proc' = "crashed" /\ answer' = answer
  BY DEF MapInv, Get, Ready
<1>2. s \in Slots /\ chain \in Seq(Bucket)
  BY <1>1, SlotOfKey DEF TypeOK
<1>3. HeadValue(chain, k) \in Values \cup {NULL}
  <2>1. chain # <<>> => chain[1] \in Bucket
    BY <1>2
  <2> QED
    BY <2>1 DEF HeadValue, Bucket
<1>4. TypeOK'
  <2> HIDE DEF s, chain
  <2> QED
    BY <1>1, <1>3 DEF TypeOK
<1>5. Placed' /\ FreeInv'
  BY <1>1 DEF MapInv, Placed, FreeInv
<1>6. CrashInv'
  BY <1>1, <1>2 DEF CrashInv, AsksItself
<1> QED
  BY <1>4, <1>5, <1>6 DEF MapInv

LEMMA GetBucketKeepsMap ==
  ASSUME MapInv, NEW k \in Keys, GetBucket(k)
  PROVE  MapInv'
<1>1. /\ TypeOK
      /\ UNCHANGED <<buckets, bucket_count, alive, turn, frees, proc, last>>
  BY DEF MapInv, GetBucket
<1>2. answer' \in Values \cup {NULL}
  <2>1. Slot(k) \in Slots /\ buckets[Slot(k)] \in Seq(Bucket)
    BY <1>1, SlotOfKey DEF TypeOK
  <2>2. buckets[Slot(k)] # <<>> => buckets[Slot(k)][1] \in Bucket
    BY <2>1
  <2> QED
    BY <2>2 DEF GetBucket, Bucket
<1>3. TypeOK'
  BY <1>1, <1>2 DEF TypeOK
<1>4. Placed' /\ FreeInv' /\ CrashInv'
  BY <1>1 DEF MapInv, Placed, FreeInv, CrashInv
<1> QED
  BY <1>3, <1>4 DEF MapInv

LEMMA BeginDestroyKeepsMap ==
  ASSUME MapInv, BeginDestroy
  PROVE  MapInv'
<1>1. /\ TypeOK /\ FreeInv /\ CrashInv /\ alive /\ ~alive' /\ alive' \in BOOLEAN
      /\ turn' = turn /\ turn \in 0..NumSlots
      /\ UNCHANGED <<buckets, bucket_count, frees, proc, answer, last>>
  BY DEF MapInv, BeginDestroy, Ready, TypeOK
<1>2. TypeOK' /\ Placed' /\ CrashInv'
  BY <1>1 DEF TypeOK, Placed, CrashInv
<1>3. FreeInv'
  <2>1. turn = 0
    BY <1>1 DEF FreeInv
  <2>2. \A s \in Slots : ~(s < 0)
    BY MapAssumption DEF Slots
  <2> QED
    BY <1>1, <2>1, <2>2 DEF FreeInv
<1> QED
  BY <1>2, <1>3 DEF MapInv

LEMMA DestroySlotKeepsMap ==
  ASSUME MapInv, DestroySlot
  PROVE  MapInv'
<1> DEFINE chain == buckets[turn]
<1>1. /\ TypeOK /\ FreeInv /\ ~alive /\ turn < NumSlots /\ turn \in Nat
      /\ UNCHANGED <<bucket_count, alive, answer, last>>
      /\ frees' = [frees EXCEPT ![turn] = FreesOf(chain)]
      /\ buckets' = [buckets EXCEPT ![turn] = <<>>]
      /\ \/ proc' = "running" /\ turn' = turn + 1
         \/ Len(chain) > 1 /\ proc' = "crashed" /\ turn' = turn
  BY DEF MapInv, DestroySlot, TypeOK
<1>2. turn \in Slots /\ NumSlots \in Nat
  BY <1>1, MapAssumption DEF Slots
<1>3. /\ chain \in Seq(Bucket)
      /\ FreesOf(chain) \in Seq(Nat) /\ Len(FreesOf(chain)) = Len(chain)
      /\ Freed(FreesOf(chain))
  <2>1. chain \in Seq(Bucket)
    BY <1>1, <1>2 DEF TypeOK
  <2> HIDE DEF chain
  <2> QED
    BY <2>1, FreesOfChain
<1>4. /\ buckets'[turn] = <<>> /\ frees'[turn] = FreesOf(chain)
      /\ \A s \in Slots : s # turn => buckets'[s] = buckets[s] /\ frees'[s] = frees[s]
  BY <1>1, <1>2 DEF TypeOK
<1> HIDE DEF chain
<1>5. TypeOK'
  <2>1. buckets' \in [Slots -> Seq(Bucket)] /\ frees' \in [Slots -> Seq(Nat)]
    BY <1>1, <1>2, <1>3 DEF TypeOK
  <2>2. turn' \in 0..NumSlots /\ proc' \in {"running", "crashed"}
    BY <1>1, <1>2
  <2> QED
    BY <1>1, <2>1, <2>2 DEF TypeOK
<1>6. Placed'
  BY <1>1 DEF Placed
<1>7. FreeInv'
  <2> SUFFICES ASSUME NEW s \in Slots
               PROVE  /\ s > turn' => frees'[s] = <<>>
                      /\ s < turn' => buckets'[s] = <<>>
                      /\ Freed(frees'[s])
    BY <1>1 DEF FreeInv, Freed
  <2>1. CASE s = turn
    BY <1>1, <1>3, <1>4, <2>1
  <2>2. CASE s # turn
    <3>1. s \in Nat
      BY <1>2 DEF Slots
    <3>2. /\ s > turn => frees[s] = <<>>
          /\ s < turn => buckets[s] = <<>>
          /\ Freed(frees[s])
      BY <1>1 DEF FreeInv
    <3>3. (s > turn' => s > turn) /\ (s < turn' => s < turn)
      BY <1>1, <2>2, <3>1
    <3> QED
      BY <1>4, <2>2, <3>2, <3>3
  <2> QED
    BY <2>1, <2>2
<1>8. CrashInv'
  <2>1. Len(chain) > 1 => Len(frees'[turn]) > 1
    BY <1>3, <1>4
  <2> QED
    BY <1>1, <1>2, <2>1 DEF CrashInv
<1> QED
  BY <1>5, <1>6, <1>7, <1>8 DEF MapInv

LEMMA StepMap == MapInv /\ [Next]_vars => MapInv'
<1> SUFFICES ASSUME MapInv, [Next]_vars PROVE MapInv'
  OBVIOUS
<1>1. ASSUME NEW k \in Keys, NEW v \in Values, Set(k, v) PROVE MapInv'
  BY <1>1, SetKeepsMap
<1>2. ASSUME NEW k \in Keys, Get(k) PROVE MapInv'
  BY <1>2, GetKeepsMap
<1>3. ASSUME NEW k \in Keys, GetBucket(k) PROVE MapInv'
  BY <1>3, GetBucketKeepsMap
<1>4. CASE BeginDestroy
  BY <1>4, BeginDestroyKeepsMap
<1>5. CASE DestroySlot
  BY <1>5, DestroySlotKeepsMap
<1>6. CASE UNCHANGED vars
  BY <1>6 DEF vars, MapInv, TypeOK, Placed, FreeInv, Freed, CrashInv
<1>7. CASE SetFails
  BY <1>6, <1>7 DEF SetFails
<1> QED
  BY <1>1, <1>2, <1>3, <1>4, <1>5, <1>6, <1>7 DEF Next

LEMMA AlwaysMap == Spec => []MapInv
  BY InitMap, StepMap, PTL DEF Spec

(* Hashmap: every variable keeps its type, however many sets, refused sets
   and gets there are; the counter never passes the array's size.          *)
THEOREM MapTypes == Spec => []TypeOK
<1>1. MapInv => TypeOK
  BY DEF MapInv
<1> QED
  BY <1>1, AlwaysMap, PTL

(* Hashmap_set: every pair stays in the slot of its key, and the counter is
   the number of slots in use, for every hash function.                    *)
THEOREM PairsStayPlaced == Spec => []Placed
<1>1. MapInv => Placed
  BY DEF MapInv
<1> QED
  BY <1>1, AlwaysMap, PTL

(* Hashmap_destroy: a slot it has passed is empty, each of its buckets was
   freed, and a bucket that was alone in its slot was freed once.          *)
THEOREM AloneFreedOnce == Spec => []FreedOnceIfAlone
<1>1. MapInv => FreedOnceIfAlone
  BY DEF MapInv, FreeInv, Freed, FreedOnceIfAlone
<1> QED
  BY <1>1, AlwaysMap, PTL

(* Hashmap_get and Hashmap_destroy: a map whose keys have a slot each never
   stops the process.                                                       *)
THEOREM ChainlessSafe == Spec => []SafeWithoutChains
<1>1. MapInv => SafeWithoutChains
  <2> SUFFICES ASSUME MapInv,
                      \A s \in Slots : Len(buckets[s]) <= 1 /\ Len(frees[s]) <= 1
               PROVE  proc = "running"
    BY DEF SafeWithoutChains
  <2>1. \A s \in Slots : Len(buckets[s]) \in Nat /\ Len(frees[s]) \in Nat
    BY DEF MapInv, TypeOK
  <2>2. \A s \in Slots : ~(Len(buckets[s]) > 1 \/ Len(frees[s]) > 1)
    BY <2>1
  <2>3. proc # "crashed"
    BY <2>2 DEF MapInv, CrashInv
  <2> QED
    BY <2>3 DEF MapInv, TypeOK
<1> QED
  BY <1>1, AlwaysMap, PTL

-----------------------------------------------------------------------------
(* Hashmap implements FirstMap *)

Mapping == [k \in Keys |-> IF alive THEN FirstOf(buckets[Slot(k)], k) ELSE NULL]

LEMMA InitRefines == Init => FM!MapInit
<1> SUFFICES ASSUME Init PROVE FM!MapInit
  OBVIOUS
<1>1. \A k \in Keys : buckets[Slot(k)] = <<>>
  BY SlotOfKey DEF Init
<1>2. \A k \in Keys : FirstOf(buckets[Slot(k)], k) = NULL
  BY <1>1, FirstOfNone
<1>3. answer = NULL /\ alive
  BY DEF Init
<1> QED
  BY <1>2, <1>3 DEF FM!MapInit

LEMMA SetRefines ==
  ASSUME MapInv, NEW k \in Keys, NEW v \in Values, Set(k, v)
  PROVE  /\ Mapping' = [Mapping EXCEPT ![k] = IF @ = NULL THEN v ELSE @]
         /\ answer' = answer
<1>1. TypeOK /\ alive /\ alive' /\ answer' = answer
  BY SetEffect DEF MapInv
<1>2. ASSUME NEW j \in Keys
      PROVE  FirstOf(buckets'[Slot(j)], j) =
               IF j = k /\ FirstOf(buckets[Slot(j)], j) = NULL
                 THEN v ELSE FirstOf(buckets[Slot(j)], j)
  <2>1. CASE Slot(j) = Slot(k)
    <3>1. buckets[Slot(k)] \in Seq(Bucket) /\ buckets'[Slot(k)] = Chained(buckets[Slot(k)], k, v)
      BY <1>1, SetEffect
    <3> QED
      BY <2>1, <3>1, FirstOfChained
  <2>2. CASE Slot(j) # Slot(k)
    <3>1. buckets'[Slot(j)] = buckets[Slot(j)]
      BY <1>1, <2>2, SetEffect, SlotOfKey
    <3> QED
      BY <2>2, <3>1
  <2> QED
    BY <2>1, <2>2
<1>3. \A j \in Keys : Mapping[j] = FirstOf(buckets[Slot(j)], j)
  BY <1>1 DEF Mapping
<1>4. Mapping' = [j \in Keys |-> FirstOf(buckets'[Slot(j)], j)]
  BY <1>1 DEF Mapping, Slot
<1>5. Mapping = [j \in Keys |-> Mapping[j]]
  BY DEF Mapping
<1> QED
  BY <1>1, <1>2, <1>3, <1>4, <1>5

(* The bucket at the head of a chain is the first of its key. *)
LEMMA HeadIsFirst ==
  ASSUME NEW chain \in Seq(Bucket), chain # <<>>
  PROVE  /\ chain[1] \in Bucket
         /\ FirstOf(chain, chain[1].key) = chain[1].value
<1>1. 1 \in DOMAIN chain /\ \A j \in DOMAIN chain : 1 <= j
  OBVIOUS
<1>2. chain[1] \in Bucket
  BY <1>1
<1>3. FirstOf(chain, chain[1].key) = chain[1].value
  BY <1>1, FirstOfIs
<1> QED
  BY <1>2, <1>3

LEMMA GetRefines ==
  ASSUME MapInv, NEW k \in Keys, Get(k)
  PROVE  Mapping' = Mapping /\ (answer' = Mapping[k] \/ answer' = answer)
<1> DEFINE chain == buckets[Slot(k)]
<1>1. /\ TypeOK /\ alive /\ alive' = alive /\ buckets' = buckets
      /\ \/ answer' = HeadValue(chain, k) /\ ~AsksItself(chain, k)
         \/ answer' = answer
  BY DEF MapInv, Get, Ready
<1>2. Mapping' = Mapping
  BY <1>1 DEF Mapping
<1>3. Mapping[k] = FirstOf(chain, k)
  BY <1>1 DEF Mapping
<1>4. chain \in Seq(Bucket)
  BY <1>1, SlotOfKey DEF TypeOK
<1> HIDE DEF chain
<1>5. ~AsksItself(chain, k) => HeadValue(chain, k) = FirstOf(chain, k)
  <2>1. CASE chain # <<>> /\ chain[1].key = k
    BY <1>4, <2>1, HeadIsFirst DEF HeadValue
  <2>2. CASE chain = <<>>
    <3>1. \A i \in DOMAIN chain : chain[i].key # k
      BY <2>2
    <3> QED
      BY <2>2, <3>1, FirstOfNone DEF HeadValue
  <2>3. CASE chain # <<>> /\ chain[1].key # k /\ Len(chain) <= 1
    <3>1. \A i \in DOMAIN chain : i = 1
      BY <1>4, <2>3
    <3>2. \A i \in DOMAIN chain : chain[i].key # k
      BY <2>3, <3>1
    <3> QED
      BY <2>3, <3>2, FirstOfNone DEF HeadValue
  <2>4. Len(chain) \in Nat
    BY <1>4
  <2> QED
    BY <2>1, <2>2, <2>3, <2>4 DEF AsksItself
<1> QED
  BY <1>1, <1>2, <1>3, <1>5

LEMMA GetBucketRefines ==
  ASSUME MapInv, NEW k \in Keys, GetBucket(k)
  PROVE  Mapping' = Mapping /\ \E j \in Keys : answer' = Mapping[j]
<1> DEFINE chain == buckets[Slot(k)]
<1>1. /\ TypeOK /\ Placed /\ alive /\ alive' = alive /\ buckets' = buckets
      /\ answer' = IF chain = <<>> THEN NULL ELSE chain[1].value
  BY DEF MapInv, GetBucket, Ready
<1>2. Mapping' = Mapping
  BY <1>1 DEF Mapping
<1>3. \A j \in Keys : Mapping[j] = FirstOf(buckets[Slot(j)], j)
  BY <1>1 DEF Mapping
<1>4. Slot(k) \in Slots /\ chain \in Seq(Bucket)
  BY <1>1, SlotOfKey DEF TypeOK
<1>5. CASE chain = <<>>
  <2>1. \A i \in DOMAIN chain : chain[i].key # k
    BY <1>5
  <2>2. FirstOf(chain, k) = NULL
    BY <2>1, FirstOfNone
  <2> QED
    BY <1>1, <1>2, <1>3, <1>5, <2>2
<1>6. CASE chain # <<>>
  <2>1. chain[1] \in Bucket /\ FirstOf(chain, chain[1].key) = chain[1].value
    <3> HIDE DEF chain
    <3> QED
      BY <1>4, <1>6, HeadIsFirst
  <2>2. chain[1].key \in Keys
    BY <2>1 DEF Bucket
  <2>3. 1 \in DOMAIN chain
    BY <1>4, <1>6
  <2>4. Slot(chain[1].key) = Slot(k)
    BY <1>1, <1>4, <2>3 DEF Placed
  <2>5. Mapping[chain[1].key] = chain[1].value
    BY <1>3, <2>1, <2>2, <2>4
  <2> QED
    BY <1>1, <1>2, <1>6, <2>2, <2>5
<1> QED
  BY <1>5, <1>6

LEMMA StepRefines ==
  MapInv /\ [Next]_vars => [FM!MapNext]_<<Mapping, answer>>
<1> SUFFICES ASSUME MapInv, [Next]_vars
             PROVE  FM!MapNext \/ (Mapping' = Mapping /\ answer' = answer)
  OBVIOUS
<1>1. ASSUME NEW k \in Keys, NEW v \in Values, Set(k, v) PROVE FM!Store(k, v)
  BY <1>1, SetRefines DEF FM!Store, Mapping
<1>2. ASSUME NEW k \in Keys, Get(k)
      PROVE  FM!Lookup(k) \/ (Mapping' = Mapping /\ answer' = answer)
  BY <1>2, GetRefines DEF FM!Lookup, Mapping
<1>3. ASSUME NEW k \in Keys, GetBucket(k) PROVE FM!SomeBucket
  BY <1>3, GetBucketRefines DEF FM!SomeBucket, Mapping
<1>4. CASE BeginDestroy
  <2>1. ~alive' /\ answer' = answer
    BY <1>4 DEF BeginDestroy
  <2> QED
    BY <2>1 DEF FM!MapNext, FM!Forget
<1>5. CASE DestroySlot
  BY <1>5 DEF DestroySlot, Mapping
<1>6. CASE UNCHANGED vars
  BY <1>6 DEF vars, Mapping
<1>7. CASE SetFails
  BY <1>6, <1>7 DEF SetFails
<1>8. ASSUME NEW k \in Keys, NEW v \in Values, FM!Store(k, v) PROVE FM!MapNext
  BY <1>8 DEF FM!MapNext
<1>9. ASSUME NEW k \in Keys, FM!Lookup(k) PROVE FM!MapNext
  BY <1>9 DEF FM!MapNext
<1>10. FM!SomeBucket => FM!MapNext
  BY DEF FM!MapNext
<1> QED
  BY <1>1, <1>2, <1>3, <1>4, <1>5, <1>6, <1>7, <1>8, <1>9, <1>10 DEF Next

(* Hashmap implements FirstMap: the first value of a key stays, and a get that
   returns returns that value, for every hash function and chain length.     *)
THEOREM MapIsFirstMap == Spec => ImplementsFirstMap
<1>1. [FM!MapNext]_<<Mapping, answer>> =>
        [FM!MapNext]_<<[k \in Keys |->
                         IF alive THEN FirstOf(buckets[Slot(k)], k) ELSE NULL], answer>>
  BY DEF Mapping
<1> QED
  BY <1>1, InitRefines, StepRefines, AlwaysMap, PTL
     DEF Spec, ImplementsFirstMap, FM!MapSpec

-----------------------------------------------------------------------------
(* Sequences put one behind the other *)

LEMMA Behind ==
  ASSUME NEW T, NEW x \in Seq(T), NEW y \in Seq(T)
  PROVE  /\ x \o y \in Seq(T) /\ Len(x) \in Nat /\ Len(y) \in Nat
         /\ Len(x \o y) = Len(x) + Len(y)
         /\ \A j \in 1..Len(x) : (x \o y)[j] = x[j]
         /\ \A j \in 1..Len(y) : (x \o y)[Len(x) + j] = y[j]
OBVIOUS

LEMMA Nothing ==
  ASSUME NEW T
  PROVE  <<>> \in Seq(T) /\ \A x \in Seq(T) : x \o <<>> = x /\ <<>> \o x = x
OBVIOUS

(* Prefixes are the beginnings of the flattened sequence. *)
Prefixes(T, seqs, F) ==
  /\ F \in [0..Len(seqs) -> Seq(T)]
  /\ F[0] = <<>>
  /\ \A k \in 1..Len(seqs) : F[k] = F[k - 1] \o seqs[k]

LEMMA Flattened ==
  ASSUME NEW T, NEW seqs \in Seq(Seq(T))
  PROVE  \E F : Prefixes(T, seqs, F) /\ Seqs!FlattenSeq(seqs) = F[Len(seqs)]
<1> DEFINE l == Len(seqs)
           flatten == CHOOSE f : f = [j \in 1..l |-> IF j = 1 THEN seqs[j]
                                                     ELSE f[j - 1] \o seqs[j]]
           g == [kx \in (1..l) \X Seq(T) |-> kx[2] \o seqs[kx[1]]]
           F == [k \in 0..l |-> IF k = 0 THEN <<>> ELSE flatten[k]]
<1>0. /\ <<>> \in Seq(T) /\ \A x \in Seq(T) : x \o <<>> = x /\ <<>> \o x = x
      /\ \A x, y \in Seq(T) : x \o y \in Seq(T)
  BY Nothing, Behind, Zenon
<1>1. l \in Nat /\ \A k \in 1..l : seqs[k] \in Seq(T)
  OBVIOUS
<1>2. g \in [(1..l) \X Seq(T) -> Seq(T)]
  <2> SUFFICES ASSUME NEW kx \in (1..l) \X Seq(T)
               PROVE  kx[2] \o seqs[kx[1]] \in Seq(T)
    OBVIOUS
  <2> QED
    BY <1>0, <1>1
<1>3. PICK f : Recursion(Seq(T), l, <<>>, g, f)
  <2>1. l \in Nat /\ <<>> \in Seq(T)
    BY <1>1, <1>0
  <2> HIDE DEF g, l
  <2> QED
    BY <1>2, <2>1, Recurs
<1>4. \A k \in 1..l : f[k] = f[k - 1] \o seqs[k] /\ f[k - 1] \in Seq(T)
  <2> SUFFICES ASSUME NEW k \in 1..l
               PROVE  f[k] = f[k - 1] \o seqs[k] /\ f[k - 1] \in Seq(T)
    OBVIOUS
  <2>1. k - 1 \in 0..l
    BY <1>1
  <2> QED
    BY <1>3, <2>1 DEF Recursion
<1>5. CASE l = 0
  <2>1. Prefixes(T, seqs, f)
    BY <1>3, <1>4 DEF Prefixes, Recursion
  <2>2. Seqs!FlattenSeq(seqs) = seqs /\ seqs = <<>>
    BY <1>5 DEF Seqs!FlattenSeq
  <2>3. Seqs!FlattenSeq(seqs) = f[Len(seqs)]
    BY <1>3, <1>5, <2>2 DEF Recursion
  <2> QED
    BY <2>1, <2>3
<1>6. CASE l # 0
  <2> DEFINE h == [j \in 1..l |-> f[j]]
  <2>1. h = [j \in 1..l |-> IF j = 1 THEN seqs[j] ELSE h[j - 1] \o seqs[j]]
    <3> SUFFICES ASSUME NEW j \in 1..l
                 PROVE  f[j] = IF j = 1 THEN seqs[j] ELSE h[j - 1] \o seqs[j]
      BY Zenon
    <3>1. CASE j = 1
      <4>1. f[0] = <<>> /\ 1 - 1 = 0
        BY <1>3 DEF Recursion
      <4>2. f[1] = f[1 - 1] \o seqs[1]
        BY <1>4, <3>1, Zenon
      <4>3. f[1] = <<>> \o seqs[1] /\ seqs[1] \in Seq(T)
        BY <1>1, <3>1, <4>1, <4>2, Zenon
      <4>4. f[1] = seqs[1]
        BY <1>0, <4>3, Zenon
      <4> QED
        BY <3>1, <4>4, Zenon
    <3>2. CASE j # 1
      <4>1. j - 1 \in 1..l
        BY <1>1, <3>2
      <4> QED
        BY <1>4, <3>2, <4>1
    <3> QED
      BY <3>1, <3>2
  <2>2. flatten = [j \in 1..l |-> IF j = 1 THEN seqs[j] ELSE flatten[j - 1] \o seqs[j]]
    <3> HIDE DEF h
    <3> QED
      BY <2>1, Zenon
  <2>3. Seqs!FlattenSeq(seqs) = flatten[l]
    BY <1>6 DEF Seqs!FlattenSeq
  <2> HIDE DEF flatten
  <2>4. \A k \in 1..l : F[k] = F[k - 1] \o seqs[k] /\ F[k] = flatten[k]
    <3> SUFFICES ASSUME NEW k \in 1..l
                 PROVE  F[k] = F[k - 1] \o seqs[k] /\ F[k] = flatten[k]
      OBVIOUS
    <3>1. F[k] = flatten[k] /\ k - 1 \in 0..l
      BY <1>1
    <3>2. CASE k = 1
      <4>1. F[k] = seqs[k] /\ F[k - 1] = <<>>
        BY <1>1, <2>2, <3>1, <3>2
      <4> QED
        BY <1>1, <3>1, <4>1, <1>0
    <3>3. CASE k # 1
      <4>1. F[k - 1] = flatten[k - 1]
        BY <3>1, <3>3
      <4> QED
        BY <2>2, <3>1, <3>3, <4>1
    <3> QED
      BY <3>2, <3>3
  <2>5. F[0] = <<>> /\ DOMAIN F = 0..l
    BY <1>1
  <2>6. F[l] = flatten[l]
    BY <1>1, <1>6, <2>4
  <2>7. F = [k \in 0..l |-> F[k]]
    OBVIOUS
  <2> HIDE DEF F
  <2> DEFINE G == {k \in 0..l : F[k] \in Seq(T)}
  <2>8. 0 \in G
    <3>1. 0 \in 0..l /\ F[0] \in Seq(T)
      <4>1. 0 \in 0..l
        BY <1>1
      <4> QED
        BY <2>5, <1>0, <4>1, Zenon
    <3> QED
      BY <3>1, Zenon
  <2>9. ASSUME NEW k \in 1..l, k - 1 \in G
        PROVE  k \in G
    <3>1. F[k] \in Seq(T)
      BY <1>1, <2>4, <2>9, <1>0
    <3> QED
      BY <3>1
  <2>10. \A k \in 0..l : k \in G
    <3> HIDE DEF G, l
    <3> QED
      BY <1>1, <2>8, <2>9, Upward, Zenon
  <2>11. F \in [0..l -> Seq(T)]
    BY <2>7, <2>10
  <2>12. Prefixes(T, seqs, F)
    BY <2>4, <2>5, <2>11 DEF Prefixes
  <2> QED
    BY <2>3, <2>6, <2>12
<1> QED
  BY <1>5, <1>6

(* The function g has been flattened up to n. *)
Flat(g, n) == Seqs!FlattenSeq([m \in 1..n |-> g[m]])

LEMMA FlatOn ==
  ASSUME NEW T, NEW N \in Nat, NEW g \in [1..N -> Seq(T)]
  PROVE  /\ Flat(g, 0) = <<>>
         /\ \A n \in 0..N : Flat(g, n) \in Seq(T)
         /\ \A n \in 1..N : Flat(g, n) = Flat(g, n - 1) \o g[n]
<1>1. ASSUME NEW n \in 0..N
      PROVE  \E F : /\ F \in [0..n -> Seq(T)] /\ F[0] = <<>>
                    /\ \A k \in 1..n : F[k] = F[k - 1] \o g[k]
                    /\ Flat(g, n) = F[n]
  <2> DEFINE seqs == [m \in 1..n |-> g[m]]
  <2>1. seqs \in Seq(Seq(T)) /\ Len(seqs) = n /\ \A k \in 1..n : seqs[k] = g[k]
    OBVIOUS
  <2>2. Flat(g, n) = Seqs!FlattenSeq(seqs)
    BY Zenon DEF Flat
  <2> HIDE DEF seqs
  <2>3. PICK F : Prefixes(T, seqs, F) /\ Seqs!FlattenSeq(seqs) = F[Len(seqs)]
    BY <2>1, Flattened
  <2> QED
    BY <2>1, <2>2, <2>3 DEF Prefixes
<1>2. PICK F : /\ F \in [0..N -> Seq(T)] /\ F[0] = <<>>
               /\ \A k \in 1..N : F[k] = F[k - 1] \o g[k]
  <2>1. N \in 0..N
    OBVIOUS
  <2> QED
    BY <1>1, <2>1
<1>3. ASSUME NEW n \in 0..N
      PROVE  Flat(g, n) = F[n]
  <2>1. PICK H : /\ H \in [0..n -> Seq(T)] /\ H[0] = <<>>
                 /\ \A k \in 1..n : H[k] = H[k - 1] \o g[k]
                 /\ Flat(g, n) = H[n]
    BY <1>1
  <2> DEFINE G == {k \in 0..n : H[k] = F[k]}
  <2>2. n \in Nat /\ 0 \in G
    BY <1>2, <2>1
  <2>3. ASSUME NEW k \in 1..n, k - 1 \in G
        PROVE  k \in G
    <3>1. k \in 1..N /\ k \in 0..n
      OBVIOUS
    <3>2. H[k - 1] = F[k - 1]
      BY <2>3, Zenon
    <3>3. H[k] = H[k - 1] \o g[k] /\ F[k] = F[k - 1] \o g[k]
      BY <1>2, <2>1, <3>1, Zenon
    <3> QED
      BY <3>1, <3>2, <3>3, Zenon
  <2>4. \A k \in 0..n : k \in G
    <3> HIDE DEF G
    <3> QED
      BY <2>2, <2>3, Upward, Zenon
  <2> QED
    BY <2>1, <2>4
<1>4. /\ 0 \in 0..N
      /\ \A n \in 0..N : F[n] \in Seq(T)
      /\ \A n \in 1..N : n \in 0..N /\ n - 1 \in 0..N
  BY <1>2
<1> QED
  BY <1>2, <1>3, <1>4, Zenon

-----------------------------------------------------------------------------
(* The encoding of a value, and what is kept of it, rest on those of the
   values in it, which nest less deep.                                       *)

IsNested(v) == v.type \in {"d", "l"}

Body(kx, v, f) ==
  IF kx = 1
  THEN IF v.type = "i" THEN <<Letter("i"), Number(v.n), Letter("e")>>
       ELSE IF v.type = "s" THEN Spell(v.chars)
       ELSE <<Letter(v.type)>>
              \o Lists!FlattenSeq([n \in DOMAIN v.items |-> Lead(v, n) \o f[Item(v, n)]])
              \o <<Letter("e")>>
  ELSE IF v.type \in {"i", "s"} THEN v
       ELSE Holding(v.type,
                    Lists!FlattenSeq([n \in DOMAIN v.items |->
                                       MappedEntry(v, n, f[Item(v, n)])]))

(* The forms of a value. *)
LEMMA Forms ==
  ASSUME NEW v \in Contents
  PROVE  /\ v.type \in {"i", "s", "d", "l"}
         /\ v.type = "i" => v.n \in Nat
         /\ v.type = "s" => v.chars \in Seq(Letters)
         /\ v.type = "l" => v.items \in Seq(Contents)
         /\ v.type = "d" => v.items \in Seq([key : Seq(Letters), val : Contents])
         /\ Depth[v] \in Nat
  BY ContentsAssumption

LEMMA Elements ==
  ASSUME NEW T, NEW s \in Seq(T)
  PROVE  /\ Len(s) \in Nat /\ DOMAIN s = 1..Len(s)
         /\ \A n \in DOMAIN s : s[n] \in T
OBVIOUS

LEMMA Items ==
  ASSUME NEW v \in Contents, IsNested(v)
  PROVE  /\ Len(v.items) \in Nat /\ DOMAIN v.items = 1..Len(v.items)
         /\ \A n \in DOMAIN v.items :
              /\ Item(v, n) \in Contents
              /\ Depth[Item(v, n)] < Depth[v]
              /\ v.type = "d" => v.items[n] \in [key : Seq(Letters), val : Contents]
              /\ v.type = "l" => v.items[n] \in Contents
<1>1. CASE v.type = "d"
  <2>1. v.items \in Seq([key : Seq(Letters), val : Contents])
    BY <1>1, Forms
  <2>2. /\ Len(v.items) \in Nat /\ DOMAIN v.items = 1..Len(v.items)
        /\ \A n \in DOMAIN v.items : v.items[n] \in [key : Seq(Letters), val : Contents]
    BY <2>1, Elements, Zenon
  <2>3. \A n \in DOMAIN v.items : Item(v, n) \in Contents
    BY <1>1, <2>2 DEF Item
  <2> QED
    BY <1>1, <2>2, <2>3, ContentsAssumption
<1>2. CASE v.type = "l"
  <2>1. v.items \in Seq(Contents)
    BY <1>2, Forms
  <2>2. /\ Len(v.items) \in Nat /\ DOMAIN v.items = 1..Len(v.items)
        /\ \A n \in DOMAIN v.items : v.items[n] \in Contents
    BY <2>1
  <2>3. \A n \in DOMAIN v.items : Item(v, n) \in Contents
    BY <1>2, <2>2 DEF Item
  <2> QED
    BY <1>2, <2>2, <2>3, ContentsAssumption
<1> QED
  BY <1>1, <1>2 DEF IsNested

AgreeIn(v, f, g) ==
  IsNested(v) => \A n \in DOMAIN v.items : f[Item(v, n)] = g[Item(v, n)]

LEMMA BodyIsLocal ==
  ASSUME NEW v \in Contents, NEW f, NEW g, NEW kx, AgreeIn(v, f, g)
  PROVE  Body(kx, v, f) = Body(kx, v, g)
<1>1. CASE IsNested(v)
  <2>1. [n \in DOMAIN v.items |-> Lead(v, n) \o f[Item(v, n)]]
          = [n \in DOMAIN v.items |-> Lead(v, n) \o g[Item(v, n)]]
    BY <1>1, Zenon DEF AgreeIn
  <2>2. [n \in DOMAIN v.items |-> MappedEntry(v, n, f[Item(v, n)])]
          = [n \in DOMAIN v.items |-> MappedEntry(v, n, g[Item(v, n)])]
    BY <1>1, Zenon DEF AgreeIn
  <2>3. Lists!FlattenSeq([n \in DOMAIN v.items |-> Lead(v, n) \o f[Item(v, n)]])
          = Lists!FlattenSeq([n \in DOMAIN v.items |-> Lead(v, n) \o g[Item(v, n)]])
    BY <2>1, Zenon
  <2>4. Lists!FlattenSeq([n \in DOMAIN v.items |-> MappedEntry(v, n, f[Item(v, n)])])
          = Lists!FlattenSeq([n \in DOMAIN v.items |-> MappedEntry(v, n, g[Item(v, n)])])
    BY <2>2, Zenon
  <2>5. v.type # "i" /\ v.type # "s" /\ v.type \in {"d", "l"}
    BY <1>1 DEF IsNested
  <2>6. CASE kx = 1
    <3>1. /\ Body(kx, v, f) = <<Letter(v.type)>>
               \o Lists!FlattenSeq([n \in DOMAIN v.items |-> Lead(v, n) \o f[Item(v, n)]])
               \o <<Letter("e")>>
          /\ Body(kx, v, g) = <<Letter(v.type)>>
               \o Lists!FlattenSeq([n \in DOMAIN v.items |-> Lead(v, n) \o g[Item(v, n)]])
               \o <<Letter("e")>>
      BY <2>5, <2>6 DEF Body
    <3> QED
      BY <2>3, <3>1, Zenon
  <2>7. CASE kx # 1
    <3>1. v.type \notin {"i", "s"}
      BY <2>5
    <3> QED
      BY <2>4, <2>7, <3>1, Zenon DEF Body
  <2> QED
    BY <2>6, <2>7
<1>2. CASE ~IsNested(v)
  <2>1. v.type \in {"i", "s"}
    BY <1>2, Forms DEF IsNested
  <2>2. CASE kx = 1
    BY <2>1, <2>2 DEF Body
  <2>3. CASE kx # 1
    BY <2>1, <2>3, Zenon DEF Body
  <2> QED
    BY <2>2, <2>3
<1> QED
  BY <1>1, <1>2

(* f is right for what nests less deep than n. *)
Good(kx, n, f) ==
  /\ f = [v \in Contents |-> f[v]]
  /\ \A v \in Contents : Depth[v] < n => f[v] = Body(kx, v, f)

LEMMA GoodExists ==
  ASSUME NEW kx, NEW N \in Nat
  PROVE  \E f : Good(kx, N, f)
<1> DEFINE G == {n \in 0..N : \E f : Good(kx, n, f)}
<1>1. 0 \in G
  <2>1. Good(kx, 0, [v \in Contents |-> 0])
    <3> DEFINE h == [v \in Contents |-> 0]
    <3>1. h = [v \in Contents |-> h[v]]
      OBVIOUS
    <3>2. \A v \in Contents : ~(Depth[v] < 0)
      BY Forms
    <3> QED
      BY <3>1, <3>2, Zenon DEF Good
  <2>2. 0 \in 0..N
    OBVIOUS
  <2> QED
    BY <2>1, <2>2
<1>2. ASSUME NEW n \in 1..N, n - 1 \in G
      PROVE  n \in G
  <2>1. PICK f : Good(kx, n - 1, f)
    BY <1>2
  <2> DEFINE h == [v \in Contents |-> Body(kx, v, f)]
  <2>2. /\ h = [v \in Contents |-> h[v]]
        /\ \A v \in Contents : h[v] = Body(kx, v, f)
    BY Zenon
  <2> HIDE DEF h
  <2>3. ASSUME NEW v \in Contents, Depth[v] < n
        PROVE  h[v] = Body(kx, v, h)
    <3>1. AgreeIn(v, f, h)
      <4> SUFFICES ASSUME IsNested(v), NEW m \in DOMAIN v.items
                   PROVE  f[Item(v, m)] = h[Item(v, m)]
        BY Zenon DEF AgreeIn
      <4>1. Item(v, m) \in Contents /\ Depth[Item(v, m)] < Depth[v]
        BY Items
      <4>2. Depth[Item(v, m)] < n - 1
        BY <2>3, <4>1, Forms
      <4> QED
        BY <2>1, <2>2, <4>1, <4>2, Zenon DEF Good
    <3>2. Body(kx, v, f) = Body(kx, v, h)
      BY <3>1, BodyIsLocal
    <3> QED
      BY <2>2, <3>2, Zenon
  <2>4. Good(kx, n, h)
    BY <2>2, <2>3, Zenon DEF Good
  <2>5. n \in 0..N
    OBVIOUS
  <2> QED
    BY <2>4, <2>5, Zenon
<1>3. \A n \in 0..N : n \in G
  <2> HIDE DEF G
  <2> QED
    BY <1>1, <1>2, Upward, Zenon
<1>4. N \in 0..N
  OBVIOUS
<1> QED
  BY <1>3, <1>4, Zenon

(* What is shown of every value by that of the values in it. *)
LEMMA Shallowest ==
  ASSUME NEW B, B \subseteq Contents, B # {}
  PROVE  \E v \in B : IsNested(v) => \A n \in DOMAIN v.items : Item(v, n) \notin B
<1> DEFINE D == {Depth[v] : v \in B}
<1>1. D \subseteq Nat /\ D # {}
  BY Forms
<1>2. PICK d \in D : \A y \in D : d <= y
  <2> HIDE DEF D
  <2> QED
    BY <1>1, Least, Zenon
<1>3. PICK v \in B : d = Depth[v]
  BY <1>2
<1>4. ASSUME IsNested(v), NEW n \in DOMAIN v.items, Item(v, n) \in B
      PROVE  FALSE
  <2>1. v \in Contents /\ Item(v, n) \in Contents
    BY <1>4
  <2>2. Depth[Item(v, n)] < Depth[v] /\ d <= Depth[Item(v, n)]
    BY <1>2, <1>4, <2>1, Items
  <2> QED
    BY <1>3, <2>1, <2>2, Forms
<1> QED
  BY <1>3, <1>4, Zenon

LEMMA GoodAgree ==
  ASSUME NEW kx, NEW n \in Nat, NEW m \in Nat, NEW f, NEW g,
         Good(kx, n, f), Good(kx, m, g), n <= m
  PROVE  \A v \in Contents : Depth[v] < n => f[v] = g[v]
<1> DEFINE B == {v \in Contents : Depth[v] < n /\ f[v] # g[v]}
<1> SUFFICES ASSUME B # {}
             PROVE  FALSE
  BY Zenon
<1>1. B \subseteq Contents
  OBVIOUS
<1>2. PICK v \in B : IsNested(v) => \A j \in DOMAIN v.items : Item(v, j) \notin B
  <2> HIDE DEF B
  <2> QED
    BY <1>1, Shallowest, Zenon
<1>3. v \in Contents /\ Depth[v] < n /\ Depth[v] < m
  BY <1>2, Forms
<1>4. AgreeIn(v, f, g)
  <2> SUFFICES ASSUME IsNested(v), NEW j \in DOMAIN v.items
               PROVE  f[Item(v, j)] = g[Item(v, j)]
    BY Zenon DEF AgreeIn
  <2>1. Item(v, j) \in Contents /\ Depth[Item(v, j)] < Depth[v]
    BY <1>3, Items
  <2>2. Depth[Item(v, j)] < n
    BY <1>3, <2>1, Forms
  <2> QED
    BY <1>2, <2>1, <2>2, Zenon
<1>5. Body(kx, v, f) = Body(kx, v, g)
  BY <1>3, <1>4, BodyIsLocal
<1>6. f[v] = g[v]
  BY <1>3, <1>5, Zenon DEF Good
<1> QED
  BY <1>2, <1>6, Zenon

LEMMA RecursionExists ==
  ASSUME NEW kx
  PROVE  \E f : f = [v \in Contents |-> Body(kx, v, f)]
<1> DEFINE Upon(n) == CHOOSE f : Good(kx, n, f)
           F == [v \in Contents |-> Upon(Depth[v] + 1)[v]]
<1>1. \A n \in Nat : Good(kx, n, Upon(n))
  BY GoodExists, Zenon
<1>2. \A v \in Contents : F[v] = Upon(Depth[v] + 1)[v]
  BY Zenon
<1>3. F = [v \in Contents |-> F[v]]
  <2> HIDE DEF Upon
  <2> QED
    OBVIOUS
<1> HIDE DEF Upon, F
<1>4. ASSUME NEW v \in Contents
      PROVE  F[v] = Body(kx, v, F)
  <2> DEFINE f == Upon(Depth[v] + 1)
  <2>1. Depth[v] \in Nat /\ Depth[v] + 1 \in Nat /\ Depth[v] < Depth[v] + 1
    BY Forms
  <2>2. Good(kx, Depth[v] + 1, f)
    BY <1>1, <2>1, Zenon
  <2>3. F[v] = Body(kx, v, f)
    BY <1>2, <2>1, <2>2, Zenon DEF Good
  <2> HIDE DEF f
  <2>4. AgreeIn(v, f, F)
    <3> SUFFICES ASSUME IsNested(v), NEW j \in DOMAIN v.items
                 PROVE  f[Item(v, j)] = F[Item(v, j)]
      BY Zenon DEF AgreeIn
    <3> DEFINE c == Item(v, j)
               n == Depth[c] + 1
    <3>1. c \in Contents /\ Depth[c] < Depth[v]
      BY Items
    <3>2. n \in Nat /\ Depth[c] < n /\ n <= Depth[v] + 1
      BY <2>1, <3>1, Forms
    <3>3. Good(kx, n, Upon(n)) /\ F[c] = Upon(n)[c]
      BY <1>1, <1>2, <3>1, <3>2, Zenon
    <3> HIDE DEF n, c
    <3> DEFINE e == Upon(n)
               m == Depth[v] + 1
    <3>4. Good(kx, n, e) /\ Good(kx, m, f) /\ m \in Nat /\ n <= m
      BY <2>1, <2>2, <3>2, <3>3
    <3> HIDE DEF m, e
    <3>5. \A u \in Contents : Depth[u] < n => e[u] = f[u]
      BY <3>2, <3>4, GoodAgree
    <3>6. f[c] = F[c]
      BY <3>1, <3>2, <3>3, <3>5, Zenon DEF e
    <3> QED
      BY <3>6 DEF c
  <2>5. Body(kx, v, f) = Body(kx, v, F)
    BY <2>4, BodyIsLocal
  <2> QED
    BY <2>3, <2>5, Zenon
<1>5. F = [v \in Contents |-> Body(kx, v, F)]
  BY <1>3, <1>4, Zenon
<1> QED
  BY <1>5, Zenon

LEMMA EncodeIs ==
  ASSUME NEW v \in Contents
  PROVE  Encode[v] = Body(1, v, Encode)
<1> DEFINE P(f) ==
      f = [w \in Contents |->
             IF w.type = "i" THEN <<Letter("i"), Number(w.n), Letter("e")>>
             ELSE IF w.type = "s" THEN Spell(w.chars)
             ELSE <<Letter(w.type)>>
                    \o Lists!FlattenSeq([n \in DOMAIN w.items |-> Lead(w, n) \o f[Item(w, n)]])
                    \o <<Letter("e")>>]
<1>1. Encode = CHOOSE f : P(f)
  BY Zenon DEF Encode
<1>2. PICK h : h = [w \in Contents |-> Body(1, w, h)]
  BY RecursionExists, Zenon
<1>3. ASSUME NEW f, NEW w
      PROVE  Body(1, w, f) =
               IF w.type = "i" THEN <<Letter("i"), Number(w.n), Letter("e")>>
               ELSE IF w.type = "s" THEN Spell(w.chars)
               ELSE <<Letter(w.type)>>
                      \o Lists!FlattenSeq([n \in DOMAIN w.items |-> Lead(w, n) \o f[Item(w, n)]])
                      \o <<Letter("e")>>
  BY Zenon DEF Body
<1>4. P(h)
  BY <1>2, <1>3, Zenon
<1>5. P(Encode)
  <2> HIDE DEF P
  <2> QED
    BY <1>1, <1>4, Zenon
<1>6. Encode[v] =
        IF v.type = "i" THEN <<Letter("i"), Number(v.n), Letter("e")>>
        ELSE IF v.type = "s" THEN Spell(v.chars)
        ELSE <<Letter(v.type)>>
               \o Lists!FlattenSeq([n \in DOMAIN v.items |-> Lead(v, n) \o Encode[Item(v, n)]])
               \o <<Letter("e")>>
  BY <1>5, Zenon
<1> QED
  BY <1>3, <1>6, Zenon

LEMMA MappedIs ==
  ASSUME NEW v \in Contents
  PROVE  Mapped[v] = Body(2, v, Mapped)
<1> DEFINE P(f) ==
      f = [w \in Contents |->
             IF w.type \in {"i", "s"} THEN w
             ELSE Holding(w.type,
                          Lists!FlattenSeq([n \in DOMAIN w.items |->
                                             MappedEntry(w, n, f[Item(w, n)])]))]
<1>1. Mapped = CHOOSE f : P(f)
  BY Zenon DEF Mapped
<1>2. PICK h : h = [w \in Contents |-> Body(2, w, h)]
  BY RecursionExists, Zenon
<1>3. ASSUME NEW f, NEW w
      PROVE  Body(2, w, f) =
               IF w.type \in {"i", "s"} THEN w
               ELSE Holding(w.type,
                            Lists!FlattenSeq([n \in DOMAIN w.items |->
                                               MappedEntry(w, n, f[Item(w, n)])]))
  <2>1. 2 # 1
    OBVIOUS
  <2> QED
    BY <2>1, Zenon DEF Body
<1>4. P(h)
  BY <1>2, <1>3, Zenon
<1>5. P(Mapped)
  <2> HIDE DEF P
  <2> QED
    BY <1>1, <1>4, Zenon
<1>6. Mapped[v] =
        IF v.type \in {"i", "s"} THEN v
        ELSE Holding(v.type,
                     Lists!FlattenSeq([n \in DOMAIN v.items |->
                                        MappedEntry(v, n, Mapped[Item(v, n)])]))
  BY <1>5, Zenon
<1> QED
  BY <1>3, <1>6, Zenon

-----------------------------------------------------------------------------
(* What an encoding consists of *)

LEMMA Associative ==
  ASSUME NEW T, NEW x \in Seq(T), NEW y \in Seq(T), NEW z \in Seq(T)
  PROVE  (x \o y) \o z = x \o (y \o z)
<1> DEFINE s == (x \o y) \o z
           u == x \o (y \o z)
<1>1. /\ s \in Seq(T) /\ u \in Seq(T)
      /\ Len(s) = Len(x) + Len(y) + Len(z) /\ Len(u) = Len(x) + Len(y) + Len(z)
  OBVIOUS
<1>2. \A j \in 1..(Len(x) + Len(y) + Len(z)) : s[j] = u[j]
  OBVIOUS
<1>3. Len(s) = Len(u) /\ \A j \in 1..Len(s) : s[j] = u[j]
  BY <1>1, <1>2, Zenon
<1> HIDE DEF s, u
<1>4. s = u
  BY <1>1, <1>3, Series!SeqEqual
<1> QED
  BY <1>4 DEF s, u

LEMMA ATokenIs ==
  /\ \A c \in Characters : Letter(c) \in Tokens
  /\ \A n \in Nat : Number(n) \in Tokens
  /\ \A u \in Tokens : <<u>> \in Seq(Tokens) /\ Len(<<u>>) = 1 /\ <<u>>[1] = u
  /\ Letters \subseteq Characters /\ "#" \notin Letters
  /\ Letter(":") \in Tokens /\ Letter("i") \in Tokens /\ Letter("e") \in Tokens
  /\ Letter("d") \in Tokens /\ Letter("l") \in Tokens
<1>1. /\ \A c \in Characters : Letter(c) \in Tokens
      /\ \A n \in Nat : Number(n) \in Tokens
  BY ContentsAssumption DEF Tokens, Letter, Number
<1>2. Letters \subseteq Characters /\ "#" \notin Letters
  BY DEF Letters
<1>3. \A u \in Tokens : <<u>> \in Seq(Tokens) /\ Len(<<u>>) = 1 /\ <<u>>[1] = u
  <2> HIDE DEF Tokens
  <2> QED
    OBVIOUS
<1>4. {":", "i", "d", "l", "e"} \subseteq Characters
  BY ContentsAssumption
<1> HIDE DEF Tokens
<1> QED
  BY <1>1, <1>2, <1>3, <1>4

LEMMA NestedLetter ==
  ASSUME NEW v, IsNested(v)
  PROVE  /\ Letter(v.type) \in Tokens
         /\ <<Letter(v.type)>> \in Seq(Tokens) /\ <<Letter("e")>> \in Seq(Tokens)
         /\ Len(<<Letter(v.type)>>) = 1 /\ Len(<<Letter("e")>>) = 1
<1>1. Letter(v.type) \in Tokens
  <2>1. CASE v.type = "d"
    BY <2>1, ATokenIs, Zenon
  <2>2. CASE v.type = "l"
    BY <2>2, ATokenIs, Zenon
  <2> QED
    BY <2>1, <2>2 DEF IsNested
<1> QED
  BY <1>1, ATokenIs, Zenon

LEMMA SpellIs ==
  ASSUME NEW k \in Seq(Letters)
  PROVE  /\ Spell(k) \in Seq(Tokens)
         /\ Len(k) \in Nat /\ Len(Spell(k)) = Len(k) + 2
         /\ Spell(k)[1] = Number(Len(k)) /\ Spell(k)[2] = Letter(":")
         /\ \A j \in 1..Len(k) : Spell(k)[2 + j] = Letter(k[j]) /\ k[j] \in Letters
<1> DEFINE x == <<Number(Len(k)), Letter(":")>>
           y == [n \in DOMAIN k |-> Letter(k[n])]
<1>1. Len(k) \in Nat /\ DOMAIN k = 1..Len(k) /\ \A j \in DOMAIN k : k[j] \in Letters
  BY Elements, Zenon
<1>2. Number(Len(k)) \in Tokens /\ Letter(":") \in Tokens
  BY <1>1, ATokenIs, Zenon
<1>3. \A j \in 1..Len(k) : Letter(k[j]) \in Tokens
  <2>1. \A j \in 1..Len(k) : k[j] \in Characters
    BY <1>1, ATokenIs
  <2> QED
    BY <2>1, ATokenIs, Zenon
<1> HIDE DEF Tokens
<1>4. x \in Seq(Tokens) /\ Len(x) = 2 /\ x[1] = Number(Len(k)) /\ x[2] = Letter(":")
  BY <1>2
<1>5. y = [n \in 1..Len(k) |-> Letter(k[n])]
  BY <1>1
<1>6. y \in Seq(Tokens) /\ Len(y) = Len(k) /\ \A j \in 1..Len(k) : y[j] = Letter(k[j])
  <2> DEFINE f == [n \in 1..Len(k) |-> Letter(k[n])]
  <2>1. f \in [1..Len(k) -> Tokens] /\ \A j \in 1..Len(k) : f[j] = Letter(k[j])
    BY <1>3, Zenon
  <2> HIDE DEF f
  <2>2. f \in Seq(Tokens) /\ Len(f) = Len(k)
    BY <1>1, <2>1
  <2> QED
    BY <1>5, <2>1, <2>2 DEF f
<1>7. Spell(k) = x \o y
  BY Zenon DEF Spell
<1> HIDE DEF x, y
<1>8. /\ x \o y \in Seq(Tokens) /\ Len(x \o y) = Len(x) + Len(y)
      /\ \A j \in 1..Len(x) : (x \o y)[j] = x[j]
      /\ \A j \in 1..Len(y) : (x \o y)[Len(x) + j] = y[j]
  <2>1. x \in Seq(Tokens) /\ y \in Seq(Tokens)
    BY <1>4, <1>6, Zenon
  <2> QED
    BY <2>1, Behind
<1>9. 1 \in 1..2 /\ 2 \in 1..2
  OBVIOUS
<1>10. Len(Spell(k)) = Len(k) + 2
  BY <1>1, <1>4, <1>6, <1>7, <1>8
<1> QED
  BY <1>1, <1>4, <1>6, <1>7, <1>8, <1>9, <1>10, Zenon

LEMMA LeadIs ==
  ASSUME NEW v \in Contents, IsNested(v), NEW n \in DOMAIN v.items
  PROVE  /\ Lead(v, n) \in Seq(Tokens) /\ Len(Lead(v, n)) \in Nat
         /\ v.type = "l" => Lead(v, n) = <<>> /\ Len(Lead(v, n)) = 0
         /\ v.type = "d" => /\ Lead(v, n) = Spell(v.items[n].key)
                            /\ v.items[n].key \in Seq(Letters)
<1>1. CASE v.type = "d"
  <2>1. v.items[n] \in [key : Seq(Letters), val : Contents]
    BY <1>1, Items
  <2>2. v.items[n].key \in Seq(Letters)
    BY <2>1
  <2>3. Lead(v, n) = Spell(v.items[n].key)
    BY <1>1, Zenon DEF Lead
  <2>4. Lead(v, n) \in Seq(Tokens)
    BY <2>2, <2>3, SpellIs, Zenon
  <2>5. "d" # "l"
    OBVIOUS
  <2> QED
    BY <1>1, <2>2, <2>3, <2>4, <2>5, Elements, Zenon
<1>2. CASE v.type = "l"
  <2>1. Lead(v, n) = <<>> /\ "l" # "d"
    BY <1>2 DEF Lead
  <2>2. <<>> \in Seq(Tokens) /\ Len(<<>>) = 0
    BY Nothing
  <2> QED
    BY <1>2, <2>1, <2>2
<1> QED
  BY <1>1, <1>2 DEF IsNested

Entry(v, n) == Lead(v, n) \o Encode[Item(v, n)]
Entries(v) == [n \in 1..Len(v.items) |-> Entry(v, n)]

LEMMA EncodeOfNested ==
  ASSUME NEW v \in Contents, IsNested(v)
  PROVE  Encode[v] = <<Letter(v.type)>> \o Flat(Entries(v), Len(v.items)) \o <<Letter("e")>>
<1>1. v.type # "i" /\ v.type # "s" /\ DOMAIN v.items = 1..Len(v.items)
  BY Items DEF IsNested
<1>2. Encode[v] =
        <<Letter(v.type)>>
          \o Lists!FlattenSeq([n \in DOMAIN v.items |-> Lead(v, n) \o Encode[Item(v, n)]])
          \o <<Letter("e")>>
  BY <1>1, EncodeIs, Zenon DEF Body
<1>3. Lists!FlattenSeq([n \in 1..Len(v.items) |-> Entries(v)[n]])
        = Seqs!FlattenSeq([n \in 1..Len(v.items) |-> Entries(v)[n]])
  BY Zenon DEF Lists!FlattenSeq, Seqs!FlattenSeq
<1>4. [n \in 1..Len(v.items) |-> Entries(v)[n]]
        = [n \in DOMAIN v.items |-> Lead(v, n) \o Encode[Item(v, n)]]
  BY <1>1, Zenon DEF Entries, Entry
<1> QED
  BY <1>2, <1>3, <1>4, Zenon DEF Flat

LEMMA EncodeType ==
  \A v \in Contents : Encode[v] \in Seq(Tokens)
<1> DEFINE B == {v \in Contents : Encode[v] \notin Seq(Tokens)}
<1> SUFFICES ASSUME B # {}
             PROVE  FALSE
  BY Zenon
<1>1. B \subseteq Contents
  OBVIOUS
<1>2. PICK v \in B : IsNested(v) => \A n \in DOMAIN v.items : Item(v, n) \notin B
  <2> HIDE DEF B
  <2> QED
    BY <1>1, Shallowest, Zenon
<1>3. v \in Contents /\ Encode[v] \notin Seq(Tokens)
  BY <1>2
<1>4. CASE v.type = "i"
  <2>1. Encode[v] = <<Letter("i"), Number(v.n), Letter("e")>>
    BY <1>3, <1>4, EncodeIs, Zenon DEF Body
  <2>2. Letter("i") \in Tokens /\ Number(v.n) \in Tokens /\ Letter("e") \in Tokens
    <3>1. v.n \in Nat
      BY <1>3, <1>4, Forms
    <3> QED
      BY <3>1, ATokenIs, Zenon
  <2> HIDE DEF Tokens
  <2>3. <<Letter("i"), Number(v.n), Letter("e")>> \in Seq(Tokens)
    BY <2>2
  <2> QED
    BY <1>3, <2>1, <2>3, Zenon
<1>5. CASE v.type = "s"
  <2>1. v.type # "i" /\ v.chars \in Seq(Letters)
    BY <1>3, <1>5, Forms
  <2>2. Encode[v] = Spell(v.chars)
    BY <1>3, <1>5, <2>1, EncodeIs, Zenon DEF Body
  <2> QED
    BY <1>3, <2>1, <2>2, SpellIs, Zenon
<1>6. CASE IsNested(v)
  <2> DEFINE N == Len(v.items)
             g == Entries(v)
  <2>1. N \in Nat /\ DOMAIN v.items = 1..N
    BY <1>3, <1>6, Items
  <2>2. ASSUME NEW n \in 1..N
        PROVE  Entry(v, n) \in Seq(Tokens)
    <3>1. Item(v, n) \in Contents /\ Item(v, n) \notin B
      BY <1>2, <1>3, <1>6, <2>1, Items
    <3>2. Encode[Item(v, n)] \in Seq(Tokens) /\ Lead(v, n) \in Seq(Tokens)
      BY <1>3, <1>6, <2>1, <3>1, LeadIs
    <3> QED
      BY <3>2, Behind, Zenon DEF Entry
  <2>3. g \in [1..N -> Seq(Tokens)]
    BY <2>2, Zenon DEF Entries
  <2>4. N \in 0..N
    BY <2>1
  <2> HIDE DEF N, g
  <2>5. Flat(g, N) \in Seq(Tokens)
    BY <2>1, <2>3, <2>4, FlatOn
  <2>7. <<Letter(v.type)>> \in Seq(Tokens) /\ <<Letter("e")>> \in Seq(Tokens)
    BY <1>6, NestedLetter, Zenon
  <2>8. <<Letter(v.type)>> \o Flat(g, N) \o <<Letter("e")>> \in Seq(Tokens)
    BY <2>5, <2>7, Behind, Zenon
  <2> QED
    BY <1>3, <1>6, <2>8, EncodeOfNested, Zenon DEF g, N
<1> QED
  BY <1>3, <1>4, <1>5, <1>6, Forms DEF IsNested

LEMMA UptoOn ==
  ASSUME NEW v \in Contents, IsNested(v)
  PROVE  /\ Len(v.items) \in Nat /\ DOMAIN v.items = 1..Len(v.items)
         /\ Upto(v, 0) = <<Letter(v.type)>>
         /\ \A n \in 0..Len(v.items) : Upto(v, n) \in Seq(Tokens)
         /\ \A n \in 1..Len(v.items) : /\ Entry(v, n) \in Seq(Tokens)
                                       /\ Upto(v, n) = Upto(v, n - 1) \o Entry(v, n)
         /\ Encode[v] = Upto(v, Len(v.items)) \o <<Letter("e")>>
<1> DEFINE N == Len(v.items)
           g == Entries(v)
           h == <<Letter(v.type)>>
<1>1. N \in Nat /\ DOMAIN v.items = 1..N
  BY Items
<1>2. ASSUME NEW n \in 1..N
      PROVE  Entry(v, n) \in Seq(Tokens) /\ g[n] = Entry(v, n)
  <2>1. Encode[Item(v, n)] \in Seq(Tokens) /\ Lead(v, n) \in Seq(Tokens)
    BY <1>1, Items, EncodeType, LeadIs
  <2> QED
    BY <2>1, Behind, Zenon DEF Entry, Entries
<1>3. g \in [1..N -> Seq(Tokens)]
  BY <1>2, Zenon DEF Entries
<1>4. h \in Seq(Tokens)
  BY NestedLetter, Zenon
<1>5. ASSUME NEW n \in 0..N
      PROVE  Upto(v, n) = h \o Flat(g, n)
  <2>1. \A m \in 1..n : m \in 1..N
    BY <1>1
  <2>2. \A m \in 1..n : g[m] = Lead(v, m) \o Encode[Item(v, m)]
    BY <1>2, <2>1, Zenon DEF Entry
  <2> HIDE DEF g, N
  <2>3. [m \in 1..n |-> g[m]] = [m \in 1..n |-> Lead(v, m) \o Encode[Item(v, m)]]
    BY <2>2, Zenon
  <2>4. Lists!FlattenSeq([m \in 1..n |-> g[m]]) = Seqs!FlattenSeq([m \in 1..n |-> g[m]])
    BY Zenon DEF Lists!FlattenSeq, Seqs!FlattenSeq
  <2> QED
    BY <2>3, <2>4, Zenon DEF Upto, Flat
<1>6. Encode[v] = h \o Flat(g, N) \o <<Letter("e")>>
  BY EncodeOfNested, Zenon
<1> HIDE DEF g, h, N
<1>7. /\ Flat(g, 0) = <<>>
      /\ \A n \in 0..N : Flat(g, n) \in Seq(Tokens)
      /\ \A n \in 1..N : Flat(g, n) = Flat(g, n - 1) \o g[n]
  BY <1>1, <1>3, FlatOn
<1>8. 0 \in 0..N /\ N \in 0..N /\ \A n \in 1..N : n \in 0..N /\ n - 1 \in 0..N
  BY <1>1
<1>9. Upto(v, 0) = h
  BY <1>4, <1>5, <1>7, <1>8, Nothing, Zenon
<1>10. \A n \in 0..N : Upto(v, n) \in Seq(Tokens)
  BY <1>4, <1>5, <1>7, Behind, Zenon
<1>11. ASSUME NEW n \in 1..N
       PROVE  Upto(v, n) = Upto(v, n - 1) \o Entry(v, n)
  <2>1. Upto(v, n) = h \o (Flat(g, n - 1) \o Entry(v, n))
    BY <1>2, <1>5, <1>7, <1>8, Zenon
  <2>2. Flat(g, n - 1) \in Seq(Tokens) /\ Entry(v, n) \in Seq(Tokens)
    BY <1>2, <1>7, <1>8, Zenon
  <2>3. (h \o Flat(g, n - 1)) \o Entry(v, n) = h \o (Flat(g, n - 1) \o Entry(v, n))
    <3> DEFINE x == Flat(g, n - 1)
               y == Entry(v, n)
    <3>1. x \in Seq(Tokens) /\ y \in Seq(Tokens)
      BY <2>2
    <3> HIDE DEF x, y, Tokens
    <3>2. (h \o x) \o y = h \o (x \o y)
      BY <1>4, <3>1, Associative, SMTT(30)
    <3> QED
      BY <3>2 DEF x, y
  <2> QED
    BY <1>5, <1>8, <2>1, <2>3, Zenon
<1>12. Encode[v] = Upto(v, N) \o <<Letter("e")>>
  BY <1>5, <1>6, <1>8, Zenon
<1> QED
  BY <1>1, <1>2, <1>9, <1>10, <1>11, <1>12, Zenon DEF N, h

(* The lengths of the beginnings. *)
LEMMA UptoGrows ==
  ASSUME NEW v \in Contents, IsNested(v)
  PROVE  /\ Len(Upto(v, 0)) = 1
         /\ \A n \in 0..Len(v.items) : Len(Upto(v, n)) \in Nat
         /\ \A n \in 1..Len(v.items) :
              Len(Upto(v, n)) = Len(Upto(v, n - 1)) + Len(Lead(v, n)) + Len(Encode[Item(v, n)])
         /\ Len(Encode[v]) = Len(Upto(v, Len(v.items))) + 1
<1> DEFINE N == Len(v.items)
<1>1. N \in Nat /\ DOMAIN v.items = 1..N
  BY Items
<1>2. /\ Upto(v, 0) = <<Letter(v.type)>>
      /\ \A n \in 0..N : Upto(v, n) \in Seq(Tokens)
      /\ \A n \in 1..N : /\ Entry(v, n) \in Seq(Tokens)
                         /\ Upto(v, n) = Upto(v, n - 1) \o Entry(v, n)
      /\ Encode[v] = Upto(v, N) \o <<Letter("e")>>
  BY UptoOn, Zenon
<1>3. /\ <<Letter("e")>> \in Seq(Tokens)
      /\ Len(<<Letter("e")>>) = 1 /\ Len(<<Letter(v.type)>>) = 1
  BY NestedLetter, Zenon
<1>4. \A n \in 0..N : Len(Upto(v, n)) \in Nat
  BY <1>2, Elements, Zenon
<1>5. ASSUME NEW n \in 1..N
      PROVE  Len(Upto(v, n)) = Len(Upto(v, n - 1)) + Len(Lead(v, n)) + Len(Encode[Item(v, n)])
  <2>1. n - 1 \in 0..N /\ Item(v, n) \in Contents
    BY <1>1, Items
  <2>2. Lead(v, n) \in Seq(Tokens) /\ Encode[Item(v, n)] \in Seq(Tokens)
    BY <1>1, <2>1, LeadIs, EncodeType
  <2>3. /\ Len(Entry(v, n)) = Len(Lead(v, n)) + Len(Encode[Item(v, n)])
        /\ Len(Lead(v, n)) \in Nat /\ Len(Encode[Item(v, n)]) \in Nat
    <3> DEFINE x == Lead(v, n)
               y == Encode[Item(v, n)]
    <3>1. x \in Seq(Tokens) /\ y \in Seq(Tokens) /\ Entry(v, n) = x \o y
      BY <2>2, Zenon DEF Entry
    <3> HIDE DEF x, y
    <3>2. Len(x \o y) = Len(x) + Len(y) /\ Len(x) \in Nat /\ Len(y) \in Nat
      BY <3>1, Behind
    <3> QED
      BY <3>1, <3>2, Zenon DEF x, y
  <2>4. Len(Upto(v, n)) = Len(Upto(v, n - 1)) + Len(Entry(v, n)) /\ Len(Upto(v, n - 1)) \in Nat
    <3> DEFINE x == Upto(v, n - 1)
               y == Entry(v, n)
    <3>1. x \in Seq(Tokens) /\ y \in Seq(Tokens) /\ Upto(v, n) = x \o y
      BY <1>2, <2>1, Zenon
    <3> HIDE DEF x, y
    <3>2. Len(x \o y) = Len(x) + Len(y) /\ Len(x) \in Nat
      BY <3>1, Behind
    <3> QED
      BY <3>1, <3>2, Zenon DEF x, y
  <2> DEFINE p == Len(Upto(v, n))
             q == Len(Upto(v, n - 1))
             x == Len(Lead(v, n))
             y == Len(Encode[Item(v, n)])
             z == Len(Entry(v, n))
  <2>5. p = q + z /\ z = x + y /\ q \in Nat /\ x \in Nat /\ y \in Nat
    BY <2>3, <2>4, Zenon
  <2> HIDE DEF p, q, x, y, z
  <2>6. p = q + x + y
    BY <2>5
  <2> QED
    BY <2>6 DEF p, q, x, y
<1>6. N \in 0..N
  BY <1>1
<1>7. Len(Encode[v]) = Len(Upto(v, N)) + 1
  <2> DEFINE x == Upto(v, N)
             y == <<Letter("e")>>
  <2>1. x \in Seq(Tokens) /\ y \in Seq(Tokens) /\ Encode[v] = x \o y /\ Len(y) = 1
    BY <1>2, <1>3, <1>6, Zenon
  <2> HIDE DEF x, y
  <2>2. Len(x \o y) = Len(x) + Len(y)
    BY <2>1, Behind
  <2>3. Len(x \o y) = Len(x) + 1
    BY <2>1, <2>2
  <2> QED
    BY <2>1, <2>3, Zenon DEF x
<1> QED
  BY <1>2, <1>3, <1>4, <1>5, <1>7, Zenon

-----------------------------------------------------------------------------
(* What is kept of a dictionary or a list *)

Kept(v, n) == MappedEntry(v, n, Mapped[Item(v, n)])
KeptEntries(v) == [n \in 1..Len(v.items) |-> Kept(v, n)]
KeptUpto(v, n) == Flat(KeptEntries(v), n)

(* Where it comes from. *)
KeptOf(v) ==
  {KeyVal(CString(v.items[n].key), Mapped[Item(v, n)]) : n \in DOMAIN v.items}
    \cup {Mapped[Item(v, n)] : n \in DOMAIN v.items}

LEMMA KeptIs ==
  ASSUME NEW v \in Contents, IsNested(v), NEW n \in DOMAIN v.items
  PROVE  /\ Kept(v, n) \in Seq(KeptOf(v))
         /\ v.type = "d" => Kept(v, n) = <<KeyVal(CString(v.items[n].key), Mapped[Item(v, n)])>>
         /\ v.type = "l" =>
              Kept(v, n) = IF Item(v, n).type \in {"d", "s"} THEN <<Mapped[Item(v, n)]>> ELSE <<>>
<1> DEFINE x == KeyVal(CString(v.items[n].key), Mapped[Item(v, n)])
           y == Mapped[Item(v, n)]
<1>1. x \in KeptOf(v) /\ y \in KeptOf(v)
  BY Zenon DEF KeptOf
<1>2. v.type = "d" => Kept(v, n) = <<x>>
  BY Zenon DEF Kept, MappedEntry
<1>3. v.type = "l" => Item(v, n) = v.items[n]
  BY DEF Item
<1> HIDE DEF x, y
<1>4. v.type = "l" => Kept(v, n) = IF Item(v, n).type \in {"d", "s"} THEN <<y>> ELSE <<>>
  BY <1>3 DEF Kept, MappedEntry, y
<1>5. <<x>> \in Seq(KeptOf(v)) /\ <<y>> \in Seq(KeptOf(v)) /\ <<>> \in Seq(KeptOf(v))
  BY <1>1
<1>6. Kept(v, n) \in Seq(KeptOf(v))
  <2>1. CASE v.type = "d"
    BY <1>2, <1>5, <2>1, Zenon
  <2>2. CASE v.type = "l"
    BY <1>4, <1>5, <2>2, Zenon
  <2> QED
    BY <2>1, <2>2 DEF IsNested
<1> QED
  BY <1>2, <1>4, <1>6, Zenon DEF x, y

LEMMA KeptOn ==
  ASSUME NEW v \in Contents, IsNested(v)
  PROVE  /\ KeptUpto(v, 0) = <<>>
         /\ \A n \in 0..Len(v.items) : KeptUpto(v, n) \in Seq(KeptOf(v))
         /\ \A n \in 1..Len(v.items) : KeptUpto(v, n) = KeptUpto(v, n - 1) \o Kept(v, n)
         /\ Mapped[v] = Holding(v.type, KeptUpto(v, Len(v.items)))
<1> DEFINE N == Len(v.items)
           g == KeptEntries(v)
<1>1. N \in Nat /\ DOMAIN v.items = 1..N
  BY Items
<1>2. \A n \in 1..N : Kept(v, n) \in Seq(KeptOf(v)) /\ g[n] = Kept(v, n)
  BY <1>1, KeptIs, Zenon DEF KeptEntries
<1>3. g \in [1..N -> Seq(KeptOf(v))]
  BY <1>2, Zenon DEF KeptEntries
<1>4. Mapped[v] = Holding(v.type, KeptUpto(v, N))
  <2>1. v.type \notin {"i", "s"} /\ 2 # 1
    BY DEF IsNested
  <2>2. Mapped[v] =
          Holding(v.type,
                  Lists!FlattenSeq([n \in DOMAIN v.items |->
                                     MappedEntry(v, n, Mapped[Item(v, n)])]))
    BY <2>1, MappedIs, Zenon DEF Body
  <2>3. Lists!FlattenSeq([n \in 1..N |-> g[n]]) = Seqs!FlattenSeq([n \in 1..N |-> g[n]])
    BY Zenon DEF Lists!FlattenSeq, Seqs!FlattenSeq
  <2>4. [n \in DOMAIN v.items |-> MappedEntry(v, n, Mapped[Item(v, n)])] = [n \in 1..N |-> g[n]]
    BY <1>1, <1>2, Zenon DEF Kept
  <2> QED
    BY <2>2, <2>3, <2>4, Zenon DEF KeptUpto, Flat
<1> HIDE DEF g
<1>5. /\ Flat(g, 0) = <<>>
      /\ \A n \in 0..N : Flat(g, n) \in Seq(KeptOf(v))
      /\ \A n \in 1..N : Flat(g, n) = Flat(g, n - 1) \o g[n]
  <2> HIDE DEF N
  <2> QED
    BY <1>1, <1>3, FlatOn
<1> QED
  BY <1>2, <1>4, <1>5, Zenon DEF KeptUpto, g

(* A dictionary keeps all of its entries. *)
LEMMA DictKeeps ==
  ASSUME NEW v \in Contents, v.type = "d"
  PROVE  \A n \in 0..Len(v.items) :
           /\ Len(KeptUpto(v, n)) = n
           /\ \A m \in 1..n : KeptUpto(v, n)[m] = KeyVal(CString(v.items[m].key), Mapped[Item(v, m)])
<1> DEFINE N == Len(v.items)
           Holds(n) ==
             /\ Len(KeptUpto(v, n)) = n
             /\ \A m \in 1..n : KeptUpto(v, n)[m] = KeyVal(CString(v.items[m].key), Mapped[Item(v, m)])
           G == {n \in 0..N : Holds(n)}
<1>1. IsNested(v)
  BY DEF IsNested
<1>2. N \in Nat /\ DOMAIN v.items = 1..N
  BY <1>1, Items
<1>3. 0 \in G
  <2>1. Len(KeptUpto(v, 0)) = 0 /\ 0 \in 0..N
    <3>1. KeptUpto(v, 0) = <<>>
      BY <1>1, KeptOn, Zenon
    <3> QED
      BY <1>2, <3>1
  <2> QED
    BY <2>1
<1>4. ASSUME NEW n \in 1..N, n - 1 \in G
      PROVE  n \in G
  <2> DEFINE x == KeptUpto(v, n - 1)
             e == KeyVal(CString(v.items[n].key), Mapped[Item(v, n)])
  <2>1. n \in 0..N /\ n - 1 \in 0..N
    BY <1>2
  <2>2. x \in Seq(KeptOf(v)) /\ KeptUpto(v, n) = x \o <<e>> /\ e \in KeptOf(v)
    <3>1. Kept(v, n) = <<e>>
      BY <1>1, <1>2, KeptIs
    <3>2. e \in KeptOf(v)
      BY <1>2, Zenon DEF KeptOf
    <3> QED
      BY <1>1, <2>1, <3>1, <3>2, KeptOn, Zenon
  <2>3. Len(x) = n - 1 /\ \A m \in 1..(n - 1) : x[m] = KeyVal(CString(v.items[m].key), Mapped[Item(v, m)])
    BY <1>4
  <2> HIDE DEF x, e
  <2>4. /\ Len(x \o <<e>>) = n /\ (x \o <<e>>)[n] = e
        /\ \A m \in 1..(n - 1) : (x \o <<e>>)[m] = x[m]
    BY <2>2, <2>3
  <2>5. ASSUME NEW m \in 1..n
        PROVE  KeptUpto(v, n)[m] = KeyVal(CString(v.items[m].key), Mapped[Item(v, m)])
    <3>1. CASE m = n
      BY <2>2, <2>4, <3>1, Zenon DEF e
    <3>2. CASE m # n
      <4>1. m \in 1..(n - 1)
        BY <3>2
      <4> QED
        BY <2>2, <2>3, <2>4, <4>1, Zenon
    <3> QED
      BY <3>1, <3>2
  <2>6. Holds(n)
    BY <2>2, <2>4, <2>5, Zenon
  <2> HIDE DEF Holds
  <2> QED
    BY <2>1, <2>6
<1>5. \A n \in 0..N : n \in G
  <2> HIDE DEF G, N
  <2> QED
    BY <1>2, <1>3, <1>4, Upward, Zenon
<1> QED
  BY <1>5

-----------------------------------------------------------------------------
(* What the text holds *)

(* The text reads s at p, and goes on. *)
Spelt(s, p) ==
  /\ text \in Seq(Tokens) /\ s \in Seq(Tokens) /\ p \in Nat \ {0}
  /\ p + Len(s) <= Len(text)
  /\ \A j \in 1..Len(s) : text[p + j - 1] = s[j]

LEMMA SpeltParts ==
  ASSUME NEW x \in Seq(Tokens), NEW y \in Seq(Tokens), NEW p, Spelt(x \o y, p)
  PROVE  Spelt(x, p) /\ Spelt(y, p + Len(x)) /\ Len(x) \in Nat
<1> DEFINE s == x \o y
<1>1. /\ s \in Seq(Tokens) /\ Len(x) \in Nat /\ Len(y) \in Nat
      /\ Len(s) = Len(x) + Len(y)
      /\ \A j \in 1..Len(x) : s[j] = x[j]
      /\ \A j \in 1..Len(y) : s[Len(x) + j] = y[j]
  <2> HIDE DEF Tokens
  <2> QED
    BY Behind
<1>2. Spelt(s, p)
  OBVIOUS
<1> HIDE DEF s
<1>3. /\ text \in Seq(Tokens) /\ p \in Nat \ {0} /\ p + Len(s) <= Len(text)
      /\ \A j \in 1..Len(s) : text[p + j - 1] = s[j]
  BY <1>2, Zenon DEF Spelt
<1>4. Len(text) \in Nat
  BY <1>3, Elements, Zenon
<1>5. /\ p + Len(x) <= Len(text) /\ p + Len(x) \in Nat \ {0}
      /\ p + Len(x) + Len(y) <= Len(text)
  BY <1>1, <1>3, <1>4
<1>6. ASSUME NEW j \in 1..Len(x)
      PROVE  text[p + j - 1] = x[j]
  <2>1. j \in 1..Len(s)
    BY <1>1
  <2> QED
    BY <1>1, <1>3, <2>1, Zenon
<1>7. ASSUME NEW j \in 1..Len(y)
      PROVE  text[p + Len(x) + j - 1] = y[j]
  <2>1. Len(x) + j \in 1..Len(s)
    BY <1>1
  <2>2. text[p + (Len(x) + j) - 1] = s[Len(x) + j] /\ s[Len(x) + j] = y[j]
    BY <1>1, <1>3, <2>1, Zenon
  <2>3. p + (Len(x) + j) - 1 = p + Len(x) + j - 1
    BY <1>1, <1>3
  <2> QED
    BY <2>2, <2>3, Zenon
<1>8. Spelt(x, p)
  BY <1>3, <1>5, <1>6, Zenon DEF Spelt
<1>9. Spelt(y, p + Len(x))
  BY <1>3, <1>5, <1>7, Zenon DEF Spelt
<1> QED
  BY <1>1, <1>8, <1>9

LEMMA SymbolSpelt ==
  ASSUME NEW s, NEW p, Spelt(s, p), NEW j \in 1..Len(s)
  PROVE  /\ p + j - 1 \in DOMAIN text /\ p + j - 1 \in Nat \ {0}
         /\ Symbol(p + j - 1) = s[j][1] /\ NumberAt(p + j - 1) = s[j][2]
<1>1. /\ text \in Seq(Tokens) /\ s \in Seq(Tokens) /\ p \in Nat \ {0} /\ p + Len(s) <= Len(text)
      /\ text[p + j - 1] = s[j]
  BY Zenon DEF Spelt
<1>2. Len(text) \in Nat /\ DOMAIN text = 1..Len(text) /\ Len(s) \in Nat
  BY <1>1, Elements, Zenon
<1>3. p + j - 1 \in DOMAIN text /\ p + j - 1 \in Nat \ {0}
  BY <1>1, <1>2
<1> QED
  BY <1>1, <1>3, Zenon DEF Symbol, NumberAt

LEMMA SymbolOf ==
  /\ \A c : Letter(c)[1] = c
  /\ \A n : Number(n)[1] = "#" /\ Number(n)[2] = n
BY DEF Letter, Number

(* The j-th token of s, which is at p, is at q. *)
Places(s, p, j, q) == Spelt(s, p) /\ j \in 1..Len(s) /\ q = p + j - 1

LEMMA LetterSpelt ==
  ASSUME NEW s, NEW p, NEW j, NEW q, Places(s, p, j, q), NEW c, s[j] = Letter(c)
  PROVE  Symbol(q) = c
<1>0. Spelt(s, p) /\ j \in 1..Len(s) /\ q = p + j - 1
  BY Zenon DEF Places
<1>1. Symbol(p + j - 1) = s[j][1]
  BY <1>0, SymbolSpelt, Zenon
<1>2. s[j][1] = c
  BY SymbolOf, Zenon
<1> QED
  BY <1>0, <1>1, <1>2, Zenon

LEMMA NumberSpelt ==
  ASSUME NEW s, NEW p, NEW j, NEW q, Places(s, p, j, q), NEW n, s[j] = Number(n)
  PROVE  Symbol(q) = "#" /\ NumberAt(q) = n
<1>0. Spelt(s, p) /\ j \in 1..Len(s) /\ q = p + j - 1
  BY Zenon DEF Places
<1>1. Symbol(p + j - 1) = s[j][1] /\ NumberAt(p + j - 1) = s[j][2]
  BY <1>0, SymbolSpelt, Zenon
<1>2. s[j][1] = "#" /\ s[j][2] = n
  BY SymbolOf, Zenon
<1> QED
  BY <1>0, <1>1, <1>2, Zenon

LEMMA StringSpelt ==
  ASSUME NEW k \in Seq(Letters), NEW p, Spelt(Spell(k), p)
  PROVE  /\ Symbol(p) = "#" /\ NumberAt(p) = Len(k) /\ is_string(p)
         /\ Chars(p + 2, Len(k)) = k
<1> DEFINE s == Spell(k)
<1>1. /\ Len(k) \in Nat /\ Len(s) = Len(k) + 2
      /\ s[1] = Number(Len(k)) /\ s[2] = Letter(":")
      /\ \A j \in 1..Len(k) : s[2 + j] = Letter(k[j])
  BY SpellIs, Zenon
<1>2. Spelt(s, p)
  OBVIOUS
<1> HIDE DEF s
<1>3. p \in Nat \ {0}
  BY <1>2, Zenon DEF Spelt
<1>4. Places(s, p, 1, p) /\ Places(s, p, 2, p + 1)
  BY <1>1, <1>2, <1>3 DEF Places
<1>5. Symbol(p) = "#" /\ NumberAt(p) = Len(k)
  BY <1>1, <1>4, NumberSpelt
<1>6. Symbol(p + 1) = ":"
  BY <1>1, <1>4, LetterSpelt
<1>7. ASSUME NEW j \in 1..Len(k)
      PROVE  Symbol(p + 2 + j - 1) = k[j]
  <2>1. Places(s, p, 2 + j, p + 2 + j - 1)
    BY <1>1, <1>2, <1>3 DEF Places
  <2>2. s[2 + j] = Letter(k[j])
    BY <1>1, Zenon
  <2> QED
    BY <2>1, <2>2, LetterSpelt
<1>8. Chars(p + 2, Len(k)) = [j \in 1..Len(k) |-> k[j]]
  BY <1>7, Zenon DEF Chars
<1>9. k = [j \in 1..Len(k) |-> k[j]]
  OBVIOUS
<1> QED
  BY <1>4, <1>5, <1>6, <1>8, <1>9, Zenon DEF is_string, IsNumber

LEMMA UptoBegins ==
  ASSUME NEW v \in Contents, IsNested(v)
  PROVE  \A n \in 0..Len(v.items) :
           Len(Upto(v, n)) >= 1 /\ Upto(v, n)[1] = Letter(v.type)
<1> DEFINE N == Len(v.items)
           G == {n \in 0..N : Len(Upto(v, n)) >= 1 /\ Upto(v, n)[1] = Letter(v.type)}
<1>1. N \in Nat
  BY Items
<1>2. 0 \in G
  <2>1. Upto(v, 0) = <<Letter(v.type)>>
    BY UptoOn, Zenon
  <2>2. Len(Upto(v, 0)) >= 1 /\ Upto(v, 0)[1] = Letter(v.type) /\ 0 \in 0..N
    BY <1>1, <2>1
  <2> QED
    BY <2>2
<1>3. ASSUME NEW n \in 1..N, n - 1 \in G
      PROVE  n \in G
  <2> DEFINE x == Upto(v, n - 1)
             y == Entry(v, n)
  <2>1. n \in 0..N /\ n - 1 \in 0..N
    BY <1>1
  <2>2. x \in Seq(Tokens) /\ y \in Seq(Tokens) /\ Upto(v, n) = x \o y
    BY <2>1, UptoOn, Zenon
  <2>3. Len(x) >= 1 /\ x[1] = Letter(v.type)
    BY <1>3
  <2> HIDE DEF x, y, Tokens
  <2>4. /\ Len(x \o y) = Len(x) + Len(y) /\ Len(x) \in Nat /\ Len(y) \in Nat
        /\ \A j \in 1..Len(x) : (x \o y)[j] = x[j]
    BY <2>2, Behind
  <2>5. Len(x \o y) >= 1 /\ (x \o y)[1] = Letter(v.type)
    BY <2>3, <2>4
  <2> QED
    BY <2>1, <2>2, <2>5
<1>4. \A n \in 0..N : n \in G
  <2> HIDE DEF G, N
  <2> QED
    BY <1>1, <1>2, <1>3, Upward, Zenon
<1> QED
  BY <1>4

LEMMA BeginningSpelt ==
  ASSUME NEW v \in Contents, IsNested(v), NEW n \in 0..Len(v.items), NEW p,
         Spelt(Upto(v, n), p)
  PROVE  Symbol(p) = v.type
<1> DEFINE s == Upto(v, n)
<1>1. Len(s) >= 1 /\ s[1] = Letter(v.type) /\ s \in Seq(Tokens)
  BY UptoBegins, UptoOn, Zenon
<1>2. Len(s) \in Nat
  BY <1>1, Elements, Zenon
<1>3. Spelt(s, p) /\ p \in Nat \ {0}
  BY Zenon DEF Spelt
<1> HIDE DEF s
<1>4. Places(s, p, 1, p)
  BY <1>1, <1>2, <1>3 DEF Places
<1> QED
  BY <1>1, <1>4, LetterSpelt

(* How a value begins. *)
LEMMA HeadSpelt ==
  ASSUME NEW v \in Contents, NEW p, Spelt(Encode[v], p)
  PROVE  /\ IsNested(v) => Symbol(p) = v.type
         /\ v.type = "i" =>
              /\ Symbol(p) = "i" /\ Symbol(p + 1) = "#" /\ NumberAt(p + 1) = v.n
              /\ Symbol(p + 2) = "e" /\ Len(Encode[v]) = 3
         /\ v.type = "s" => /\ Spelt(Spell(v.chars), p) /\ v.chars \in Seq(Letters)
                            /\ Len(Encode[v]) = Len(v.chars) + 2
<1>0. p \in Nat \ {0}
  BY Zenon DEF Spelt
<1>1. ASSUME IsNested(v)
      PROVE  Symbol(p) = v.type
  <2> DEFINE N == Len(v.items)
             u == Upto(v, N)
             z == <<Letter("e")>>
  <2>1. N \in 0..N
    BY <1>1, Items
  <2>2. Encode[v] = u \o z /\ u \in Seq(Tokens) /\ z \in Seq(Tokens)
    BY <1>1, <2>1, UptoOn, NestedLetter, Zenon
  <2>3. Spelt(u \o z, p)
    BY <2>2, Zenon
  <2> HIDE DEF u, z
  <2>4. Spelt(u, p)
    BY <2>2, <2>3, SpeltParts
  <2> QED
    BY <1>1, <2>1, <2>4, BeginningSpelt DEF u
<1>2. ASSUME v.type = "i"
      PROVE  /\ Symbol(p) = "i" /\ Symbol(p + 1) = "#" /\ NumberAt(p + 1) = v.n
             /\ Symbol(p + 2) = "e" /\ Len(Encode[v]) = 3
  <2> DEFINE s == <<Letter("i"), Number(v.n), Letter("e")>>
  <2>1. Encode[v] = s
    BY <1>2, EncodeIs, Zenon DEF Body
  <2>2. Len(s) = 3 /\ s[1] = Letter("i") /\ s[2] = Number(v.n) /\ s[3] = Letter("e")
    OBVIOUS
  <2>3. Spelt(s, p)
    BY <2>1, Zenon
  <2> HIDE DEF s
  <2>4. Places(s, p, 1, p) /\ Places(s, p, 2, p + 1) /\ Places(s, p, 3, p + 2)
    BY <1>0, <2>2, <2>3 DEF Places
  <2>5. Symbol(p) = "i"
    BY <2>2, <2>4, LetterSpelt
  <2>6. Symbol(p + 1) = "#" /\ NumberAt(p + 1) = v.n
    BY <2>2, <2>4, NumberSpelt
  <2>7. Symbol(p + 2) = "e"
    BY <2>2, <2>4, LetterSpelt
  <2> QED
    BY <2>1, <2>2, <2>4, <2>5, <2>6, <2>7, Zenon
<1>3. ASSUME v.type = "s"
      PROVE  /\ Spelt(Spell(v.chars), p) /\ v.chars \in Seq(Letters)
             /\ Len(Encode[v]) = Len(v.chars) + 2
  <2>1. v.type # "i" /\ v.chars \in Seq(Letters)
    BY <1>3, Forms
  <2>2. Encode[v] = Spell(v.chars)
    BY <1>3, <2>1, EncodeIs, Zenon DEF Body
  <2> QED
    BY <2>1, <2>2, SpellIs, Zenon
<1> QED
  BY <1>1, <1>2, <1>3

LEMMA EntrySpelt ==
  ASSUME NEW v \in Contents, IsNested(v), NEW n \in 1..Len(v.items), NEW p,
         Spelt(Upto(v, n), p)
  PROVE  /\ Spelt(Upto(v, n - 1), p)
         /\ Spelt(Lead(v, n), p + Len(Upto(v, n - 1)))
         /\ Spelt(Encode[Item(v, n)], p + Len(Upto(v, n - 1)) + Len(Lead(v, n)))
<1> DEFINE x == Upto(v, n - 1)
           y == Entry(v, n)
           k == Lead(v, n)
           e == Encode[Item(v, n)]
<1>1. n - 1 \in 0..Len(v.items) /\ n \in DOMAIN v.items
  BY Items
<1>2. x \in Seq(Tokens) /\ y \in Seq(Tokens) /\ Upto(v, n) = x \o y
  BY <1>1, UptoOn, Zenon
<1>3. k \in Seq(Tokens) /\ e \in Seq(Tokens) /\ y = k \o e
  <2>1. Item(v, n) \in Contents
    BY <1>1, Items
  <2> QED
    BY <1>1, <2>1, LeadIs, EncodeType, Zenon DEF Entry
<1>4. Spelt(x \o y, p)
  BY <1>2, Zenon
<1> HIDE DEF x, y, k, e
<1>5. Spelt(x, p) /\ Spelt(y, p + Len(x))
  BY <1>2, <1>4, SpeltParts
<1>6. Spelt(k \o e, p + Len(x))
  BY <1>3, <1>5, Zenon
<1>7. Spelt(k, p + Len(x)) /\ Spelt(e, p + Len(x) + Len(k))
  BY <1>3, <1>6, SpeltParts
<1> QED
  BY <1>5, <1>7, Zenon DEF x, k, e

(* Where the entries are of a value at p, and the cursor behind n of them. *)
EntryPlace(v, p, n) == p + Len(Upto(v, n - 1))
ValuePlace(v, p, n) == p + Len(Upto(v, n - 1)) + Len(Lead(v, n))
Place(v, p, n) == IF n = 0 THEN p ELSE p + Len(Upto(v, n))

Over(be, v, p, n) ==
  be.start = p /\ be.str = Place(v, p, n) /\ be.len \in Int /\ p + be.len >= Len(text)

(* The numbers of an entry. *)
LEMMA Sizes ==
  ASSUME NEW v \in Contents, IsNested(v), NEW n \in 1..Len(v.items), NEW p,
         Spelt(Upto(v, n), p)
  PROVE  /\ p \in Nat \ {0} /\ Len(text) \in Nat
         /\ Len(Upto(v, n - 1)) \in Nat \ {0} /\ Len(Lead(v, n)) \in Nat
         /\ Len(Encode[Item(v, n)]) \in Nat
         /\ EntryPlace(v, p, n) \in Nat /\ ValuePlace(v, p, n) \in Nat
         /\ ValuePlace(v, p, n) + Len(Encode[Item(v, n)]) = p + Len(Upto(v, n))
         /\ p + Len(Upto(v, n)) <= Len(text)
         /\ v.type = "d" => Len(Lead(v, n)) >= 2
         /\ n # 1 => EntryPlace(v, p, n) = Place(v, p, n - 1)
         /\ n = 1 => EntryPlace(v, p, n) = p + 1 /\ Place(v, p, n - 1) = p
         /\ Place(v, p, n) = p + Len(Upto(v, n))
<1> DEFINE a == Len(Upto(v, n - 1))
           b == Len(Lead(v, n))
           c == Len(Encode[Item(v, n)])
           d == Len(Upto(v, n))
<1>1. n - 1 \in 0..Len(v.items) /\ n \in 0..Len(v.items) /\ n \in DOMAIN v.items /\ n \in Nat
  BY Items
<1>2. a \in Nat /\ d \in Nat /\ d = a + b + c
  BY <1>1, UptoGrows
<1>3. a >= 1
  BY <1>1, UptoBegins, Zenon
<1>4. b \in Nat /\ c \in Nat
  <2>1. Item(v, n) \in Contents
    BY <1>1, Items
  <2>2. Encode[Item(v, n)] \in Seq(Tokens) /\ b \in Nat
    BY <1>1, <2>1, EncodeType, LeadIs, Zenon
  <2> QED
    BY <2>2, Elements, Zenon
<1>5. text \in Seq(Tokens) /\ p \in Nat \ {0} /\ p + d <= Len(text)
  BY Zenon DEF Spelt
<1>6. Len(text) \in Nat
  BY <1>5, Elements, Zenon
<1>7. v.type = "d" => b >= 2
  <2>1. SUFFICES ASSUME v.type = "d"
                 PROVE  b >= 2
    OBVIOUS
  <2>2. Lead(v, n) = Spell(v.items[n].key) /\ v.items[n].key \in Seq(Letters)
    BY <1>1, <2>1, LeadIs, Zenon
  <2> DEFINE k == v.items[n].key
  <2>3. Len(k) \in Nat /\ b = Len(k) + 2
    BY <2>2, SpellIs, Zenon
  <2> HIDE DEF k, b
  <2> QED
    BY <2>3
<1>8. n = 1 => a = 1
  <2>1. n = 1 => n - 1 = 0
    OBVIOUS
  <2> QED
    BY <2>1, UptoGrows, Zenon
<1>9. EntryPlace(v, p, n) = p + a /\ ValuePlace(v, p, n) = p + a + b
  BY Zenon DEF EntryPlace, ValuePlace
<1>10. Place(v, p, n) = p + d /\ Place(v, p, n - 1) = IF n - 1 = 0 THEN p ELSE p + a
  BY <1>1 DEF Place
<1> HIDE DEF a, b, c, d
<1>11. /\ a \in Nat \ {0} /\ p + a \in Nat /\ p + a + b \in Nat
       /\ p + a + b + c = p + d
       /\ n # 1 => Place(v, p, n - 1) = p + a
       /\ n = 1 => Place(v, p, n - 1) = p /\ p + a = p + 1
  <2>1. a \in Nat \ {0} /\ p + a \in Nat /\ p + a + b \in Nat /\ p + a + b + c = p + d
    BY <1>2, <1>3, <1>4, <1>5
  <2>2. n - 1 = 0 <=> n = 1
    BY <1>1
  <2>3. n = 1 => p + a = p + 1
    BY <1>8
  <2> QED
    BY <1>10, <2>1, <2>2, <2>3, Zenon
<1> QED
  BY <1>2, <1>4, <1>5, <1>6, <1>7, <1>9, <1>10, <1>11, Zenon DEF a, b, c, d

-----------------------------------------------------------------------------
(* What the decoder makes of a value, and of a dictionary or a list whose
   entries it goes through                                                   *)

LEMMA FirstSymbol ==
  ASSUME NEW v \in Contents, NEW p, Spelt(Encode[v], p)
  PROVE  /\ p \in Nat \ {0} /\ Len(Encode[v]) \in Nat /\ Len(Encode[v]) >= 2
         /\ p + Len(Encode[v]) <= Len(text) /\ Len(text) \in Nat
         /\ IsNested(v) => Symbol(p) = v.type
         /\ v.type = "i" => Symbol(p) = "i"
         /\ v.type = "s" => Symbol(p) = "#" /\ is_string(p)
         /\ Symbol(p) \in {"i", "#", "d", "l"}
<1>1. /\ text \in Seq(Tokens) /\ p \in Nat \ {0} /\ Encode[v] \in Seq(Tokens)
      /\ p + Len(Encode[v]) <= Len(text)
  BY Zenon DEF Spelt
<1>2. Len(text) \in Nat /\ Len(Encode[v]) \in Nat
  BY <1>1, Elements, Zenon
<1>3. CASE IsNested(v)
  <2>1. Symbol(p) = v.type
    BY <1>3, HeadSpelt, Zenon
  <2>2. Len(Encode[v]) >= 2
    <3> DEFINE N == Len(v.items)
    <3>1. N \in 0..N
      BY <1>3, Items
    <3>2. Len(Upto(v, N)) >= 1 /\ Len(Encode[v]) = Len(Upto(v, N)) + 1 /\ Len(Upto(v, N)) \in Nat
      BY <1>3, <3>1, UptoBegins, UptoGrows, Zenon
    <3> HIDE DEF N
    <3> QED
      BY <3>2
  <2> QED
    BY <1>1, <1>2, <1>3, <2>1, <2>2 DEF IsNested
<1>4. CASE v.type = "i"
  <2>1. Symbol(p) = "i" /\ Len(Encode[v]) = 3
    BY <1>4, HeadSpelt, Zenon
  <2> QED
    BY <1>1, <1>2, <1>4, <2>1 DEF IsNested
<1>5. CASE v.type = "s"
  <2>1. /\ Spelt(Spell(v.chars), p) /\ v.chars \in Seq(Letters)
        /\ Len(Encode[v]) = Len(v.chars) + 2
    BY <1>5, HeadSpelt, Zenon
  <2>2. Symbol(p) = "#" /\ is_string(p)
    BY <2>1, StringSpelt, Zenon
  <2>3. Len(v.chars) \in Nat
    BY <2>1, Elements, Zenon
  <2> QED
    BY <1>1, <1>2, <1>5, <2>1, <2>2, <2>3 DEF IsNested
<1> QED
  BY <1>3, <1>4, <1>5, Forms DEF IsNested

LEMMA NestedRead ==
  ASSUME NEW v \in Contents, IsNested(v), NEW p, Spelt(Encode[v], p)
  PROVE  Nests(p) /\ ~is_string(p) /\ Symbol(p) = v.type
<1>1. Symbol(p) = v.type
  BY FirstSymbol, Zenon
<1> QED
  BY <1>1 DEF Nests, is_string, IsNumber, IsNested

LEMMA LeafRead ==
  ASSUME NEW v \in Contents, ~IsNested(v), NEW p, Spelt(Encode[v], p),
         NEW n \in Int, n > 0, p + n >= Len(text)
  PROVE  /\ ~Nests(p) /\ Symbol(p) # "d" /\ (is_string(p) <=> v.type = "s")
         /\ Leaf(p) = v /\ LeafEnd(Cursor(p, n)) = p + Len(Encode[v])
<1> DEFINE be == Cursor(p, n)
<1>1. be.start = p /\ be.str = p /\ be.len = n
  BY DEF Cursor
<1> HIDE DEF be
<1>2. /\ p \in Nat \ {0} /\ Len(Encode[v]) \in Nat /\ Len(text) \in Nat
      /\ p + Len(Encode[v]) <= Len(text)
  BY FirstSymbol, Zenon
<1>3. v.type \in {"i", "s"}
  BY Forms DEF IsNested
<1>4. CASE v.type = "i"
  <2>1. /\ Symbol(p) = "i" /\ Symbol(p + 1) = "#" /\ NumberAt(p + 1) = v.n
        /\ Symbol(p + 2) = "e" /\ Len(Encode[v]) = 3
    BY <1>4, HeadSpelt, Zenon
  <2>2. ~is_string(p) /\ ~Nests(p) /\ Symbol(p) # "d"
    BY <2>1 DEF is_string, IsNumber, Nests
  <2>3. Leaf(p) = v
    <3>1. Leaf(p) = BInt(v.n)
      BY <2>1, Zenon DEF Leaf
    <3>2. v \in [type : {"i"}, n : Nat]
      BY <1>4, ContentsAssumption
    <3>3. v = BInt(v.n)
      BY <3>2 DEF BInt
    <3> QED
      BY <3>1, <3>3, Zenon
  <2>4. LeafEnd(be) = p + 3
    BY <1>1, <2>1, <2>2 DEF LeafEnd, IsNumber
  <2> QED
    BY <1>4, <2>1, <2>2, <2>3, <2>4 DEF be
<1>5. CASE v.type = "s"
  <2>1. /\ Spelt(Spell(v.chars), p) /\ v.chars \in Seq(Letters)
        /\ Len(Encode[v]) = Len(v.chars) + 2
    BY <1>5, HeadSpelt, Zenon
  <2>2. /\ Symbol(p) = "#" /\ NumberAt(p) = Len(v.chars) /\ is_string(p)
        /\ Chars(p + 2, Len(v.chars)) = v.chars
    BY <2>1, StringSpelt, Zenon
  <2>3. ~Nests(p) /\ Symbol(p) # "d" /\ Symbol(p) # "i"
    BY <2>2 DEF Nests
  <2>4. Leaf(p) = v
    <3>1. Leaf(p) = BStr(v.chars)
      BY <2>2, <2>3, Zenon DEF Leaf
    <3>2. v \in [type : {"s"}, chars : Seq(Letters)]
      BY <1>5, ContentsAssumption
    <3>3. v = BStr(v.chars)
      BY <3>2 DEF BStr
    <3> QED
      BY <3>1, <3>3, Zenon
  <2>5. Len(v.chars) \in Nat
    BY <2>1, Elements, Zenon
  <2> DEFINE m == Len(v.chars)
             c == Len(Encode[v])
             l == Len(text)
  <2>6. StringFits(be) /\ p + 2 + m = p + c
    <3>1. /\ m \in Nat /\ c = m + 2 /\ l \in Nat /\ p + c <= l /\ p + n >= l /\ p \in Nat
          /\ NumberAt(p) = m
      BY <1>2, <2>1, <2>2, <2>5
    <3> HIDE DEF m, c, l
    <3>2. be.str + 2 + NumberAt(be.str) <= be.start + be.len
      BY <1>1, <3>1
    <3> QED
      BY <3>1, <3>2 DEF StringFits
  <2>7. LeafEnd(be) = p + 2 + Len(v.chars)
    BY <1>1, <2>2, <2>6 DEF LeafEnd
  <2> QED
    BY <1>5, <2>2, <2>3, <2>4, <2>6, <2>7 DEF be
<1> QED
  BY <1>3, <1>4, <1>5

(* The cursor is before an entry that is whole: the loop comes to its value. *)
LEMMA ToEntry ==
  ASSUME NEW v \in Contents, IsNested(v), NEW n \in 1..Len(v.items), NEW p,
         Spelt(Upto(v, n), p), NEW f, f.type = v.type, Over(f.be, v, p, n - 1)
  PROVE  /\ HasNext(f) /\ f.be.len > 0
         /\ (IF f.type = "d" THEN ValueAt(f.be) ELSE ItemAt(f.be)) = ValuePlace(v, p, n)
         /\ v.type = "d" => Chars(KeyAt(f.be) + 2, NumberAt(KeyAt(f.be))) = v.items[n].key
         /\ carry_length(f.be, ValuePlace(v, p, n)) \in Int
         /\ carry_length(f.be, ValuePlace(v, p, n)) > 0
         /\ ValuePlace(v, p, n) + carry_length(f.be, ValuePlace(v, p, n)) >= Len(text)
         /\ f.be.str <= ValuePlace(v, p, n)
<1> DEFINE e == EntryPlace(v, p, n)
           q == ValuePlace(v, p, n)
           b == Len(Lead(v, n))
           c == Len(Encode[Item(v, n)])
           be == f.be
           a == Len(Upto(v, n - 1))
           d == Len(Upto(v, n))
           t == Len(text)
<1>1. /\ Spelt(Lead(v, n), e) /\ Spelt(Encode[Item(v, n)], q)
  BY EntrySpelt, Zenon DEF EntryPlace, ValuePlace
<1>2. Symbol(p) = v.type
  <2>1. n \in 0..Len(v.items)
    OBVIOUS
  <2> QED
    BY <2>1, BeginningSpelt, Zenon
<1>3. /\ p \in Nat \ {0} /\ t \in Nat /\ a \in Nat \ {0} /\ b \in Nat /\ c \in Nat
      /\ e \in Nat /\ q \in Nat
      /\ q + c = p + d /\ p + d <= t
      /\ v.type = "d" => b >= 2
      /\ n # 1 => e = Place(v, p, n - 1)
      /\ n = 1 => e = p + 1 /\ Place(v, p, n - 1) = p
  BY Sizes
<1>4. e = p + a /\ q = p + a + b
  BY Zenon DEF EntryPlace, ValuePlace
<1>5. n \in DOMAIN v.items /\ Item(v, n) \in Contents
  BY Items
<1>6. c >= 2 /\ Symbol(q) \in {"i", "#", "d", "l"}
  BY <1>1, <1>5, FirstSymbol, Zenon
<1>7. /\ be.start = p /\ be.len \in Int /\ p + be.len >= t
      /\ be.str = Place(v, p, n - 1)
  BY Zenon DEF Over
<1>8. v.type = "l" => b = 0
  BY <1>5, LeadIs, Zenon
<1>13. d \in Nat
  <2>1. n \in 0..Len(v.items)
    OBVIOUS
  <2> QED
    BY <2>1, UptoGrows, Zenon
<1> HIDE DEF e, q, b, c, be, a, d, t
<1>9. /\ q = e + b
      /\ n # 1 => be.str = e /\ e > p
      /\ n = 1 => be.str = p /\ e = p + 1
  BY <1>3, <1>4, <1>7
<1>10. /\ carry_length(be, q) \in Int /\ carry_length(be, q) > 0
       /\ q + carry_length(be, q) >= t /\ be.len > 0
  <2> DEFINE s == be.str
             m == be.len
  <2>1. /\ q \in Nat /\ c \in Nat /\ c >= 2 /\ t \in Nat /\ p \in Nat /\ q + c <= t
        /\ p + m >= t /\ m \in Int /\ s \in Nat /\ s >= p /\ s <= q
    BY <1>3, <1>6, <1>7, <1>9
  <2> HIDE DEF s, m
  <2>2. m - (q - s) \in Int /\ m - (q - s) > 0 /\ q + (m - (q - s)) >= t /\ m > 0
    BY <2>1
  <2> QED
    BY <2>2, Zenon DEF carry_length, s, m
<1>11. CASE v.type = "d"
  <2> DEFINE k == v.items[n].key
  <2>1. k \in Seq(Letters) /\ Spelt(Spell(k), e)
    BY <1>1, <1>5, <1>11, LeadIs, Zenon
  <2>2. /\ Symbol(e) = "#" /\ NumberAt(e) = Len(k) /\ is_string(e)
        /\ Chars(e + 2, Len(k)) = k
    BY <2>1, StringSpelt, Zenon
  <2>3. Len(k) \in Nat /\ b = Len(k) + 2
    BY <1>5, <1>11, <2>1, LeadIs, SpellIs, Zenon DEF b
  <2> HIDE DEF k
  <2>4. KeyAt(be) = e
    BY <1>2, <1>9, <1>11, <2>2 DEF KeyAt
  <2>5. ValueAt(be) = q
    <3>1. ValueAt(be) = e + 2 + Len(k)
      BY <2>2, <2>4, Zenon DEF ValueAt
    <3>2. e + 2 + Len(k) = q
      <4> DEFINE x == Len(k)
      <4>1. x \in Nat /\ b = x + 2 /\ q = e + b /\ e \in Nat
        BY <1>3, <1>9, <2>3
      <4> HIDE DEF x
      <4>2. e + 2 + x = q
        BY <4>1
      <4> QED
        BY <4>2 DEF x
    <3> QED
      BY <3>1, <3>2, Zenon
  <2>6. Chars(KeyAt(be) + 2, NumberAt(KeyAt(be))) = k
    BY <2>2, <2>4, Zenon
  <2>7. dict_has_next(be)
    <3>1. Symbol(be.str) \in {"d", "#"} /\ (Symbol(be.str) = "d" => Symbol(be.str + 1) = "#")
      BY <1>2, <1>9, <1>11, <2>2
    <3>2. be.str < be.start + be.len - 1
      BY <1>3, <1>6, <1>7, <1>9, <1>11, <1>13
    <3> QED
      BY <3>1, <3>2 DEF dict_has_next, AtEmptyDict, NulChar
  <2>8. HasNext(f)
    <3>1. be.str # NullPtr
      BY <1>3, <1>9 DEF NullPtr
    <3> QED
      BY <1>2, <1>7, <1>11, <2>7, <3>1, Zenon DEF HasNext, be
  <2>9. be.str <= q
    BY <1>3, <1>9, <1>11
  <2> QED
    BY <1>10, <1>11, <2>5, <2>6, <2>8, <2>9, Zenon DEF be, k, q, t
<1>12. CASE v.type = "l"
  <2>1. q = e
    BY <1>3, <1>8, <1>9, <1>12
  <2>2. ItemAt(be) = q
    BY <1>2, <1>3, <1>7, <1>9, <1>12, <2>1 DEF ItemAt
  <2>3. list_has_next(be)
    <3>1. CASE n = 1
      <4>1. Symbol(be.str) = "l" /\ Symbol(be.str + 1) # "e"
        BY <1>2, <1>6, <1>9, <1>12, <2>1, <3>1
      <4> QED
        BY <4>1 DEF list_has_next, AtEmptyList
    <3>2. CASE n # 1
      <4>1. be.str # be.start /\ Symbol(be.str) # "e"
        <5>1. be.str = q /\ be.start = p /\ q > p
          BY <1>7, <1>9, <2>1, <3>2
        <5>2. Symbol(q) # "e"
          BY <1>6
        <5> QED
          BY <1>3, <5>1, <5>2
      <4> QED
        BY <4>1 DEF list_has_next, AtEmptyList
    <3> QED
      BY <3>1, <3>2
  <2>4. HasNext(f)
    <3>1. be.str # NullPtr
      BY <1>3, <1>9 DEF NullPtr
    <3>2. f.type # "d"
      BY <1>12
    <3> QED
      BY <1>2, <1>7, <1>12, <2>3, <3>1, <3>2, Zenon DEF HasNext, be
  <2>5. f.type # "d" /\ v.type # "d"
    BY <1>12
  <2>6. be.str <= q
    BY <1>3, <1>9, <2>1
  <2> QED
    BY <1>10, <1>12, <2>2, <2>4, <2>5, <2>6, Zenon DEF be, q, t
<1> QED
  BY <1>11, <1>12 DEF IsNested

(* The cursor is behind all entries: the loop is left. *)
LEMMA AtEnd ==
  ASSUME NEW v \in Contents, IsNested(v), NEW p, Spelt(Encode[v], p),
         NEW f, f.type = v.type, Over(f.be, v, p, Len(v.items))
  PROVE  /\ ~HasNext(f) /\ f.be.str # NullPtr
         /\ EndOf(f.be) = p + Len(Encode[v])
<1> DEFINE N == Len(v.items)
           u == Upto(v, N)
           z == <<Letter("e")>>
           be == f.be
<1>1. N \in Nat /\ N \in 0..N
  BY Items
<1>2. Encode[v] = u \o z /\ u \in Seq(Tokens) /\ z \in Seq(Tokens)
  BY <1>1, UptoOn, NestedLetter, Zenon
<1>12. Len(Encode[v]) = Len(u) + 1
  BY UptoGrows, Zenon
<1>3. Len(u) \in Nat /\ Len(u) >= 1
  BY <1>1, UptoBegins, UptoGrows, Zenon
<1>4. N = 0 => Len(u) = 1
  BY UptoGrows, Zenon
<1>5. p \in Nat \ {0} /\ Symbol(p) = v.type
  BY FirstSymbol, Zenon
<1>6. Symbol(p + Len(u)) = "e"
  <2>1. Spelt(u \o z, p)
    BY <1>2, Zenon
  <2> HIDE DEF u, z
  <2>2. Spelt(z, p + Len(u))
    BY <1>2, <2>1, SpeltParts
  <2>3. Len(z) = 1 /\ z[1] = Letter("e")
    BY DEF z
  <2>4. Places(z, p + Len(u), 1, p + Len(u))
    BY <1>3, <1>5, <2>2, <2>3 DEF Places
  <2> QED
    BY <2>3, <2>4, LetterSpelt
<1>7. be.start = p /\ be.str = IF N = 0 THEN p ELSE p + Len(u)
  BY Zenon DEF Over, Place
<1>8. f.type = v.type /\ v.type \in {"d", "l"}
  BY DEF IsNested
<1>9. HasNext(f) => IF f.type = "d" THEN dict_has_next(be) ELSE list_has_next(be)
  BY Zenon DEF HasNext
<1> HIDE DEF N, u, be
<1>10. CASE N = 0
  <2>1. be.str = p /\ be.start = p /\ Symbol(p + 1) = "e"
    BY <1>4, <1>6, <1>7, <1>10
  <2>2. CASE v.type = "d"
    <3>1. AtEmptyDict(be)
      BY <1>5, <2>1, <2>2 DEF AtEmptyDict
    <3>2. ~HasNext(f)
      BY <1>8, <1>9, <2>2, <3>1 DEF dict_has_next
    <3>3. EndOf(be) = p + 2 /\ be.str # NullPtr
      BY <1>5, <2>1, <3>1 DEF EndOf, NullPtr
    <3>4. p + 2 = p + Len(Encode[v])
      <4> DEFINE c == Len(Encode[v])
      <4> DEFINE x == Len(u)
      <4>1. x = 1 /\ c = x + 1
        BY <1>4, <1>10, <1>12, Zenon
      <4> HIDE DEF c, x
      <4>2. p + 2 = p + c
        BY <4>1
      <4> QED
        BY <4>2 DEF c
    <3> QED
      BY <3>2, <3>3, <3>4 DEF be
  <2>3. CASE v.type = "l"
    <3>1. AtEmptyList(be)
      BY <1>5, <2>1, <2>3 DEF AtEmptyList
    <3>2. ~HasNext(f)
      BY <1>8, <1>9, <2>3, <3>1 DEF list_has_next
    <3>3. EndOf(be) = p + 2 /\ be.str # NullPtr
      BY <1>5, <2>1, <3>1 DEF EndOf, NullPtr
    <3>4. p + 2 = p + Len(Encode[v])
      <4> DEFINE c == Len(Encode[v])
      <4> DEFINE x == Len(u)
      <4>1. x = 1 /\ c = x + 1
        BY <1>4, <1>10, <1>12, Zenon
      <4> HIDE DEF c, x
      <4>2. p + 2 = p + c
        BY <4>1
      <4> QED
        BY <4>2 DEF c
    <3> QED
      BY <3>2, <3>3, <3>4 DEF be
  <2> QED
    BY <1>8, <2>2, <2>3
<1>11. CASE N # 0
  <2>1. be.str = p + Len(u) /\ Symbol(be.str) = "e"
    BY <1>6, <1>7, <1>11
  <2>2. ~AtEmptyDict(be) /\ ~AtEmptyList(be) /\ be.str # NullPtr
    BY <1>3, <1>5, <2>1 DEF AtEmptyDict, AtEmptyList, NullPtr
  <2>3. ~dict_has_next(be) /\ ~list_has_next(be)
    BY <2>1 DEF dict_has_next, list_has_next
  <2>4. ~HasNext(f)
    BY <1>9, <2>3
  <2>5. EndOf(be) = p + Len(u) + 1
    BY <2>1, <2>2 DEF EndOf
  <2>6. p + Len(u) + 1 = p + Len(Encode[v])
    BY <1>3, <1>5, <1>12
  <2> QED
    BY <2>2, <2>4, <2>5, <2>6 DEF be
<1> QED
  BY <1>10, <1>11

-----------------------------------------------------------------------------
(* The text, which is the encoding up to the cut *)

Begins(x, y) == Len(x) <= Len(y) /\ \A j \in 1..Len(x) : x[j] = y[j]

LEMMA UptoBeginsEncode ==
  ASSUME NEW v \in Contents, IsNested(v)
  PROVE  \A n \in 0..Len(v.items) : Begins(Upto(v, n), Encode[v])
<1> DEFINE N == Len(v.items)
           G == {k \in 0..N : Begins(Upto(v, N - k), Encode[v])}
<1>1. N \in Nat
  BY Items
<1>2. ASSUME NEW x \in Seq(Tokens), NEW y \in Seq(Tokens)
      PROVE  Begins(x, x \o y)
  <2> HIDE DEF Tokens
  <2>1. /\ Len(x \o y) = Len(x) + Len(y) /\ Len(x) \in Nat /\ Len(y) \in Nat
        /\ \A j \in 1..Len(x) : (x \o y)[j] = x[j]
    BY Behind
  <2>2. Len(x) <= Len(x \o y)
    BY <2>1
  <2> QED
    BY <2>1, <2>2, Zenon DEF Begins
<1>3. 0 \in G
  <2>1. N \in 0..N /\ N - 0 = N /\ 0 \in 0..N
    BY <1>1
  <2>2. /\ Upto(v, N) \in Seq(Tokens) /\ <<Letter("e")>> \in Seq(Tokens)
        /\ Encode[v] = Upto(v, N) \o <<Letter("e")>>
    BY <2>1, UptoOn, NestedLetter, Zenon
  <2>3. Begins(Upto(v, N), Encode[v])
    BY <1>2, <2>2, Zenon
  <2> QED
    BY <2>1, <2>3
<1>4. ASSUME NEW k \in 1..N, k - 1 \in G
      PROVE  k \in G
  <2> DEFINE n == N - k + 1
             x == Upto(v, n - 1)
             z == Upto(v, n)
             e == Encode[v]
  <2>1. n \in 1..N /\ n - 1 \in 0..N /\ n \in 0..N /\ N - k = n - 1 /\ N - (k - 1) = n /\ k \in 0..N
    BY <1>1
  <2>2. x \in Seq(Tokens) /\ Entry(v, n) \in Seq(Tokens) /\ z = x \o Entry(v, n)
    BY <2>1, UptoOn, Zenon
  <2>3. Begins(x, z)
    BY <1>2, <2>2, Zenon
  <2>4. Begins(z, e)
    BY <1>4, <2>1
  <2>5. Len(x) \in Nat /\ Len(z) \in Nat /\ Len(e) \in Nat
    <3>1. Len(x) \in Nat /\ Len(z) \in Nat
      BY <2>1, UptoGrows, Zenon
    <3>2. e \in Seq(Tokens)
      BY EncodeType, Zenon
    <3> QED
      BY <3>1, <3>2, Elements, Zenon
  <2> HIDE DEF x, z, e
  <2>6. Begins(x, e)
    BY <2>3, <2>4, <2>5 DEF Begins
  <2> QED
    BY <2>1, <2>6 DEF x, e
<1>5. \A k \in 0..N : k \in G
  <2> HIDE DEF G, N
  <2> QED
    BY <1>1, <1>3, <1>4, Upward, Zenon
<1>6. ASSUME NEW n \in 0..N
      PROVE  Begins(Upto(v, n), Encode[v])
  <2>1. N - n \in 0..N /\ N - (N - n) = n
    BY <1>1
  <2>2. Begins(Upto(v, N - (N - n)), Encode[v])
    BY <1>5, <2>1
  <2> QED
    BY <2>1, <2>2
<1> QED
  BY <1>6

LEMMA BeginningOf ==
  ASSUME NEW x \in Seq(Tokens), NEW y, Begins(x, y), NEW p, Spelt(y, p)
  PROVE  Spelt(x, p)
<1>1. /\ text \in Seq(Tokens) /\ y \in Seq(Tokens) /\ p \in Nat \ {0}
      /\ p + Len(y) <= Len(text)
      /\ \A j \in 1..Len(y) : text[p + j - 1] = y[j]
  BY Zenon DEF Spelt
<1>2. Len(x) \in Nat /\ Len(y) \in Nat /\ Len(text) \in Nat
  BY <1>1, Elements, Zenon
<1>3. Len(x) <= Len(y) /\ \A j \in 1..Len(x) : x[j] = y[j]
  BY Zenon DEF Begins
<1>4. p + Len(x) <= Len(text) /\ \A j \in 1..Len(x) : j \in 1..Len(y)
  BY <1>1, <1>2, <1>3
<1>5. \A j \in 1..Len(x) : text[p + j - 1] = x[j]
  BY <1>1, <1>3, <1>4, Zenon
<1> QED
  BY <1>1, <1>4, <1>5, Zenon DEF Spelt

(* The next entry, or the end, is in the text. *)
Waits(v, p, n) ==
  \/ n < Len(v.items) /\ Spelt(Upto(v, n + 1), p)
  \/ n = Len(v.items) /\ Spelt(Encode[v], p)

LEMMA WholeIsReady ==
  ASSUME NEW v \in Contents, IsNested(v), NEW p, Spelt(Encode[v], p),
         NEW n \in 0..Len(v.items)
  PROVE  Waits(v, p, n)
<1>1. Len(v.items) \in Nat
  BY Items
<1>2. CASE n = Len(v.items)
  BY <1>2 DEF Waits
<1>3. CASE n # Len(v.items)
  <2>1. n < Len(v.items) /\ n + 1 \in 0..Len(v.items)
    BY <1>1, <1>3
  <2>2. Upto(v, n + 1) \in Seq(Tokens) /\ Begins(Upto(v, n + 1), Encode[v])
    BY <2>1, UptoOn, UptoBeginsEncode, Zenon
  <2>3. Spelt(Upto(v, n + 1), p)
    BY <2>2, BeginningOf, Zenon
  <2> QED
    BY <2>1, <2>3 DEF Waits
<1> QED
  BY <1>2, <1>3

(* What is known of the text. *)
TextIs ==
  /\ dict \in Dicts /\ cut \in 0..Len(Encode[dict])
  /\ text \in Seq(Tokens) /\ cut + 1 <= Len(text)
  /\ \A j \in 1..cut : text[j] = Encode[dict][j]

LEMMA DictIs ==
  ASSUME TextIs
  PROVE  /\ dict \in Contents /\ dict.type = "d" /\ IsNested(dict)
         /\ Encode[dict] \in Seq(Tokens) /\ Len(Encode[dict]) \in Nat
         /\ cut \in Nat /\ cut <= Len(Encode[dict]) /\ Len(text) \in Nat
<1>1. dict \in Contents /\ dict.type = "d"
  BY ContentsAssumption DEF TextIs
<1>2. Encode[dict] \in Seq(Tokens)
  BY <1>1, EncodeType, Zenon
<1>3. Len(Encode[dict]) \in Nat
  BY <1>2, Elements, Zenon
<1>4. cut \in 0..Len(Encode[dict]) /\ text \in Seq(Tokens)
  BY Zenon DEF TextIs
<1>5. Len(text) \in Nat
  BY <1>4, Elements, Zenon
<1>6. cut \in Nat /\ cut <= Len(Encode[dict])
  BY <1>3, <1>4
<1> QED
  BY <1>1, <1>2, <1>3, <1>5, <1>6 DEF IsNested

LEMMA BeforeTheCut ==
  ASSUME TextIs, NEW x \in Seq(Tokens), Begins(x, Encode[dict]), Len(x) <= cut
  PROVE  Spelt(x, 1)
<1>1. Len(x) \in Nat
  BY Elements, Zenon
<1>2. cut \in Nat /\ Len(text) \in Nat
  BY DictIs, Zenon
<1>3. cut + 1 <= Len(text) /\ text \in Seq(Tokens)
  BY Zenon DEF TextIs
<1>4. 1 + Len(x) <= Len(text) /\ 1 \in Nat \ {0}
  BY <1>1, <1>2, <1>3
<1>5. ASSUME NEW j \in 1..Len(x)
      PROVE  text[1 + j - 1] = x[j]
  <2>1. j \in 1..cut /\ 1 + j - 1 = j
    BY <1>1, <1>2
  <2>2. text[j] = Encode[dict][j] /\ x[j] = Encode[dict][j]
    BY <2>1, Zenon DEF TextIs, Begins
  <2> QED
    BY <2>1, <2>2
<1> QED
  BY <1>3, <1>4, <1>5, Zenon DEF Spelt

LEMMA CompleteIsSpelt ==
  ASSUME TextIs, Complete
  PROVE  Spelt(Encode[dict], 1)
<1>1. Encode[dict] \in Seq(Tokens) /\ Len(Encode[dict]) \in Nat
  BY DictIs, Zenon
<1>2. Begins(Encode[dict], Encode[dict])
  BY <1>1 DEF Begins
<1>3. Len(Encode[dict]) <= cut
  BY <1>1 DEF Complete
<1> QED
  BY <1>1, <1>2, <1>3, BeforeTheCut, Zenon

LEMMA WholeIsSpelt ==
  ASSUME TextIs, NEW n \in 0..Len(dict.items), Len(Upto(dict, n)) <= cut
  PROVE  Spelt(Upto(dict, n), 1)
<1>1. dict \in Contents /\ IsNested(dict)
  BY DictIs, Zenon
<1>2. Upto(dict, n) \in Seq(Tokens) /\ Begins(Upto(dict, n), Encode[dict])
  BY <1>1, UptoOn, UptoBeginsEncode, Zenon
<1> QED
  BY <1>2, BeforeTheCut, Zenon

(* Longer beginnings are longer. *)
LEMMA UptoIncreases ==
  ASSUME NEW v \in Contents, IsNested(v), NEW m \in 0..Len(v.items)
  PROVE  \A n \in 0..Len(v.items) : m <= n => Len(Upto(v, m)) <= Len(Upto(v, n))
<1> DEFINE N == Len(v.items)
           G == {n \in 0..N : m <= n => Len(Upto(v, m)) <= Len(Upto(v, n))}
<1>1. N \in Nat /\ \A n \in 0..N : Len(Upto(v, n)) \in Nat
  BY Items, UptoGrows
<1>2. 0 \in G
  <2>1. 0 \in 0..N
    BY <1>1
  <2>2. m <= 0 => m = 0
    OBVIOUS
  <2>3. m <= 0 => Len(Upto(v, m)) <= Len(Upto(v, 0))
    BY <1>1, <2>1, <2>2
  <2> QED
    BY <2>1, <2>3
<1>3. ASSUME NEW n \in 1..N, n - 1 \in G
      PROVE  n \in G
  <2> DEFINE x == Len(Upto(v, n - 1))
             z == Len(Upto(v, n))
             y == Len(Upto(v, m))
             b == Len(Lead(v, n))
             c == Len(Encode[Item(v, n)])
  <2>1. n \in 0..N /\ n - 1 \in 0..N /\ n \in DOMAIN v.items
    BY <1>1, Items
  <2>2. z = x + b + c
    BY UptoGrows, Zenon
  <2>3. b \in Nat /\ c \in Nat
    <3>1. Item(v, n) \in Contents
      BY <2>1, Items
    <3>2. Encode[Item(v, n)] \in Seq(Tokens)
      BY <3>1, EncodeType, Zenon
    <3> QED
      BY <2>1, <3>2, LeadIs, Elements, Zenon
  <2>4. x \in Nat /\ z \in Nat /\ y \in Nat
    BY <1>1, <2>1, Zenon
  <2>5. m <= n - 1 => y <= x
    BY <1>3
  <2>6. m = n => y = z
    OBVIOUS
  <2> HIDE DEF x, y, z, b, c
  <2>7. m <= n => y <= z
    BY <2>2, <2>3, <2>4, <2>5, <2>6
  <2> QED
    BY <2>1, <2>7 DEF y, z
<1>4. \A n \in 0..N : n \in G
  <2> HIDE DEF G, N
  <2> QED
    BY <1>1, <1>2, <1>3, Upward, Zenon
<1> QED
  BY <1>4

-----------------------------------------------------------------------------
(* The stack and its frames *)

Cursors == [start : Nat \ {0}, str : Nat, len : Int]

(* Frames whose values and keys are in U. *)
Frames(U) ==
  [mode : {"read", "skip"}, type : {"d", "l"}, be : Cursors, items : Seq(U), key : U]

(* The frame f, turned to another place, with other items and another key. *)
Made(f, e, s, k) ==
  [mode |-> f.mode, type |-> f.type,
   be |-> [start |-> f.be.start, str |-> e, len |-> f.be.len], items |-> s, key |-> k]

LEMMA FrameHas ==
  ASSUME NEW U, NEW f \in Frames(U)
  PROVE  /\ f.mode \in {"read", "skip"} /\ f.type \in {"d", "l"}
         /\ f.be.start \in Nat \ {0} /\ f.be.str \in Nat /\ f.be.len \in Int
         /\ f.items \in Seq(U) /\ f.key \in U
         /\ f = Made(f, f.be.str, f.items, f.key)
BY DEF Frames, Cursors, Made

LEMMA MadeType ==
  ASSUME NEW U, NEW f \in Frames(U), NEW e \in Nat, NEW V, NEW s \in Seq(V), NEW k \in V
  PROVE  Made(f, e, s, k) \in Frames(V)
BY DEF Frames, Cursors, Made

LEMMA MovedIs ==
  ASSUME NEW U, NEW f \in Frames(U), NEW p, NEW e
  PROVE  Moved(f, p, e) = Made(f, e, f.items, f.key)
BY DEF Frames, Cursors, Made, Moved

LEMMA WithIs ==
  ASSUME NEW U, NEW f \in Frames(U), NEW v
  PROVE  With(f, v) =
           Made(f, f.be.str, Append(f.items, IF f.type = "d" THEN KeyVal(CString(f.key), v) ELSE v), f.key)
<1> DEFINE x == Append(f.items, IF f.type = "d" THEN KeyVal(CString(f.key), v) ELSE v)
<1>1. With(f, v) = [f EXCEPT !.items = x]
  BY Zenon DEF With
<1> HIDE DEF x
<1>2. [f EXCEPT !.items = x] = Made(f, f.be.str, x, f.key)
  BY DEF Frames, Cursors, Made
<1> QED
  BY <1>1, <1>2, Zenon DEF x

LEMMA WithKeyIs ==
  ASSUME NEW U, NEW f \in Frames(U), NEW k
  PROVE  [f EXCEPT !.key = k] = Made(f, f.be.str, f.items, k)
BY DEF Frames, Cursors, Made

LEMMA FrameIs ==
  ASSUME NEW m, NEW c, NEW p, NEW n
  PROVE  /\ Frame(m, c, Cursor(p, n)).mode = m /\ Frame(m, c, Cursor(p, n)).type = c
         /\ Frame(m, c, Cursor(p, n)).be.start = p /\ Frame(m, c, Cursor(p, n)).be.str = p
         /\ Frame(m, c, Cursor(p, n)).be.len = n
         /\ Frame(m, c, Cursor(p, n)).items = <<>>
         /\ m \in {"read", "skip"} /\ c \in {"d", "l"} /\ p \in Nat \ {0} /\ n \in Int =>
              \A U : <<>> \in U => Frame(m, c, Cursor(p, n)) \in Frames(U)
BY DEF Frame, Cursor, Frames, Cursors

LEMMA MoreFrames ==
  ASSUME NEW U, NEW V, U \subseteq V
  PROVE  /\ \A f \in Frames(U) : f \in Frames(V)
         /\ \A s \in Seq(Frames(U)) : s \in Seq(Frames(V))
<1>1. \A s \in Seq(U) : s \in Seq(V)
  BY Series!SeqMonotonic, Zenon
<1>2. Frames(U) \subseteq Frames(V)
  BY <1>1 DEF Frames
<1>3. \A s \in Seq(Frames(U)) : s \in Seq(Frames(V))
  BY <1>2, Series!SeqMonotonic, Zenon
<1> QED
  BY <1>2, <1>3

(* What the actions do to a stack. *)
LEMMA OneReplaced ==
  ASSUME NEW T, NEW s \in Seq(T), NEW k \in 1..Len(s), NEW f \in T
  PROVE  /\ [s EXCEPT ![k] = f] \in Seq(T) /\ Len([s EXCEPT ![k] = f]) = Len(s)
         /\ [s EXCEPT ![k] = f][k] = f
         /\ \A n \in 1..Len(s) : n # k => [s EXCEPT ![k] = f][n] = s[n]
OBVIOUS

LEMMA OneMore ==
  ASSUME NEW T, NEW s \in Seq(T), NEW f \in T
  PROVE  /\ Append(s, f) \in Seq(T) /\ Len(Append(s, f)) = Len(s) + 1 /\ Len(s) \in Nat
         /\ Append(s, f)[Len(s) + 1] = f
         /\ \A n \in 1..Len(s) : Append(s, f)[n] = s[n]
OBVIOUS

LEMMA OneLess ==
  ASSUME NEW T, NEW s \in Seq(T), NEW n \in 0..Len(s)
  PROVE  /\ SubSeq(s, 1, n) \in Seq(T) /\ Len(SubSeq(s, 1, n)) = n
         /\ \A m \in 1..n : SubSeq(s, 1, n)[m] = s[m]
OBVIOUS

(* s2 is s up to the frame k, which is in another state, and perhaps one more. *)
Changes(s, s2, k) ==
  /\ k \in 1..Len(s) /\ Len(s2) \in {k, k + 1}
  /\ \A n \in 1..(k - 1) : s2[n] = s[n]
  /\ s2[k].mode = s[k].mode /\ s2[k].type = s[k].type
  /\ s2[k].be.start = s[k].be.start /\ s2[k].be.len = s[k].be.len

-----------------------------------------------------------------------------
(* What the actions do *)

Typed(U) == text \in Seq(Tokens) /\ stack \in Seq(Frames(U)) /\ stack # <<>>

LEMMA TopIs ==
  ASSUME NEW U, Typed(U)
  PROVE  /\ Len(stack) \in Nat \ {0} /\ Len(stack) \in 1..Len(stack)
         /\ DOMAIN stack = 1..Len(stack)
         /\ \A n \in 1..Len(stack) : stack[n] \in Frames(U)
         /\ Top = stack[Len(stack)] /\ Top \in Frames(U)
<1>1. stack \in Seq(Frames(U)) /\ stack # <<>>
  BY Zenon DEF Typed
<1>2. /\ Len(stack) \in Nat /\ DOMAIN stack = 1..Len(stack)
      /\ \A n \in DOMAIN stack : stack[n] \in Frames(U)
  BY <1>1, Elements, Zenon
<1>3. Len(stack) # 0
  BY <1>1
<1>4. Len(stack) \in Nat \ {0} /\ Len(stack) \in 1..Len(stack)
  BY <1>2, <1>3
<1> QED
  BY <1>2, <1>4, Zenon DEF Top

LEMMA TokenAt ==
  ASSUME text \in Seq(Tokens), NEW p, IsNumber(p)
  PROVE  p \in Nat \ {0} /\ NumberAt(p) \in Nat
<1>1. Symbol(p) = "#"
  BY DEF IsNumber
<1>2. p \in DOMAIN text
  BY <1>1 DEF Symbol, NulChar
<1>3. p \in Nat \ {0} /\ text[p] \in Tokens
  <2> HIDE DEF Tokens
  <2> QED
    BY <1>2
<1>4. text[p][2] \in Nat
  BY <1>3 DEF Tokens
<1> QED
  BY <1>3, <1>4 DEF NumberAt

LEMMA PositionIs ==
  ASSUME NEW U, Typed(U), HasNext(Top), Position # Abort
  PROVE  /\ Top.be.str \in Nat \ {0} /\ Position \in Nat \ {0} /\ Position >= Top.be.str
         /\ carry_length(Top.be, Position) \in Int
<1> DEFINE be == Top.be
<1>1. Top \in Frames(U) /\ text \in Seq(Tokens)
  BY TopIs, Zenon DEF Typed
<1>2. be.str \in Nat /\ be.len \in Int
  BY <1>1, FrameHas
<1>3. be.str # 0
  BY DEF HasNext, NullPtr
<1>4. CASE Top.type = "d"
  <2>1. Position = ValueAt(be)
    BY <1>4 DEF Position
  <2> HIDE DEF be
  <2>2. is_string(KeyAt(be)) /\ Position = KeyAt(be) + 2 + NumberAt(KeyAt(be))
    BY <2>1 DEF ValueAt
  <2>3. KeyAt(be) \in Nat /\ KeyAt(be) >= be.str
    BY <1>2 DEF KeyAt
  <2>4. NumberAt(KeyAt(be)) \in Nat
    BY <1>1, <2>2, TokenAt DEF is_string
  <2> HIDE DEF Position
  <2>5. Position \in Nat \ {0} /\ Position >= be.str
    BY <1>2, <2>2, <2>3, <2>4
  <2>6. carry_length(be, Position) \in Int
    BY <1>2, <2>5 DEF carry_length
  <2> QED
    BY <1>2, <1>3, <2>5, <2>6 DEF be
<1>5. CASE Top.type # "d"
  <2>1. Position = ItemAt(be)
    BY <1>5 DEF Position
  <2> HIDE DEF be, Position
  <2>2. Position \in Nat \ {0} /\ Position >= be.str
    BY <1>2, <1>3, <2>1 DEF ItemAt, be
  <2>3. carry_length(be, Position) \in Int
    BY <1>2, <2>2 DEF carry_length
  <2> QED
    BY <1>2, <1>3, <2>2, <2>3 DEF be
<1> QED
  BY <1>4, <1>5

LEMMA LeafEndIs ==
  ASSUME text \in Seq(Tokens), NEW p \in Nat \ {0}, NEW n
  PROVE  LeafEnd(Cursor(p, n)) \in Nat \cup {Abort}
         /\ (LeafEnd(Cursor(p, n)) \notin {Abort, NullPtr} => LeafEnd(Cursor(p, n)) > p)
<1> DEFINE be == Cursor(p, n)
<1>1. be.start = p /\ be.len = n
  BY DEF Cursor
<1> HIDE DEF be
<1>2. CASE is_string(p)
  <2>1. NumberAt(p) \in Nat
    BY <1>2, TokenAt DEF is_string
  <2>2. LeafEnd(be) \in {Abort, NullPtr, p + 2 + NumberAt(p)}
    <3>1. is_string(be.start)
      BY <1>1, <1>2, Zenon
    <3>0. ~(Symbol(be.start) = "i" /\ IsNumber(be.start + 1))
      BY <3>1 DEF is_string, IsNumber
    <3>2. LeafEnd(be) = IF be.len <= 0 THEN Abort
                        ELSE IF StringFits(be) THEN be.start + 2 + NumberAt(be.start) ELSE NullPtr
      BY <3>0, <3>1 DEF LeafEnd
    <3>3. LeafEnd(be) \in {Abort, NullPtr, be.start + 2 + NumberAt(be.start)}
      BY <3>2, Zenon
    <3> QED
      BY <1>1, <3>3, Zenon
  <2>3. LeafEnd(be) \in Nat \cup {Abort} /\ (LeafEnd(be) \notin {Abort, NullPtr} => LeafEnd(be) > p)
    BY <2>1, <2>2 DEF Abort, NullPtr
  <2> QED
    BY <2>3 DEF be
<1>3. CASE ~is_string(p)
  <2>1. LeafEnd(be) \in {Abort, NullPtr, p + 3}
    BY <1>1, <1>3 DEF LeafEnd
  <2>2. LeafEnd(be) \in Nat \cup {Abort} /\ (LeafEnd(be) \notin {Abort, NullPtr} => LeafEnd(be) > p)
    BY <2>1 DEF Abort, NullPtr
  <2> QED
    BY <2>2 DEF be
<1> QED
  BY <1>2, <1>3

(* The key of the next entry. *)
KeyNow == IF Top.type = "d" THEN Chars(KeyAt(Top.be) + 2, NumberAt(KeyAt(Top.be))) ELSE <<>>

LEMMA KeyedIs ==
  ASSUME NEW U, Top \in Frames(U)
  PROVE  Keyed = Made(Top, Top.be.str, Top.items, KeyNow)
<1>1. Keyed = [Top EXCEPT !.key = KeyNow]
  BY Zenon DEF Keyed, KeyNow
<1> QED
  BY <1>1, WithKeyIs, Zenon

(* What an entry that is passed adds to the items. *)
Added(f, s, k, v) == Append(s, IF f.type = "d" THEN KeyVal(CString(k), v) ELSE v)

LEMMA PassLeafDoes ==
  ASSUME NEW U, Typed(U), PassLeaf
  PROVE  LET end == LeafEnd(Found) IN
         /\ HasNext(Top) /\ Position \in Nat \ {0} /\ Position >= Top.be.str /\ Top.be.str # NullPtr
         /\ end \in Nat /\ (end # NullPtr => end > Position) /\ ~Nests(Position)
         /\ \E V : /\ stack' \in Seq(Frames(V))
                   /\ Len(stack') = Len(stack) /\ Changes(stack, stack', Len(stack))
                   /\ stack'[Len(stack)].be.str = end
                   /\ stack'[Len(stack)].items =
                        IF end # NullPtr /\ Retains(Top, Position)
                        THEN Added(Top, Top.items, KeyNow, Leaf(Position)) ELSE Top.items
         /\ UNCHANGED <<sent, phase, result, printed>>
<1> DEFINE end == LeafEnd(Found)
           l == Len(stack)
           taken == end # NullPtr /\ Retains(Top, Position)
           m == Moved(Keyed, Position, end)
           f == IF taken THEN With(m, Leaf(Position)) ELSE m
           x == IF Top.type = "d" THEN KeyVal(CString(KeyNow), Leaf(Position)) ELSE Leaf(Position)
           V == U \cup {KeyNow, x}
<1>1. /\ HasNext(Top) /\ Position # Abort /\ ~Nests(Position) /\ end # Abort
      /\ stack' = [stack EXCEPT ![l] = f]
      /\ UNCHANGED <<sent, phase, result, printed>>
  BY Zenon DEF PassLeaf, Going, Readable
<1>2. /\ Position \in Nat \ {0} /\ Position >= Top.be.str /\ Top.be.str \in Nat \ {0}
  BY <1>1, PositionIs, Zenon
<1>3. end \in Nat /\ (end # NullPtr => end > Position)
  <2>1. text \in Seq(Tokens)
    BY Zenon DEF Typed
  <2>2. end \in Nat \cup {Abort} /\ (end \notin {Abort, NullPtr} => end > Position)
    BY <1>2, <2>1, LeafEndIs, Zenon DEF Found
  <2> HIDE DEF end
  <2> QED
    BY <1>1, <2>2
<1>4. /\ l \in Nat \ {0} /\ l \in 1..l /\ Top = stack[l] /\ Top \in Frames(U)
      /\ stack \in Seq(Frames(U))
  BY TopIs, Zenon DEF Typed
<1>5. /\ Top.be.str \in Nat /\ Top.items \in Seq(U) /\ Top.key \in U
  BY <1>4, FrameHas
<1>6. KeyNow \in V /\ x \in V /\ U \subseteq V
  OBVIOUS
<1> HIDE DEF V, end
<1>7. Top.items \in Seq(V) /\ Append(Top.items, x) \in Seq(V)
  <2>1. Top.items \in Seq(V)
    BY <1>5, <1>6, Series!SeqMonotonic
  <2> HIDE DEF x
  <2> QED
    BY <1>6, <2>1, OneMore
<1>8. Keyed = Made(Top, Top.be.str, Top.items, KeyNow) /\ Keyed \in Frames(V)
  <2>1. Keyed = Made(Top, Top.be.str, Top.items, KeyNow)
    BY <1>4, KeyedIs
  <2>2. Made(Top, Top.be.str, Top.items, KeyNow) \in Frames(V)
    BY <1>4, <1>5, <1>6, <1>7, MadeType
  <2> QED
    BY <2>1, <2>2, Zenon
<1>9. /\ Keyed.mode = Top.mode /\ Keyed.type = Top.type /\ Keyed.be.start = Top.be.start
      /\ Keyed.be.len = Top.be.len /\ Keyed.items = Top.items /\ Keyed.key = KeyNow
  <2> DEFINE g == Keyed
  <2>1. g = Made(Top, Top.be.str, Top.items, KeyNow)
    BY <1>8
  <2> HIDE DEF g
  <2>2. /\ g.mode = Top.mode /\ g.type = Top.type /\ g.be.start = Top.be.start
        /\ g.be.len = Top.be.len /\ g.items = Top.items /\ g.key = KeyNow
    BY <2>1 DEF Made
  <2> QED
    BY <2>2, Zenon DEF g
<1>10. m = Made(Keyed, end, Top.items, KeyNow) /\ m \in Frames(V)
  <2>1. m = Made(Keyed, end, Keyed.items, Keyed.key)
    BY <1>8, MovedIs, Zenon
  <2>2. Made(Keyed, end, Top.items, KeyNow) \in Frames(V)
    BY <1>3, <1>6, <1>7, <1>8, MadeType
  <2> QED
    BY <1>9, <2>1, <2>2, Zenon
<1>11. /\ m.mode = Top.mode /\ m.type = Top.type /\ m.be.start = Top.be.start
       /\ m.be.len = Top.be.len /\ m.be.str = end /\ m.items = Top.items /\ m.key = KeyNow
  <2>1. m = Made(Keyed, end, Top.items, KeyNow)
    BY <1>10
  <2> HIDE DEF m
  <2>2. /\ m.mode = Keyed.mode /\ m.type = Keyed.type /\ m.be.start = Keyed.be.start
        /\ m.be.len = Keyed.be.len /\ m.be.str = end /\ m.items = Top.items /\ m.key = KeyNow
    BY <2>1 DEF Made
  <2> QED
    BY <1>9, <2>2, Zenon
<1> HIDE DEF m
<1>12. /\ f \in Frames(V) /\ f.mode = Top.mode /\ f.type = Top.type
       /\ f.be.start = Top.be.start /\ f.be.len = Top.be.len /\ f.be.str = end
       /\ f.items = IF taken THEN Append(Top.items, x) ELSE Top.items
  <2>1. CASE taken
    <3> DEFINE y == With(m, Leaf(Position))
    <3>1. f = y
      BY <2>1, Zenon
    <3>2. y = Made(m, m.be.str,
                   Append(m.items, IF m.type = "d" THEN KeyVal(CString(m.key), Leaf(Position)) ELSE Leaf(Position)),
                   m.key)
      BY <1>10, WithIs, Zenon
    <3>3. y = Made(m, end, Append(Top.items, x), KeyNow)
      BY <1>11, <3>2, Zenon
    <3>4. Made(m, end, Append(Top.items, x), KeyNow) \in Frames(V)
      BY <1>3, <1>6, <1>7, <1>10, MadeType
    <3> HIDE DEF y, x
    <3>5. /\ y.mode = m.mode /\ y.type = m.type
          /\ y.be.start = m.be.start /\ y.be.len = m.be.len /\ y.be.str = end
          /\ y.items = Append(Top.items, x)
      BY <3>3 DEF Made
    <3> HIDE DEF taken
    <3> QED
      BY <1>11, <2>1, <3>1, <3>3, <3>4, <3>5, Zenon
  <2>2. CASE ~taken
    <3>1. f = m
      BY <2>2, Zenon
    <3> QED
      BY <1>10, <1>11, <2>2, <3>1, Zenon
  <2> QED
    BY <2>1, <2>2
<1> HIDE DEF f, l
<1>13. stack \in Seq(Frames(V)) /\ Len(stack) = l
  BY <1>4, <1>6, MoreFrames DEF l
<1>14. /\ stack' \in Seq(Frames(V)) /\ Len(stack') = l /\ stack'[l] = f
       /\ \A n \in 1..l : n # l => stack'[n] = stack[n]
  BY <1>1, <1>4, <1>12, <1>13, OneReplaced
<1>15. Changes(stack, stack', l)
  <2>1. \A n \in 1..(l - 1) : stack'[n] = stack[n]
    BY <1>4, <1>14
  <2>2. Len(stack') \in {l, l + 1}
    BY <1>14
  <2> QED
    BY <1>4, <1>12, <1>13, <1>14, <2>1, <2>2, Zenon DEF Changes
<1>16. f.items = IF taken THEN Added(Top, Top.items, KeyNow, Leaf(Position)) ELSE Top.items
  BY <1>12, Zenon DEF Added
<1>17. Top.be.str # NullPtr
  BY <1>2 DEF NullPtr
<1> QED
  BY <1>1, <1>2, <1>3, <1>12, <1>14, <1>15, <1>16, <1>17, Zenon DEF l, end

(* s2 is s up to the frame k, which is at e now, with these items and this key. *)
Turned(s, s2, k, e, x, y) ==
  Changes(s, s2, k) /\ s2[k].be.str = e /\ s2[k].items = x /\ s2[k].key = y

(* Frames have values in U, and then in V: k may be turned to f. *)
MayTurn(U, V, s, k, e, x, y, f) ==
  /\ U \subseteq V /\ s \in Seq(Frames(U)) /\ k \in 1..Len(s)
  /\ e \in Nat /\ x \in Seq(V) /\ y \in V /\ f = Made(s[k], e, x, y)

Reaches(s, s2, k, f) ==
  Len(s2) \in {k, k + 1} /\ s2[k] = f /\ \A n \in 1..(k - 1) : s2[n] = s[n]

LEMMA Turns ==
  ASSUME NEW U, NEW V, NEW s, NEW k, NEW e, NEW x, NEW y, NEW f,
         MayTurn(U, V, s, k, e, x, y, f)
  PROVE  /\ f \in Frames(V)
         /\ \A s2 : Reaches(s, s2, k, f) => Turned(s, s2, k, e, x, y)
<1>0. /\ U \subseteq V /\ s \in Seq(Frames(U)) /\ k \in 1..Len(s)
      /\ e \in Nat /\ x \in Seq(V) /\ y \in V /\ f = Made(s[k], e, x, y)
  BY Zenon DEF MayTurn
<1>1. s[k] \in Frames(U)
  <2> DEFINE F == Frames(U)
  <2>1. s \in Seq(F)
    BY <1>0, Zenon
  <2> HIDE DEF F
  <2>2. DOMAIN s = 1..Len(s) /\ \A n \in DOMAIN s : s[n] \in F
    BY <2>1, Elements, Zenon
  <2> QED
    BY <1>0, <2>2, Zenon DEF F
<1>2. f \in Frames(V)
  <2>1. Made(s[k], e, x, y) \in Frames(V)
    BY <1>0, <1>1, MadeType
  <2> QED
    BY <1>0, <2>1, Zenon
<1>3. /\ f.mode = s[k].mode /\ f.type = s[k].type /\ f.be.start = s[k].be.start
      /\ f.be.len = s[k].be.len /\ f.be.str = e /\ f.items = x /\ f.key = y
  <2> DEFINE g == s[k]
  <2>1. f = Made(g, e, x, y)
    BY <1>0, Zenon
  <2> HIDE DEF g
  <2>2. /\ f.mode = g.mode /\ f.type = g.type /\ f.be.start = g.be.start
        /\ f.be.len = g.be.len /\ f.be.str = e /\ f.items = x /\ f.key = y
    BY <2>1 DEF Made
  <2> QED
    BY <2>2, Zenon DEF g
<1>4. ASSUME NEW s2, Reaches(s, s2, k, f)
      PROVE  Turned(s, s2, k, e, x, y)
  <2>1. /\ s2[k].mode = s[k].mode /\ s2[k].type = s[k].type /\ s2[k].be.start = s[k].be.start
        /\ s2[k].be.len = s[k].be.len /\ s2[k].be.str = e /\ s2[k].items = x /\ s2[k].key = y
    BY <1>3, <1>4, Zenon DEF Reaches
  <2>2. Changes(s, s2, k)
    BY <1>0, <1>4, <2>1, Zenon DEF Changes, Reaches
  <2> QED
    BY <2>1, <2>2, Zenon DEF Turned
<1> QED
  BY <1>2, <1>4, Zenon

(* A frame of a stack is replaced, ... *)
LEMMA TurnedInPlace ==
  ASSUME NEW U, NEW V, NEW s, NEW k, NEW e, NEW x, NEW y, NEW f,
         MayTurn(U, V, s, k, e, x, y, f), k = Len(s) \/ k + 1 = Len(s)
  PROVE  LET r == [s EXCEPT ![k] = f] IN r \in Seq(Frames(V)) /\ Len(r) = Len(s) /\ Turned(s, r, k, e, x, y)
<1> DEFINE F == Frames(V)
           L == Len(s)
           r == [s EXCEPT ![k] = f]
<1>0. U \subseteq V /\ s \in Seq(Frames(U)) /\ k \in 1..L
  BY Zenon DEF MayTurn
<1>1. f \in F
  BY Turns, Zenon
<1>2. s \in Seq(F)
  BY <1>0, MoreFrames, Zenon
<1>3. L \in Nat
  BY <1>2, Elements, Zenon
<1> HIDE DEF F, L
<1>4. /\ r \in Seq(F) /\ Len(r) = L /\ r[k] = f
      /\ \A n \in 1..L : n # k => r[n] = s[n]
  BY <1>0, <1>1, <1>2, OneReplaced DEF L
<1> HIDE DEF r
<1>5. k \in 1..L /\ (k = L \/ k + 1 = L)
  BY <1>0, Zenon DEF L
<1>6. Len(r) \in {k, k + 1}
  BY <1>4, <1>5
<1>7. \A n \in 1..(k - 1) : r[n] = s[n]
  <2>1. ASSUME NEW n \in 1..(k - 1)
        PROVE  n \in 1..L /\ n # k
    BY <1>3, <1>5
  <2> QED
    BY <1>4, <2>1, Zenon
<1>8. Turned(s, r, k, e, x, y)
  <2>1. Reaches(s, r, k, f)
    BY <1>4, <1>6, <1>7, Zenon DEF Reaches
  <2> QED
    BY <2>1, Turns, Zenon
<1> QED
  BY <1>4, <1>8, Zenon DEF F, L, r

(* ... and the stack is cut behind it. *)
LEMMA TurnedAndCut ==
  ASSUME NEW U, NEW V, NEW s, NEW k, NEW e, NEW x, NEW y, NEW f,
         MayTurn(U, V, s, k, e, x, y, f)
  PROVE  LET r == Append(SubSeq(s, 1, k - 1), f) IN r \in Seq(Frames(V)) /\ Len(r) = k /\ Turned(s, r, k, e, x, y)
<1> DEFINE F == Frames(V)
           q == SubSeq(s, 1, k - 1)
           r == Append(q, f)
<1>0. U \subseteq V /\ s \in Seq(Frames(U)) /\ k \in 1..Len(s)
  BY Zenon DEF MayTurn
<1>1. f \in F
  BY Turns, Zenon
<1>2. s \in Seq(F)
  BY <1>0, MoreFrames, Zenon
<1> HIDE DEF F
<1>5. k - 1 \in 0..Len(s) /\ k - 1 + 1 = k /\ k \in Nat
  BY <1>0, <1>2
<1>6. /\ q \in Seq(F) /\ Len(q) = k - 1 /\ \A m \in 1..(k - 1) : q[m] = s[m]
  BY <1>2, <1>5, OneLess
<1> HIDE DEF q
<1>8. /\ Append(q, f) \in Seq(F) /\ Len(Append(q, f)) = Len(q) + 1
      /\ Append(q, f)[Len(q) + 1] = f
      /\ \A m \in 1..Len(q) : Append(q, f)[m] = q[m]
  BY <1>1, <1>6, OneMore
<1>9. /\ r \in Seq(F) /\ Len(r) = k /\ r[k] = f
      /\ \A m \in 1..(k - 1) : r[m] = s[m]
  BY <1>5, <1>6, <1>8, Zenon
<1> HIDE DEF r
<1>10. Len(r) \in {k, k + 1}
  BY <1>9, Zenon
<1>11. Turned(s, r, k, e, x, y)
  <2>1. Reaches(s, r, k, f)
    BY <1>9, <1>10, Zenon DEF Reaches
  <2> QED
    BY <2>1, Turns, Zenon
<1> QED
  BY <1>9, <1>11, Zenon DEF F, q, r

LEMMA TurnedOn ==
  ASSUME NEW V, NEW s, NEW r \in Seq(Frames(V)), NEW k \in Nat, Len(r) = k, NEW g \in Frames(V),
         NEW e, NEW x, NEW y, Turned(s, r, k, e, x, y)
  PROVE  /\ Append(r, g) \in Seq(Frames(V)) /\ Len(Append(r, g)) = k + 1
         /\ Append(r, g)[k + 1] = g
         /\ Turned(s, Append(r, g), k, e, x, y)
<1> DEFINE F == Frames(V)
           w == Append(r, g)
<1> HIDE DEF F
<1>1. /\ w \in Seq(F) /\ Len(w) = k + 1 /\ w[k + 1] = g
      /\ \A n \in 1..k : w[n] = r[n]
  BY OneMore DEF F
<1> HIDE DEF w
<1>2. /\ k \in 1..Len(s) /\ \A n \in 1..(k - 1) : r[n] = s[n]
  BY Zenon DEF Turned, Changes
<1>3. /\ w[k] = r[k] /\ \A n \in 1..(k - 1) : w[n] = r[n]
  BY <1>1, <1>2
<1>4. \A n \in 1..(k - 1) : w[n] = s[n]
  BY <1>2, <1>3
<1>5. Len(w) \in {k, k + 1}
  BY <1>1
<1>6. Turned(s, w, k, e, x, y)
  BY <1>3, <1>4, <1>5, Zenon DEF Turned, Changes
<1> QED
  BY <1>1, <1>6, Zenon DEF w, F

LEMMA EnterDoes ==
  ASSUME NEW U, Typed(U), Enter
  PROVE  /\ HasNext(Top) /\ Top.be.len > 0 /\ Nests(Position)
         /\ Position \in Nat \ {0} /\ Position >= Top.be.str /\ Top.be.str # NullPtr
         /\ \E V : /\ stack' \in Seq(Frames(V)) /\ Len(stack') = Len(stack) + 1
                   /\ Turned(stack, stack', Len(stack), Top.be.str, Top.items, KeyNow)
                   /\ stack'[Len(stack) + 1] = Frame("skip", Symbol(Position), Found)
         /\ UNCHANGED <<sent, phase, result, printed>>
<1> DEFINE l == Len(stack)
           V == U \cup {KeyNow, <<>>}
           g == Frame("skip", Symbol(Position), Found)
           r == [stack EXCEPT ![l] = Keyed]
<1>1. /\ HasNext(Top) /\ Position # Abort /\ Nests(Position) /\ Top.be.len > 0
      /\ stack' = Append(r, g)
      /\ UNCHANGED <<sent, phase, result, printed>>
  BY Zenon DEF Enter, Going, Readable
<1>2. /\ Position \in Nat \ {0} /\ Position >= Top.be.str /\ Top.be.str \in Nat \ {0}
      /\ carry_length(Top.be, Position) \in Int
  BY <1>1, PositionIs, Zenon
<1>3. /\ l \in Nat \ {0} /\ l \in 1..l /\ Top = stack[l] /\ Top \in Frames(U)
      /\ stack \in Seq(Frames(U))
  BY TopIs, Zenon DEF Typed
<1>4. Top.items \in Seq(U)
  BY <1>3, FrameHas
<1>5. KeyNow \in V /\ <<>> \in V /\ U \subseteq V
  OBVIOUS
<1> HIDE DEF V
<1>6. Top.items \in Seq(V)
  BY <1>4, <1>5, Series!SeqMonotonic
<1>7. Keyed = Made(stack[l], Top.be.str, Top.items, KeyNow)
  BY <1>3, KeyedIs, Zenon
<1>8. /\ r \in Seq(Frames(V)) /\ Len(r) = l
      /\ Turned(stack, r, l, Top.be.str, Top.items, KeyNow)
  <2>1. Top.be.str \in Nat
    BY <1>2
  <2>2. MayTurn(U, V, stack, l, Top.be.str, Top.items, KeyNow, Keyed)
    BY <1>3, <1>5, <1>6, <1>7, <2>1, Zenon DEF MayTurn
  <2> QED
    BY <2>2, TurnedInPlace, Zenon
<1>9. g \in Frames(V)
  <2>1. Symbol(Position) \in {"d", "l"}
    BY <1>1, Zenon DEF Nests
  <2> QED
    BY <1>2, <1>5, <2>1, FrameIs, Zenon DEF Found
<1> HIDE DEF r, g
<1>10. /\ stack' \in Seq(Frames(V)) /\ Len(stack') = l + 1 /\ stack'[l + 1] = g
       /\ Turned(stack, stack', l, Top.be.str, Top.items, KeyNow)
  <2>1. l \in Nat
    BY <1>3
  <2> DEFINE w == Append(r, g)
  <2>2. w = Append(r, g) /\ stack' = w
    BY <1>1, Zenon
  <2> HIDE DEF w, l
  <2>3. /\ w \in Seq(Frames(V)) /\ Len(w) = l + 1 /\ w[l + 1] = g
        /\ Turned(stack, w, l, Top.be.str, Top.items, KeyNow)
    BY <1>8, <1>9, <2>1, <2>2, TurnedOn
  <2> QED
    BY <2>2, <2>3, Zenon
<1>11. Top.be.str # NullPtr
  BY <1>2 DEF NullPtr
<1> QED
  BY <1>1, <1>2, <1>10, <1>11, Zenon DEF g

LEMMA EndOfIs ==
  ASSUME NEW U, NEW f \in Frames(U)
  PROVE  EndOf(f.be) \in Nat /\ (EndOf(f.be) # NullPtr => EndOf(f.be) > f.be.str)
<1> DEFINE be == f.be
<1>1. be.str \in Nat
  BY FrameHas
<1> HIDE DEF be
<1>2. EndOf(be) \in Nat /\ (EndOf(be) # NullPtr => EndOf(be) > be.str)
  BY <1>1 DEF EndOf, NullPtr
<1> QED
  BY <1>2 DEF be

LEMMA SkippedDoes ==
  ASSUME NEW U, Typed(U), Skipped, Len(stack) # 1
  PROVE  LET n == Len(stack) - 1
             end == EndOf(Top.be)
         IN /\ n \in 1..Len(stack) /\ Top.mode = "skip" /\ ~HasNext(Top) /\ end \in Nat
            /\ \E V : /\ stack' \in Seq(Frames(V))
                      /\ Turned(stack, stack', n, end, stack[n].items, stack[n].key)
                      /\ IF end # NullPtr /\ Retains(stack[n], Top.be.start)
                         THEN /\ Len(stack') = n + 1
                              /\ stack'[n + 1] = Frame("read", Top.type, Cursor(Top.be.start, Top.be.len))
                         ELSE Len(stack') = n
            /\ UNCHANGED <<sent, phase, result, printed>>
<1> DEFINE l == Len(stack)
           n == l - 1
           end == EndOf(Top.be)
           f == Moved(stack[n], Top.be.start, end)
           g == Frame("read", Top.type, Cursor(Top.be.start, Top.be.len))
           V == U \cup {<<>>}
           kept == end # NullPtr /\ Retains(stack[n], Top.be.start)
<1>1. /\ Top.mode = "skip" /\ ~HasNext(Top)
      /\ stack' = IF kept THEN [stack EXCEPT ![n] = f, ![n + 1] = g]
                  ELSE Append(SubSeq(stack, 1, n - 1), f)
      /\ UNCHANGED <<sent, phase, result, printed>>
  BY Zenon DEF Skipped
<1>2. /\ l \in Nat \ {0} /\ Top = stack[l] /\ Top \in Frames(U)
      /\ stack \in Seq(Frames(U)) /\ \A m \in 1..l : stack[m] \in Frames(U)
  BY TopIs, Zenon DEF Typed
<1>3. n \in 1..l /\ n + 1 = l /\ n # l /\ l \in 1..l /\ n \in Nat
  <2>1. l \in Nat \ {0} /\ l # 1
    BY <1>2
  <2> HIDE DEF l
  <2> QED
    BY <2>1
<1>4. stack[n] \in Frames(U)
  BY <1>2, <1>3, Zenon
<1>5. /\ stack[n].items \in Seq(U) /\ stack[n].key \in U
      /\ stack[n] = Made(stack[n], stack[n].be.str, stack[n].items, stack[n].key)
  BY <1>4, FrameHas, Zenon
<1>6. U \subseteq V /\ <<>> \in V
  OBVIOUS
<1> HIDE DEF V
<1>7. stack[n].items \in Seq(V) /\ stack[n].key \in V
  BY <1>5, <1>6, Series!SeqMonotonic
<1>8. end \in Nat
  BY <1>2, EndOfIs, Zenon
<1>9. f = Made(stack[n], end, stack[n].items, stack[n].key)
  BY <1>4, MovedIs, Zenon
<1>15. MayTurn(U, V, stack, n, end, stack[n].items, stack[n].key, f)
  BY <1>2, <1>3, <1>6, <1>7, <1>8, <1>9, Zenon DEF MayTurn
<1> DEFINE r == Append(SubSeq(stack, 1, n - 1), f)
<1>10. r \in Seq(Frames(V)) /\ Len(r) = n
       /\ Turned(stack, r, n, end, stack[n].items, stack[n].key)
  BY <1>15, TurnedAndCut, Zenon
<1>11. g \in Frames(V)
  <2> DEFINE c == Top.type
             p == Top.be.start
             m == Top.be.len
  <2>1. c \in {"d", "l"} /\ p \in Nat \ {0} /\ m \in Int
    BY <1>2, FrameHas
  <2> HIDE DEF c, p, m
  <2>2. Frame("read", c, Cursor(p, m)) \in Frames(V)
    BY <1>6, <2>1, FrameIs
  <2> QED
    BY <2>2, Zenon DEF c, p, m
<1>12. CASE kept
  <2> DEFINE w == [stack EXCEPT ![n] = f]
             z == [w EXCEPT ![l] = g]
             e == end
             it == stack[n].items
             ky == stack[n].key
  <2>1. w \in Seq(Frames(V)) /\ Len(w) = l /\ Turned(stack, w, n, e, it, ky)
    <3>1. n + 1 = Len(stack)
      BY <1>3, Zenon
    <3> QED
      BY <1>15, <3>1, TurnedInPlace, Zenon
  <2>2. stack' = z
    BY <1>1, <1>3, <1>12, Zenon
  <2> HIDE DEF w
  <2>3. /\ z \in Seq(Frames(V)) /\ Len(z) = l /\ z[l] = g
        /\ \A m \in 1..l : m # l => z[m] = w[m]
    <3> DEFINE F == Frames(V)
    <3>1. w \in Seq(F) /\ g \in F /\ l \in 1..Len(w)
      BY <1>3, <1>11, <2>1, Zenon
    <3> HIDE DEF F, g
    <3> QED
      BY <2>1, <3>1, OneReplaced DEF F
  <2> HIDE DEF z, f, g, n, e, it, ky, l
  <2>4. \A m \in 1..n : m \in 1..l /\ m # l
    <3>1. l \in Nat /\ n = l - 1
      BY <1>2, Zenon DEF n
    <3> QED
      BY <3>1
  <2>5. z[n] = w[n] /\ \A m \in 1..(n - 1) : z[m] = w[m]
    <3>1. n \in Nat \ {0}
      BY <1>3
    <3>2. n \in 1..n /\ \A m \in 1..(n - 1) : m \in 1..n
      BY <3>1
    <3> QED
      BY <2>3, <2>4, <3>2, Zenon
  <2>6. Len(z) \in {n, n + 1}
    BY <1>3, <2>3, Zenon
  <2>7. Turned(stack, z, n, e, it, ky)
    BY <2>1, <2>5, <2>6, Zenon DEF Turned, Changes
  <2>8. Len(z) = n + 1 /\ z[n + 1] = g
    BY <1>3, <2>3, Zenon
  <2> QED
    BY <1>1, <1>3, <1>8, <1>12, <2>2, <2>3, <2>7, <2>8, Zenon DEF g, n, l, e, it, ky
<1>13. CASE ~kept
  <2>1. stack' = r
    BY <1>1, <1>13, Zenon
  <2> HIDE DEF r
  <2> QED
    BY <1>1, <1>3, <1>8, <1>10, <1>13, <2>1, Zenon
<1> QED
  BY <1>12, <1>13

LEMMA ReturnDoes ==
  ASSUME NEW U, Typed(U), Return
  PROVE  LET n == Len(stack) - 1
             v == Holding(Top.type, Top.items)
         IN /\ Top.mode = "read" /\ ~HasNext(Top) /\ ~Lost
            /\ \/ /\ n = 0 /\ result' = v /\ stack' = <<>> /\ phase' = "decoded"
                  /\ UNCHANGED <<sent, printed>>
               \/ /\ n \in 1..Len(stack)
                  /\ \E V : /\ stack' \in Seq(Frames(V)) /\ Len(stack') = n
                            /\ Turned(stack, stack', n, stack[n].be.str,
                                      Added(stack[n], stack[n].items, stack[n].key, v),
                                      stack[n].key)
                  /\ UNCHANGED <<sent, phase, result, printed>>
<1> DEFINE l == Len(stack)
           n == l - 1
           v == Holding(Top.type, Top.items)
           f == With(stack[n], v)
<1>1. /\ l \in Nat \ {0} /\ Top = stack[l] /\ Top \in Frames(U)
      /\ stack \in Seq(Frames(U)) /\ \A m \in 1..l : stack[m] \in Frames(U)
  BY TopIs, Zenon DEF Typed
<1>2. /\ Top.mode = "read" /\ ~HasNext(Top) /\ ~Lost
      /\ IF n > 0
         THEN /\ stack' = Append(SubSeq(stack, 1, n - 1), f)
              /\ UNCHANGED <<phase, result>>
         ELSE /\ result' = v
              /\ stack' = <<>>
              /\ phase' = "decoded"
      /\ UNCHANGED <<sent, printed>>
  BY Zenon DEF Return
<1> HIDE DEF v
<1>3. CASE n > 0
  <2> DEFINE x == IF stack[n].type = "d" THEN KeyVal(CString(stack[n].key), v) ELSE v
             V == U \cup {x}
             r == Append(SubSeq(stack, 1, n - 1), f)
  <2>1. n \in 1..l
    <3>1. l \in Nat \ {0} /\ n > 0 /\ n = l - 1
      BY <1>1, <1>3, Zenon
    <3> HIDE DEF l, n
    <3> QED
      BY <3>1
  <2>2. stack[n] \in Frames(U)
    BY <1>1, <2>1
  <2>3. /\ stack[n].items \in Seq(U) /\ stack[n].key \in U /\ stack[n].be.str \in Nat
    BY <2>2, FrameHas, Zenon
  <2>4. U \subseteq V /\ x \in V
    OBVIOUS
  <2>5. f = Made(stack[n], stack[n].be.str, Append(stack[n].items, x), stack[n].key)
    BY <2>2, WithIs, Zenon
  <2> HIDE DEF V, x
  <2>6. stack[n].items \in Seq(V) /\ stack[n].key \in V
    BY <2>3, <2>4, Series!SeqMonotonic
  <2>7. Append(stack[n].items, x) \in Seq(V)
    BY <2>4, <2>6, OneMore, Zenon
  <2>8. r \in Seq(Frames(V)) /\ Len(r) = n
        /\ Turned(stack, r, n, stack[n].be.str, Append(stack[n].items, x), stack[n].key)
    <3>1. MayTurn(U, V, stack, n, stack[n].be.str, Append(stack[n].items, x), stack[n].key, f)
      BY <1>1, <2>1, <2>3, <2>4, <2>5, <2>6, <2>7, Zenon DEF MayTurn
    <3> QED
      BY <3>1, TurnedAndCut, Zenon
  <2>9. stack' = r
    BY <1>2, <1>3, Zenon
  <2>10. Append(stack[n].items, x) = Added(stack[n], stack[n].items, stack[n].key, v)
    BY Zenon DEF Added, x
  <2> HIDE DEF r
  <2> QED
    BY <1>2, <1>3, <2>1, <2>8, <2>9, <2>10, Zenon DEF v
<1>4. CASE ~(n > 0)
  <2>1. n = 0
    <3>1. l \in Nat \ {0} /\ ~(n > 0) /\ n = l - 1
      BY <1>1, <1>4, Zenon
    <3> HIDE DEF l, n
    <3> QED
      BY <3>1
  <2> QED
    BY <1>2, <1>4, <2>1, Zenon DEF v
<1> QED
  BY <1>3, <1>4

-----------------------------------------------------------------------------
(* How the frames stand on each other *)

Alone(f) == f.be.str # NullPtr => f.be.str >= f.be.start

Above(f, g) ==
  /\ Symbol(g.be.start) = g.type /\ f.be.start <= g.be.start
  /\ g.mode = "read" /\ g.type = "l" => f.type = "d"
  /\ f.mode = "skip" => g.mode = "skip"

Standing(s) ==
  /\ Len(s) >= 1 /\ s[1].mode = "read" /\ s[1].type = "d"
  /\ \A n \in 1..Len(s) : Alone(s[n]) /\ (n > 1 => Above(s[n - 1], s[n]))

LEMMA StandingKept ==
  ASSUME NEW s, NEW s2, NEW k, Standing(s), Len(s) \in Nat, Changes(s, s2, k),
         Alone(s2[k]), Len(s2) = k + 1 => Alone(s2[k + 1]) /\ Above(s2[k], s2[k + 1])
  PROVE  Standing(s2)
<1> DEFINE l == Len(s)
           m == Len(s2)
<1>1. /\ k \in 1..l /\ m \in {k, k + 1} /\ \A n \in 1..(k - 1) : s2[n] = s[n]
      /\ s2[k].mode = s[k].mode /\ s2[k].type = s[k].type /\ s2[k].be.start = s[k].be.start
  BY Zenon DEF Changes
<1>2. /\ s[1].mode = "read" /\ s[1].type = "d"
      /\ \A n \in 1..l : Alone(s[n]) /\ (n > 1 => Above(s[n - 1], s[n]))
  BY Zenon DEF Standing
<1>3. l \in Nat
  OBVIOUS
<1> HIDE DEF l
<1>4. k \in Nat \ {0} /\ k <= l /\ m \in Nat /\ m >= 1
  BY <1>1, <1>3
<1> HIDE DEF m
<1>5. s2[1].mode = "read" /\ s2[1].type = "d"
  <2>1. CASE k = 1
    BY <1>1, <1>2, <2>1, Zenon
  <2>2. CASE k # 1
    <3>1. 1 \in 1..(k - 1)
      BY <1>4, <2>2
    <3> QED
      BY <1>1, <1>2, <3>1, Zenon
  <2> QED
    BY <2>1, <2>2
<1>6. ASSUME NEW n \in 1..m
      PROVE  Alone(s2[n]) /\ (n > 1 => Above(s2[n - 1], s2[n]))
  <2>1. CASE n < k
    <3>1. n \in 1..(k - 1) /\ n \in 1..l /\ (n > 1 => n - 1 \in 1..(k - 1))
      BY <1>3, <1>4, <2>1
    <3>2. s2[n] = s[n] /\ (n > 1 => s2[n - 1] = s[n - 1])
      BY <1>1, <3>1, Zenon
    <3> QED
      BY <1>2, <3>1, <3>2, Zenon
  <2>2. CASE n = k
    <3>1. k \in 1..l /\ (k > 1 => k - 1 \in 1..(k - 1))
      BY <1>1, <1>4
    <3>2. ASSUME k > 1
          PROVE  Above(s2[k - 1], s2[k])
      <4>1. s2[k - 1] = s[k - 1]
        BY <1>1, <3>1, <3>2, Zenon
      <4>2. Above(s[k - 1], s[k])
        BY <1>2, <3>1, <3>2, Zenon
      <4> QED
        BY <1>1, <4>1, <4>2, Zenon DEF Above
    <3> QED
      BY <2>2, <3>2, Zenon
  <2>3. CASE n > k
    <3>1. n = k + 1 /\ n - 1 = k
      BY <1>1, <1>4, <2>3
    <3>2. m = k + 1
      BY <1>1, <1>4, <2>3
    <3> QED
      BY <3>1, <3>2, Zenon DEF m
  <2> QED
    BY <1>4, <2>1, <2>2, <2>3
<1>7. Len(s2) >= 1
  BY <1>4 DEF m
<1> QED
  BY <1>5, <1>6, <1>7, Zenon DEF Standing, m

LEMMA TopStands ==
  ASSUME NEW U, Typed(U), Standing(stack)
  PROVE  /\ Alone(Top)
         /\ Len(stack) # 1 => LET n == Len(stack) - 1
                              IN /\ n \in 1..Len(stack) /\ n + 1 = Len(stack)
                                 /\ stack[n] \in Frames(U)
                                 /\ Alone(stack[n]) /\ Above(stack[n], Top)
<1> DEFINE l == Len(stack)
           n == l - 1
<1>1. /\ l \in Nat \ {0} /\ Top = stack[l] /\ l \in 1..l
      /\ \A m \in 1..l : stack[m] \in Frames(U)
  BY TopIs, Zenon
<1>2. \A m \in 1..l : Alone(stack[m]) /\ (m > 1 => Above(stack[m - 1], stack[m]))
  BY Zenon DEF Standing
<1> HIDE DEF l
<1>3. ASSUME l # 1
      PROVE  n \in 1..l /\ n + 1 = l /\ l > 1
  BY <1>1, <1>3
<1>4. ASSUME l # 1
      PROVE  stack[n] \in Frames(U) /\ Alone(stack[n]) /\ Above(stack[n], stack[l])
  BY <1>1, <1>2, <1>3, <1>4, Zenon
<1> QED
  BY <1>1, <1>2, <1>3, <1>4, Zenon DEF l

(* The stack of a decoding that goes on, and of one that has ended. *)
Stacks(U) == Typed(U) /\ Standing(stack)

LEMMA PassLeafStands ==
  ASSUME NEW U, Stacks(U), PassLeaf
  PROVE  Standing(stack')
<1> DEFINE l == Len(stack)
           end == LeafEnd(Found)
           g == stack'[l]
<1>1. Typed(U) /\ Standing(stack)
  BY Zenon DEF Stacks
<1>2. /\ Len(stack) \in Nat \ {0} /\ Top = stack[l] /\ Top \in Frames(U) /\ Alone(Top)
  BY <1>1, TopIs, TopStands, Zenon
<1>3. /\ Position \in Nat \ {0} /\ Position >= Top.be.str /\ Top.be.str # NullPtr
      /\ end \in Nat /\ (end # NullPtr => end > Position)
      /\ Len(stack') = l /\ Changes(stack, stack', l) /\ g.be.str = end
  BY <1>1, PassLeafDoes, Zenon
<1>4. Top.be.str \in Nat /\ Top.be.start \in Nat
  BY <1>2, FrameHas
<1>5. g.be.start = Top.be.start
  BY <1>2, <1>3, Zenon DEF Changes
<1> HIDE DEF end, g
<1>6. Alone(g)
  BY <1>2, <1>3, <1>4, <1>5 DEF Alone
<1>7. Len(stack') # l + 1 /\ l \in Nat
  <2> HIDE DEF l
  <2> QED
    BY <1>2, <1>3 DEF l
<1> QED
  BY <1>1, <1>3, <1>6, <1>7, StandingKept, Zenon DEF g

Fresh(g, m, c, p, n) == g = Frame(m, c, Cursor(p, n))

LEMMA FrameFields ==
  ASSUME NEW m, NEW c, NEW p, NEW n, NEW g, Fresh(g, m, c, p, n)
  PROVE  /\ g.mode = m /\ g.type = c /\ g.be.start = p /\ g.be.str = p /\ g.be.len = n
         /\ g.items = <<>>
BY DEF Fresh, Frame, Cursor

LEMMA EnterStands ==
  ASSUME NEW U, Stacks(U), Enter
  PROVE  Standing(stack')
<1> DEFINE l == Len(stack)
           f == stack'[l]
           g == stack'[l + 1]
<1>1. Typed(U) /\ Standing(stack)
  BY Zenon DEF Stacks
<1>2. /\ Len(stack) \in Nat \ {0} /\ Top = stack[l] /\ Top \in Frames(U) /\ Alone(Top)
  BY <1>1, TopIs, TopStands, Zenon
<1>3. /\ Position \in Nat \ {0} /\ Position >= Top.be.str /\ Top.be.str # NullPtr
      /\ Turned(stack, stack', l, Top.be.str, Top.items, KeyNow)
      /\ g = Frame("skip", Symbol(Position), Found) /\ Nests(Position)
  BY <1>1, EnterDoes, Zenon
<1>4. Top.be.str \in Nat /\ Top.be.start \in Nat
  BY <1>2, FrameHas
<1>5. Changes(stack, stack', l) /\ f.be.start = Top.be.start /\ f.be.str = Top.be.str
  BY <1>2, <1>3, Zenon DEF Changes, Turned
<1>6. /\ g.mode = "skip" /\ g.type = Symbol(Position) /\ g.be.start = Position
      /\ g.be.str = Position
  <2>1. Fresh(g, "skip", Symbol(Position), Position, carry_length(Top.be, Position))
    BY <1>3, Zenon DEF Found, Fresh
  <2> HIDE DEF g
  <2> QED
    BY <2>1, FrameFields
<1> HIDE DEF f, g
<1>7. Alone(f)
  BY <1>2, <1>5, Zenon DEF Alone
<1>8. Alone(g)
  BY <1>3, <1>6 DEF Alone
<1>9. Above(f, g)
  <2>1. f.be.start <= g.be.start
    BY <1>2, <1>3, <1>4, <1>5, <1>6 DEF Alone
  <2> QED
    BY <1>6, <2>1 DEF Above
<1>10. l \in Nat
  BY <1>2
<1> QED
  BY <1>1, <1>5, <1>7, <1>8, <1>9, <1>10, StandingKept, Zenon DEF f, g

LEMMA RetainedIs ==
  ASSUME NEW f, NEW p, Retains(f, p)
  PROVE  f.mode = "read" /\ (Symbol(p) = "l" => f.type = "d")
BY DEF Retains, is_string, IsNumber

LEMMA SkippedStands ==
  ASSUME NEW U, Stacks(U), Skipped
  PROVE  /\ Standing(stack') /\ Len(stack) # 1
<1> DEFINE l == Len(stack)
           n == l - 1
           end == EndOf(Top.be)
           f == stack'[n]
           g == stack'[n + 1]
           kept == end # NullPtr /\ Retains(stack[n], Top.be.start)
<1>1. Typed(U) /\ Standing(stack)
  BY Zenon DEF Stacks
<1>2. /\ l \in Nat \ {0} /\ Top = stack[l] /\ Top \in Frames(U) /\ Alone(Top)
  BY <1>1, TopIs, TopStands, Zenon
<1>3. l # 1
  <2>1. Top.mode = "skip"
    BY DEF Skipped
  <2>2. stack[1].mode = "read"
    BY <1>1, Zenon DEF Standing
  <2> QED
    BY <1>2, <2>1, <2>2
<1>4. /\ n \in 1..l /\ n + 1 = l /\ stack[n] \in Frames(U)
      /\ Alone(stack[n]) /\ Above(stack[n], Top)
  BY <1>1, <1>3, TopStands, Zenon
<1>5. /\ Turned(stack, stack', n, end, stack[n].items, stack[n].key) /\ end \in Nat
      /\ IF kept
         THEN /\ Len(stack') = n + 1
              /\ g = Frame("read", Top.type, Cursor(Top.be.start, Top.be.len))
         ELSE Len(stack') = n
  BY <1>1, <1>3, SkippedDoes, Zenon
<1>6. end # NullPtr => end > Top.be.str
  BY <1>2, EndOfIs, Zenon
<1>7. /\ Top.be.str \in Nat /\ Top.be.start \in Nat \ {0} /\ stack[n].be.start \in Nat
      /\ stack[n].be.start <= Top.be.start
  BY <1>2, <1>4, FrameHas DEF Above
<1>8. Changes(stack, stack', n) /\ f.be.start = stack[n].be.start /\ f.be.str = end
      /\ f.mode = stack[n].mode /\ f.type = stack[n].type
  BY <1>5, Zenon DEF Turned, Changes
<1>9. end # NullPtr => Top.be.str # NullPtr
  <2> DEFINE be == Top.be
  <2> HIDE DEF be
  <2>1. EndOf(be) # NullPtr => be.str # NullPtr
    BY DEF EndOf
  <2> QED
    BY <2>1 DEF be
<1> HIDE DEF end, f
<1>10. Alone(f)
  BY <1>2, <1>5, <1>6, <1>7, <1>8, <1>9 DEF Alone
<1>11. ASSUME kept
       PROVE  Alone(g) /\ Above(f, g)
  <2>1. /\ g.mode = "read" /\ g.type = Top.type /\ g.be.start = Top.be.start
        /\ g.be.str = Top.be.start
    <3>1. Fresh(g, "read", Top.type, Top.be.start, Top.be.len)
      BY <1>5, <1>11, Zenon DEF Fresh
    <3> HIDE DEF g
    <3> QED
      BY <3>1, FrameFields
  <2> HIDE DEF g
  <2>2. Alone(g)
    BY <1>7, <2>1 DEF Alone
  <2>3. Symbol(Top.be.start) = Top.type /\ stack[n].be.start <= Top.be.start
    BY <1>4, Zenon DEF Above
  <2>4. stack[n].mode = "read" /\ (Symbol(Top.be.start) = "l" => stack[n].type = "d")
    BY <1>11, RetainedIs, Zenon
  <2> DEFINE st == Top.be.start
  <2> HIDE DEF n, l
  <2>5. Above(f, g)
    <3>1. Symbol(g.be.start) = g.type
      BY <2>1, <2>3, Zenon
    <3>2. f.be.start <= g.be.start
      BY <1>8, <2>1, <2>3, Zenon
    <3>3. g.type = "l" => f.type = "d"
      BY <1>8, <2>1, <2>3, <2>4, Zenon
    <3>4. f.mode # "skip"
      BY <1>8, <2>4
    <3> QED
      BY <3>1, <3>2, <3>3, <3>4, Zenon DEF Above
  <2> QED
    BY <2>2, <2>5
<1>12. Len(stack') = n + 1 => kept
  <2>1. n \in Nat
    BY <1>4
  <2> HIDE DEF n, g
  <2> QED
    BY <1>5, <2>1
<1>13. l \in Nat
  BY <1>2
<1>14. Standing(stack')
  BY <1>1, <1>8, <1>10, <1>11, <1>12, <1>13, StandingKept, Zenon DEF f
<1> QED
  BY <1>3, <1>14, Zenon

LEMMA ReturnStands ==
  ASSUME NEW U, Stacks(U), Return
  PROVE  (phase' = "decoded" /\ stack' = <<>>) \/ (phase' = phase /\ Standing(stack'))
<1> DEFINE l == Len(stack)
           n == l - 1
           v == Holding(Top.type, Top.items)
<1>1. Typed(U) /\ Standing(stack)
  BY Zenon DEF Stacks
<1>2. \/ stack' = <<>> /\ phase' = "decoded"
      \/ /\ n \in 1..l /\ Len(stack') = n /\ phase' = phase
         /\ Turned(stack, stack', n, stack[n].be.str,
                   Added(stack[n], stack[n].items, stack[n].key, v), stack[n].key)
  BY <1>1, ReturnDoes, Zenon
<1>3. CASE /\ n \in 1..l /\ Len(stack') = n
           /\ Turned(stack, stack', n, stack[n].be.str,
                     Added(stack[n], stack[n].items, stack[n].key, v), stack[n].key)
  <2>1. Alone(stack[n])
    BY <1>1, <1>3, Zenon DEF Standing
  <2>2. Changes(stack, stack', n) /\ stack'[n].be.str = stack[n].be.str
        /\ stack'[n].be.start = stack[n].be.start
    BY <1>3, Zenon DEF Turned, Changes
  <2>3. Alone(stack'[n])
    BY <2>1, <2>2, Zenon DEF Alone
  <2>4. l \in Nat /\ Len(stack') # n + 1
    <3>1. l \in Nat
      BY <1>1, TopIs
    <3> HIDE DEF l
    <3> QED
      BY <1>3, <3>1
  <2>5. Standing(stack')
    BY <1>1, <2>2, <2>3, <2>4, StandingKept, Zenon
  <2> QED
    BY <1>2, <2>5, Zenon
<1> QED
  BY <1>2, <1>3, Zenon

-----------------------------------------------------------------------------
(* What the stack has of the dictionary that was sent *)

(* The frame is for the value w.v, which is at w.p, and has w.d entries of it
   behind it; the next is in the text.                                       *)
Lies(f, w) ==
  /\ w.v \in Contents /\ IsNested(w.v) /\ w.p \in Nat \ {0} /\ w.d \in 0..Len(w.v.items)
  /\ f.type = w.v.type /\ f.be.start = w.p /\ f.be.len \in Int
  /\ w.p + f.be.len >= Len(text)
  /\ f.mode = "read" => f.items = KeptUpto(w.v, w.d)
  /\ Waits(w.v, w.p, w.d)

(* The frame g on it is for its next entry: g finds the end of it, or reads
   it, with the cursor of f behind it already.                               *)
Carries(f, w, g, x) ==
  /\ w.d < Len(w.v.items)
  /\ x.v = Item(w.v, w.d + 1) /\ x.p = ValuePlace(w.v, w.p, w.d + 1)
  /\ f.be.str = Place(w.v, w.p, IF g.mode = "read" THEN w.d + 1 ELSE w.d)
  /\ w.v.type = "d" => f.key = w.v.items[w.d + 1].key
  /\ g.mode = "read" => f.mode = "read" /\ (w.v.type = "d" \/ x.v.type = "d")

Ends(f, w) == f.be.str = Place(w.v, w.p, w.d)

Inside(s, at) ==
  /\ at[1].v = dict /\ at[1].p = 1
  /\ \A n \in 1..Len(s) : Lies(s[n], at[n])
  /\ \A n \in 1..Len(s) : n + 1 <= Len(s) => Carries(s[n], at[n], s[n + 1], at[n + 1])
  /\ Ends(s[Len(s)], at[Len(s)])

(* What a dictionary gives to its map. *)
Given(v) == KeptUpto(v, Len(v.items))

(* The decoding has gone past the cut, with all that is before it. *)
HasWhole(items) ==
  \A n \in DOMAIN dict.items : Len(Upto(dict, n)) <= cut =>
    n \in DOMAIN items /\ items[n] = Given(dict)[n]

HasStored(items) ==
  \A n \in DOMAIN Mapped[dict].items : Len(Upto(dict, n)) <= cut =>
    n \in DOMAIN items /\ items[n] = Mapped[dict].items[n]

Past(s) == ~Complete /\ HasWhole(s[1].items)

Content(s) == Past(s) \/ \E at : Inside(s, at)

(* The frame k is for x, at the same value as before, and that on it for y. *)
Follows(s, s2, k, at, x, y) ==
  /\ Inside(s, at) /\ Len(s) \in Nat /\ Changes(s, s2, k)
  /\ x.v = at[k].v /\ x.p = at[k].p /\ Lies(s2[k], x)
  /\ Len(s2) = k => Ends(s2[k], x)
  /\ Len(s2) = k + 1 => /\ Lies(s2[k + 1], y) /\ Carries(s2[k], x, s2[k + 1], y)
                        /\ Ends(s2[k + 1], y)

LEMMA Rebuilt ==
  ASSUME NEW s, NEW s2, NEW k, NEW at, NEW x, NEW y, Follows(s, s2, k, at, x, y)
  PROVE  \E b : Inside(s2, b)
<1>0. /\ Inside(s, at) /\ Len(s) \in Nat /\ Changes(s, s2, k)
      /\ x.v = at[k].v /\ x.p = at[k].p /\ Lies(s2[k], x)
      /\ Len(s2) = k => Ends(s2[k], x)
      /\ Len(s2) = k + 1 => /\ Lies(s2[k + 1], y) /\ Carries(s2[k], x, s2[k + 1], y)
                            /\ Ends(s2[k + 1], y)
  BY Zenon DEF Follows
<1> DEFINE l == Len(s)
           m == Len(s2)
           b == [n \in Nat |-> IF n = k THEN x ELSE IF n = k + 1 THEN y ELSE at[n]]
<1>1. /\ k \in 1..l /\ m \in {k, k + 1} /\ \A n \in 1..(k - 1) : s2[n] = s[n]
      /\ s2[k].mode = s[k].mode
  BY <1>0, Zenon DEF Changes
<1>2. /\ at[1].v = dict /\ at[1].p = 1
      /\ \A n \in 1..l : Lies(s[n], at[n])
      /\ \A n \in 1..l : n + 1 <= l => Carries(s[n], at[n], s[n + 1], at[n + 1])
  BY <1>0, Zenon DEF Inside
<1>3. l \in Nat
  BY <1>0, Zenon
<1> HIDE DEF l
<1>4. k \in Nat \ {0} /\ k <= l /\ m \in Nat /\ m >= 1 /\ k + 1 # k
  BY <1>1, <1>3
<1>5. /\ b[k] = x /\ b[k + 1] = y
      /\ \A n \in 1..(k - 1) : b[n] = at[n]
  BY <1>4
<1> HIDE DEF b, m
<1>6. b[1].v = dict /\ b[1].p = 1
  <2>1. CASE k = 1
    BY <1>0, <1>2, <1>5, <2>1, Zenon
  <2>2. CASE k # 1
    <3>1. 1 \in 1..(k - 1)
      BY <1>4, <2>2
    <3> QED
      BY <1>2, <1>5, <3>1, Zenon
  <2> QED
    BY <2>1, <2>2
<1>7. ASSUME NEW n \in 1..m
      PROVE  Lies(s2[n], b[n])
  <2>1. CASE n < k
    <3>1. n \in 1..(k - 1) /\ n \in 1..l
      BY <1>3, <1>4, <2>1
    <3> QED
      BY <1>1, <1>2, <1>5, <3>1, Zenon
  <2>2. CASE n = k
    BY <1>0, <1>5, <2>2, Zenon
  <2>3. CASE n > k
    <3>1. n = k + 1 /\ m = k + 1
      BY <1>1, <1>4, <2>3
    <3> QED
      BY <1>0, <1>5, <3>1, Zenon DEF m
  <2> QED
    BY <1>4, <2>1, <2>2, <2>3
<1>8. ASSUME NEW n \in 1..m, n + 1 <= m
      PROVE  Carries(s2[n], b[n], s2[n + 1], b[n + 1])
  <2>1. CASE n + 1 < k
    <3>1. n \in 1..(k - 1) /\ n \in 1..l /\ n + 1 \in 1..(k - 1) /\ n + 1 <= l
      BY <1>3, <1>4, <2>1
    <3> QED
      BY <1>1, <1>2, <1>5, <3>1, Zenon
  <2>2. CASE n + 1 = k
    <3>1. n \in 1..(k - 1) /\ n \in 1..l /\ n + 1 <= l
      BY <1>3, <1>4, <2>2
    <3>2. Carries(s[n], at[n], s[k], at[k])
      BY <1>2, <2>2, <3>1, Zenon
    <3>3. Carries(s[n], at[n], s2[k], x)
      BY <1>0, <1>1, <3>2, Zenon DEF Carries
    <3> QED
      BY <1>1, <1>5, <2>2, <3>1, <3>3, Zenon
  <2>3. CASE n + 1 > k
    <3>1. n = k /\ m = k + 1
      BY <1>1, <1>4, <1>8, <2>3
    <3> QED
      BY <1>0, <1>5, <3>1, Zenon DEF m
  <2> QED
    BY <1>4, <2>1, <2>2, <2>3
<1>9. Ends(s2[m], b[m])
  <2>1. CASE m = k
    BY <1>0, <1>5, <2>1, Zenon DEF m
  <2>2. CASE m = k + 1
    BY <1>0, <1>5, <2>2, Zenon DEF m
  <2> QED
    BY <1>1, <2>1, <2>2
<1> QED
  BY <1>6, <1>7, <1>8, <1>9, Zenon DEF Inside, m

LEMMA KeptMore ==
  ASSUME NEW v \in Contents, IsNested(v), NEW n \in 0..Len(v.items), n < Len(v.items)
  PROVE  LET x == KeptUpto(v, n)
             c == Item(v, n + 1)
         IN KeptUpto(v, n + 1) =
              IF v.type = "d" THEN Append(x, KeyVal(CString(v.items[n + 1].key), Mapped[c]))
              ELSE IF c.type \in {"d", "s"} THEN Append(x, Mapped[c])
              ELSE x
<1> DEFINE x == KeptUpto(v, n)
           c == Item(v, n + 1)
           e == KeyVal(CString(v.items[n + 1].key), Mapped[c])
           w == Mapped[c]
           T == KeptOf(v)
<1>1. Len(v.items) \in Nat /\ DOMAIN v.items = 1..Len(v.items)
  BY Items
<1>2. n + 1 \in 1..Len(v.items) /\ (n + 1) - 1 = n
  BY <1>1
<1>3. KeptUpto(v, n + 1) = x \o Kept(v, n + 1) /\ x \in Seq(T)
  <2>1. KeptUpto(v, n + 1) = KeptUpto(v, (n + 1) - 1) \o Kept(v, n + 1)
    <3> DEFINE q == n + 1
    <3>1. q \in 1..Len(v.items)
      BY <1>2, Zenon
    <3> HIDE DEF q
    <3>2. KeptUpto(v, q) = KeptUpto(v, q - 1) \o Kept(v, q)
      BY <3>1, KeptOn
    <3> QED
      BY <3>2, Zenon DEF q
  <2>2. x \in Seq(T)
    BY KeptOn, Zenon
  <2> QED
    BY <1>2, <2>1, <2>2, Zenon
<1>4. /\ v.type = "d" => Kept(v, n + 1) = <<e>>
      /\ v.type = "l" => Kept(v, n + 1) = IF c.type \in {"d", "s"} THEN <<w>> ELSE <<>>
  BY <1>1, <1>2, KeptIs
<1>5. x \o <<e>> = Append(x, e) /\ x \o <<w>> = Append(x, w) /\ x \o <<>> = x
  <2> HIDE DEF x, e, w, T
  <2>1. x \o <<e>> = Append(x, e)
    BY <1>3
  <2>2. x \o <<w>> = Append(x, w)
    BY <1>3
  <2>3. x \o <<>> = x
    BY <1>3
  <2> QED
    BY <2>1, <2>2, <2>3
<1>6. v.type \in {"d", "l"}
  BY DEF IsNested
<1> DEFINE t == c.type
<1> HIDE DEF x, e, w, T, t
<1>7. v.type = "d" => KeptUpto(v, n + 1) = Append(x, e)
  BY <1>3, <1>4, <1>5, Zenon
<1>8. v.type = "l" /\ t \in {"d", "s"} => KeptUpto(v, n + 1) = Append(x, w)
  BY <1>3, <1>4, <1>5, Zenon DEF t
<1>9. v.type = "l" /\ t \notin {"d", "s"} => KeptUpto(v, n + 1) = x
  BY <1>3, <1>4, <1>5, Zenon DEF t
<1>10. KeptUpto(v, n + 1) =
         IF v.type = "d" THEN Append(x, e) ELSE IF t \in {"d", "s"} THEN Append(x, w) ELSE x
  BY <1>6, <1>7, <1>8, <1>9
<1> QED
  BY <1>10, Zenon DEF x, e, w, t

(* The next entry of the dictionary is in the text, or the cut was before it. *)
LEMMA FirstReady ==
  ASSUME TextIs, NEW d \in 0..Len(dict.items), NEW s, s[1].items = KeptUpto(dict, d)
  PROVE  Waits(dict, 1, d) \/ Past(s)
<1> DEFINE N == Len(dict.items)
           it == s[1].items
<1> SUFFICES ASSUME ~Waits(dict, 1, d)
             PROVE  Past(s)
  OBVIOUS
<1>1. /\ dict \in Contents /\ dict.type = "d" /\ IsNested(dict)
      /\ N \in Nat /\ DOMAIN dict.items = 1..N
  BY DictIs, UptoOn, Zenon
<1>2. ~Complete
  <2>1. ASSUME Complete
        PROVE  FALSE
    <3>1. Spelt(Encode[dict], 1)
      BY <2>1, CompleteIsSpelt, Zenon
    <3> QED
      BY <1>1, <3>1, WholeIsReady
  <2> QED
    BY <2>1, Zenon
<1>3. ASSUME NEW n \in DOMAIN dict.items, Len(Upto(dict, n)) <= cut
      PROVE  n \in DOMAIN it /\ it[n] = Given(dict)[n]
  <2>1. n <= d
    <3>1. ASSUME d < n
          PROVE  FALSE
      <4>1. d + 1 \in 0..N /\ n \in 0..N /\ d + 1 <= n /\ d < N
        BY <1>1, <3>1
      <4>2. Len(Upto(dict, d + 1)) <= Len(Upto(dict, n))
        BY <1>1, <4>1, UptoIncreases, Zenon
      <4>3. Len(Upto(dict, d + 1)) \in Nat /\ Len(Upto(dict, n)) \in Nat /\ cut \in Nat
        BY <1>1, <4>1, UptoGrows, DictIs, Zenon
      <4>4. Len(Upto(dict, d + 1)) <= cut
        BY <1>3, <4>2, <4>3
      <4>5. Spelt(Upto(dict, d + 1), 1)
        BY <4>1, <4>4, WholeIsSpelt, Zenon
      <4> QED
        BY <4>1, <4>5, Zenon DEF Waits
    <3>2. ~(d < n)
      BY <3>1, Zenon
    <3>3. d \in Nat /\ n \in Nat
      BY <1>1
    <3> QED
      BY <3>2, <3>3
  <2>2. n \in 1..d /\ n \in 1..N /\ N \in 0..N
    BY <1>1, <2>1
  <2>3. /\ Len(KeptUpto(dict, d)) = d
        /\ KeptUpto(dict, d)[n] = KeyVal(CString(dict.items[n].key), Mapped[Item(dict, n)])
        /\ KeptUpto(dict, N)[n] = KeyVal(CString(dict.items[n].key), Mapped[Item(dict, n)])
    BY <1>1, <2>2, DictKeeps, Zenon
  <2>4. KeptUpto(dict, d) \in Seq(KeptOf(dict))
    BY <1>1, KeptOn, Zenon
  <2>5. DOMAIN KeptUpto(dict, d) = 1..d
    BY <2>3, <2>4, Elements, Zenon
  <2> QED
    BY <2>2, <2>3, <2>5, Zenon DEF Given
<1> QED
  BY <1>2, <1>3, Zenon DEF Past, HasWhole

(* What is in another value is in the text as that is. *)
LEMMA IsSpelt ==
  ASSUME NEW s, NEW at, Inside(s, at), Len(s) \in Nat, NEW k \in 1..Len(s), k # 1
  PROVE  Spelt(Encode[at[k].v], at[k].p)
<1> DEFINE n == k - 1
           w == at[n]
           x == at[k]
<1>1. n \in 1..Len(s) /\ n + 1 = k /\ n + 1 <= Len(s)
  OBVIOUS
<1>2. Lies(s[n], w) /\ Carries(s[n], w, s[n + 1], at[n + 1])
  BY <1>1, Zenon DEF Inside
<1>3. Carries(s[n], w, s[k], x)
  BY <1>1, <1>2, Zenon
<1> HIDE DEF w, x
<1>4. /\ w.v \in Contents /\ IsNested(w.v) /\ w.d \in 0..Len(w.v.items) /\ w.d < Len(w.v.items)
      /\ Waits(w.v, w.p, w.d)
      /\ x.v = Item(w.v, w.d + 1) /\ x.p = ValuePlace(w.v, w.p, w.d + 1)
  BY <1>2, <1>3, Zenon DEF Lies, Carries
<1>5. Len(w.v.items) \in Nat
  BY <1>4, Items
<1>6. w.d + 1 \in 1..Len(w.v.items) /\ w.d # Len(w.v.items) /\ (w.d + 1) - 1 = w.d
  BY <1>4, <1>5
<1>7. Spelt(Upto(w.v, w.d + 1), w.p)
  BY <1>4, <1>6, Zenon DEF Waits
<1>8. Spelt(Encode[Item(w.v, w.d + 1)], ValuePlace(w.v, w.p, w.d + 1))
  <2>1. Spelt(Encode[Item(w.v, w.d + 1)],
              w.p + Len(Upto(w.v, (w.d + 1) - 1)) + Len(Lead(w.v, w.d + 1)))
    <3> DEFINE u == w.v
               q == w.d + 1
               p == w.p
    <3>1. u \in Contents /\ IsNested(u) /\ q \in 1..Len(u.items) /\ Spelt(Upto(u, q), p)
      BY <1>4, <1>6, <1>7
    <3> HIDE DEF u, q, p
    <3>2. Spelt(Encode[Item(u, q)], p + Len(Upto(u, q - 1)) + Len(Lead(u, q)))
      BY <3>1, EntrySpelt
    <3> QED
      BY <3>2 DEF u, q, p
  <2> QED
    BY <2>1 DEF ValuePlace
<1> QED
  BY <1>4, <1>8, Zenon DEF x

LEMMA NextReady ==
  ASSUME TextIs, NEW s, NEW at, Inside(s, at), Len(s) \in Nat, NEW k \in 1..Len(s),
         NEW d \in 0..Len(at[k].v.items), NEW s2, k = 1 => s2[1].items = KeptUpto(dict, d)
  PROVE  Waits(at[k].v, at[k].p, d) \/ Past(s2)
<1>1. CASE k = 1
  <2>1. at[k].v = dict /\ at[k].p = 1
    BY <1>1, Zenon DEF Inside
  <2> QED
    BY <1>1, <2>1, FirstReady
<1>2. CASE k # 1
  <2>1. Spelt(Encode[at[k].v], at[k].p)
    BY <1>2, IsSpelt
  <2>2. at[k].v \in Contents /\ IsNested(at[k].v)
    BY Zenon DEF Inside, Lies
  <2> QED
    BY <2>1, <2>2, WholeIsReady
<1> QED
  BY <1>1, <1>2

(* The frame at the top is before an entry, or behind all of them. *)
AtEntry(w) ==
  LET c == Item(w.v, w.d + 1)
      n == carry_length(Top.be, Position)
  IN /\ HasNext(Top) /\ Readable /\ Position = ValuePlace(w.v, w.p, w.d + 1)
     /\ w.v.type = "d" => KeyNow = w.v.items[w.d + 1].key
     /\ c \in Contents /\ Spelt(Encode[c], Position) /\ Spelt(Upto(w.v, w.d + 1), w.p)
     /\ n \in Int /\ n > 0 /\ Position + n >= Len(text)

AtTheEnd(w) ==
  /\ w.d = Len(w.v.items) /\ ~HasNext(Top) /\ Top.be.str # NullPtr
  /\ EndOf(Top.be) = w.p + Len(Encode[w.v])

LEMMA TopInside ==
  ASSUME NEW U, Typed(U), NEW at, Inside(stack, at)
  PROVE  LET w == at[Len(stack)]
         IN /\ Lies(Top, w) /\ Ends(Top, w)
            /\ Len(w.v.items) \in Nat /\ w.d \in Nat /\ w.d <= Len(w.v.items)
            /\ \/ w.d < Len(w.v.items) /\ AtEntry(w)
               \/ AtTheEnd(w)
<1> DEFINE w == at[Len(stack)]
           v == w.v
           p == w.p
           d == w.d
           be == Top.be
<1>1. Len(stack) \in 1..Len(stack) /\ Top = stack[Len(stack)]
  BY TopIs, Zenon
<1>2. Lies(Top, w) /\ Ends(Top, w)
  BY <1>1, Zenon DEF Inside
<1>3. /\ v \in Contents /\ IsNested(v) /\ p \in Nat \ {0} /\ d \in 0..Len(v.items)
      /\ Top.type = v.type /\ be.start = p /\ be.len \in Int /\ p + be.len >= Len(text)
      /\ Waits(v, p, d) /\ be.str = Place(v, p, d)
  BY <1>2, Zenon DEF Lies, Ends
<1>4. Len(v.items) \in Nat /\ DOMAIN v.items = 1..Len(v.items)
      /\ \A n \in DOMAIN v.items : Item(v, n) \in Contents
  BY <1>3, Items
<1>5. d \in Nat /\ d <= Len(v.items)
  BY <1>3, <1>4
<1>6. Over(be, v, p, d)
  BY <1>3, Zenon DEF Over
<1> HIDE DEF v, p, d, be, w
<1>7. CASE d # Len(v.items)
  <2> DEFINE q == d + 1
             c == Item(v, q)
  <2>1. q \in 1..Len(v.items) /\ q - 1 = d /\ d < Len(v.items)
    BY <1>4, <1>5, <1>7
  <2>2. Spelt(Upto(v, q), p)
    BY <1>3, <1>7, Zenon DEF Waits
  <2> HIDE DEF q
  <2>3. Over(be, v, p, q - 1)
    BY <1>6, <2>1, Zenon
  <2>4. /\ HasNext(Top) /\ be.len > 0
        /\ (IF Top.type = "d" THEN ValueAt(be) ELSE ItemAt(be)) = ValuePlace(v, p, q)
        /\ v.type = "d" => Chars(KeyAt(be) + 2, NumberAt(KeyAt(be))) = v.items[q].key
        /\ carry_length(be, ValuePlace(v, p, q)) \in Int
        /\ carry_length(be, ValuePlace(v, p, q)) > 0
        /\ ValuePlace(v, p, q) + carry_length(be, ValuePlace(v, p, q)) >= Len(text)
    BY <1>3, <2>1, <2>2, <2>3, ToEntry, Zenon DEF be
  <2>5. Position = ValuePlace(v, p, q)
    BY <2>4, Zenon DEF Position, be
  <2>6. v.type = "d" => KeyNow = v.items[q].key
    BY <1>3, <2>4, Zenon DEF KeyNow, be
  <2>7. c \in Contents
    BY <1>4, <2>1, Zenon
  <2>8. Spelt(Encode[c], ValuePlace(v, p, q)) /\ ValuePlace(v, p, q) \in Nat
    BY <1>3, <2>1, <2>2, EntrySpelt, Sizes DEF ValuePlace
  <2>9. Position # Abort
    BY <2>5, <2>8 DEF Abort
  <2>10. AtEntry(w)
    BY <2>2, <2>4, <2>5, <2>6, <2>7, <2>8, <2>9, Zenon DEF AtEntry, Readable, be, v, p, d, q
  <2> QED
    BY <1>2, <1>4, <1>5, <2>1, <2>10, Zenon DEF v, p, d, w
<1>8. CASE d = Len(v.items)
  <2>1. Spelt(Encode[v], p)
    BY <1>3, <1>4, <1>8 DEF Waits
  <2>2. Over(be, v, p, Len(v.items))
    BY <1>6, <1>8, Zenon
  <2>3. ~HasNext(Top) /\ be.str # NullPtr /\ EndOf(be) = p + Len(Encode[v])
    BY <1>3, <2>1, <2>2, AtEnd DEF be
  <2>4. AtTheEnd(w)
    BY <1>8, <2>3, Zenon DEF AtTheEnd, be, v, p, d
  <2> QED
    BY <1>2, <1>4, <1>5, <2>4, Zenon DEF v, p, d, w
<1> QED
  BY <1>7, <1>8

(* No assert fails inside of what was sent. *)
LEMMA InsideGoesOn ==
  ASSUME NEW U, Typed(U), NEW at, Inside(stack, at)
  PROVE  ~Aborts
<1> SUFFICES ASSUME Aborts
             PROVE  FALSE
  OBVIOUS
<1> DEFINE w == at[Len(stack)]
<1>1. (w.d < Len(w.v.items) /\ AtEntry(w)) \/ AtTheEnd(w)
  BY TopInside, Zenon
<1> HIDE DEF w
<1>2. \/ HasNext(Top) /\ ~Readable
      \/ HasNext(Top) /\ Readable /\ ~Nests(Position) /\ LeafEnd(Found) = Abort
      \/ Lost
  BY Zenon DEF Aborts
<1>3. ~Lost
  <2>1. Top.be.str # NullPtr
    BY <1>1, Zenon DEF AtEntry, AtTheEnd, HasNext
  <2> QED
    BY <2>1, Zenon DEF Lost
<1>4. CASE AtTheEnd(w)
  BY <1>2, <1>3, <1>4, Zenon DEF AtTheEnd
<1>5. CASE AtEntry(w)
  <2> DEFINE c == Item(w.v, w.d + 1)
             n == carry_length(Top.be, Position)
  <2>1. /\ HasNext(Top) /\ Readable /\ c \in Contents /\ Spelt(Encode[c], Position)
        /\ n \in Int /\ n > 0 /\ Position + n >= Len(text)
    BY <1>5, Zenon DEF AtEntry
  <2>2. ~Nests(Position) /\ LeafEnd(Found) = Abort
    BY <1>2, <1>3, <2>1, Zenon
  <2> HIDE DEF c, n
  <2>3. ~IsNested(c)
    BY <2>1, <2>2, NestedRead, Zenon
  <2>4. LeafEnd(Cursor(Position, n)) = Position + Len(Encode[c])
    BY <2>1, <2>3, LeafRead
  <2>5. Position \in Nat \ {0} /\ Len(Encode[c]) \in Nat
    BY <2>1, FirstSymbol, Zenon
  <2>6. LeafEnd(Found) = Position + Len(Encode[c])
    BY <2>4, Zenon DEF Found, n
  <2> QED
    BY <2>2, <2>5, <2>6 DEF Abort
<1> QED
  BY <1>1, <1>4, <1>5

(* What is kept stays. *)
LEMMA PastOn ==
  ASSUME NEW U, NEW s \in Seq(Frames(U)), NEW s2, NEW k, NEW e, NEW x, NEW y, Past(s),
         Turned(s, s2, k, e, x, y), x = s[k].items \/ \E z : x = Append(s[k].items, z)
  PROVE  Past(s2)
<1>1. Changes(s, s2, k) /\ s2[k].items = x
  BY Zenon DEF Turned
<1>2. k \in 1..Len(s) /\ \A n \in 1..(k - 1) : s2[n] = s[n]
  BY <1>1, Zenon DEF Changes
<1>3. Len(s) \in Nat /\ DOMAIN s = 1..Len(s) /\ \A n \in DOMAIN s : s[n] \in Frames(U)
  BY Elements, Zenon
<1> DEFINE l == Len(s)
<1> HIDE DEF l
<1>4. l \in Nat /\ k \in 1..l /\ 1 \in 1..l
  BY <1>2, <1>3 DEF l
<1>5. s[k].items \in Seq(U)
  BY <1>3, <1>4, FrameHas, Zenon DEF l
<1>6. ~Complete /\ HasWhole(s[1].items)
  BY Zenon DEF Past
<1>7. HasWhole(s2[1].items)
  <2>1. CASE k # 1
    <3>1. 1 \in 1..(k - 1)
      BY <1>4, <2>1
    <3> QED
      BY <1>2, <1>6, <3>1, Zenon
  <2>2. CASE k = 1
    <3> DEFINE i0 == s[1].items
    <3>1. CASE x = i0
      BY <1>1, <1>6, <2>2, <3>1, Zenon
    <3>2. CASE x # i0
      <4>1. PICK z : x = Append(i0, z)
        BY <2>2, <3>2, Zenon
      <4>2. i0 \in Seq(U)
        BY <1>5, <2>2, Zenon
      <4> HIDE DEF i0
      <4>3. \A n \in DOMAIN i0 : n \in DOMAIN x /\ x[n] = i0[n]
        BY <4>1, <4>2
      <4>4. HasWhole(i0)
        BY <1>6, Zenon DEF i0
      <4>5. HasWhole(x)
        BY <4>3, <4>4, Zenon DEF HasWhole
      <4> QED
        BY <1>1, <2>2, <4>5, Zenon
    <3> QED
      BY <3>1, <3>2
  <2> QED
    BY <2>1, <2>2
<1> QED
  BY <1>6, <1>7, Zenon DEF Past

(* Each step keeps what the stack has. *)

LEMMA PassLeafKeeps ==
  ASSUME NEW U, Stacks(U), TextIs, PassLeaf, Content(stack)
  PROVE  Content(stack')
<1> DEFINE l == Len(stack)
           end == LeafEnd(Found)
           g == stack'[l]
           taken == end # NullPtr /\ Retains(Top, Position)
           it == IF taken THEN Added(Top, Top.items, KeyNow, Leaf(Position)) ELSE Top.items
<1>1. Typed(U) /\ Standing(stack)
  BY Zenon DEF Stacks
<1>2. /\ l \in Nat \ {0} /\ l \in 1..l /\ Top = stack[l] /\ Top \in Frames(U)
      /\ stack \in Seq(Frames(U))
  BY <1>1, TopIs, Zenon DEF Typed
<1>3. /\ HasNext(Top) /\ ~Nests(Position) /\ Len(stack') = l /\ Changes(stack, stack', l)
      /\ g.be.str = end /\ g.items = it
  BY <1>1, PassLeafDoes, Zenon
<1>4. CASE Past(stack)
  <2>1. Turned(stack, stack', l, end, it, g.key)
    BY <1>3, Zenon DEF Turned
  <2>2. it = stack[l].items \/ \E z : it = Append(stack[l].items, z)
    BY <1>2, Zenon DEF Added
  <2> HIDE DEF it, end, g, l
  <2>3. Past(stack')
    BY <1>2, <1>4, <2>1, <2>2, PastOn, Zenon
  <2> QED
    BY <2>3, Zenon DEF Content
<1>5. ASSUME NEW at, Inside(stack, at)
      PROVE  Content(stack')
  <2> DEFINE w == at[l]
             v == w.v
             p == w.p
             d == w.d
             q == d + 1
             c == Item(v, q)
             n == carry_length(Top.be, Position)
             x == [v |-> v, p |-> p, d |-> q]
  <2>1. /\ Lies(Top, w) /\ Len(v.items) \in Nat /\ d \in Nat
        /\ d < Len(v.items) /\ AtEntry(w)
    BY <1>1, <1>3, <1>5, TopInside, Zenon DEF AtTheEnd
  <2>2. /\ v \in Contents /\ IsNested(v) /\ p \in Nat \ {0} /\ d \in 0..Len(v.items)
        /\ Top.type = v.type /\ Top.be.start = p /\ Top.be.len \in Int
        /\ p + Top.be.len >= Len(text)
        /\ Top.mode = "read" => Top.items = KeptUpto(v, d)
    BY <2>1, Zenon DEF Lies
  <2>3. /\ Position = ValuePlace(v, p, q) /\ (v.type = "d" => KeyNow = v.items[q].key)
        /\ c \in Contents /\ Spelt(Encode[c], Position) /\ Spelt(Upto(v, q), p)
        /\ n \in Int /\ n > 0 /\ Position + n >= Len(text)
    BY <2>1, Zenon DEF AtEntry
  <2> HIDE DEF c, n
  <2>4. ~IsNested(c)
    BY <1>3, <2>3, NestedRead, Zenon
  <2>5. /\ Symbol(Position) # "d" /\ (is_string(Position) <=> c.type = "s")
        /\ Leaf(Position) = c /\ LeafEnd(Cursor(Position, n)) = Position + Len(Encode[c])
    BY <2>3, <2>4, LeafRead
  <2>6. q \in 1..Len(v.items) /\ q \in 0..Len(v.items) /\ q # 0
    BY <2>1
  <2>7. end = Place(v, p, q) /\ Place(v, p, q) \in Nat \ {0}
    <3>1. end = Position + Len(Encode[c])
      BY <2>5, Zenon DEF Found, n
    <3> HIDE DEF end, v, p, q
    <3>2. /\ ValuePlace(v, p, q) + Len(Encode[c]) = p + Len(Upto(v, q))
          /\ Place(v, p, q) = p + Len(Upto(v, q)) /\ p \in Nat \ {0}
      BY <2>2, <2>3, <2>6, Sizes, Zenon DEF c
    <3>3. Len(Upto(v, q)) \in Nat
      BY <2>2, <2>6, UptoGrows, Zenon
    <3>4. end = Place(v, p, q)
      BY <2>3, <3>1, <3>2, Zenon
    <3> QED
      BY <3>2, <3>3, <3>4
  <2>8. end # NullPtr
    <3> HIDE DEF end
    <3> QED
      BY <2>7 DEF NullPtr
  <2>9. Top.mode = "read" => it = KeptUpto(v, q)
    <3> SUFFICES ASSUME Top.mode = "read"
                 PROVE  it = KeptUpto(v, q)
      OBVIOUS
    <3> DEFINE u == KeptUpto(v, d)
    <3>1. KeptUpto(v, q) =
            IF v.type = "d" THEN Append(u, KeyVal(CString(v.items[q].key), Mapped[c]))
            ELSE IF c.type \in {"d", "s"} THEN Append(u, Mapped[c])
            ELSE u
      BY <2>1, <2>2, KeptMore, Zenon DEF c
    <3>2. c.type \in {"i", "s"}
      BY <2>3, <2>4, Forms DEF IsNested
    <3>3. Mapped[c] = c
      <4>1. Mapped[c] = Body(2, c, Mapped)
        BY <2>3, MappedIs, Zenon
      <4>2. 2 # 1
        OBVIOUS
      <4> QED
        BY <3>2, <4>1, <4>2, Zenon DEF Body
    <3>4. taken <=> v.type = "d" \/ c.type = "s"
      BY <2>2, <2>5, <2>8, Zenon DEF Retains
    <3> HIDE DEF taken, u, v, p, d, q
    <3>5. CASE v.type = "d"
      <4>1. it = Append(u, KeyVal(CString(v.items[q].key), c))
        BY <2>2, <2>3, <2>5, <3>4, <3>5, Zenon DEF Added, u
      <4> QED
        BY <3>1, <3>3, <3>5, <4>1, Zenon
    <3>6. CASE v.type # "d" /\ c.type = "s"
      <4>1. it = Append(u, c)
        BY <2>2, <2>5, <3>4, <3>6, Zenon DEF Added, u
      <4>2. c.type \in {"d", "s"}
        BY <3>6
      <4> QED
        BY <3>1, <3>3, <3>6, <4>1, <4>2, Zenon
    <3>7. CASE v.type # "d" /\ c.type # "s"
      <4>1. it = u
        BY <2>2, <3>4, <3>7, Zenon DEF u
      <4>2. c.type \notin {"d", "s"}
        BY <3>2, <3>7
      <4> QED
        BY <3>1, <3>7, <4>1, <4>2, Zenon
    <3> QED
      BY <3>5, <3>6, <3>7
  <2>10. Waits(v, p, q) \/ Past(stack')
    <3>1. ASSUME l = 1
          PROVE  stack'[1].items = KeptUpto(dict, q)
      <4>1. Top.mode = "read"
        BY <1>1, <1>2, <3>1, Zenon DEF Standing
      <4>2. v = dict
        BY <1>5, <3>1, Zenon DEF Inside
      <4> QED
        BY <1>3, <2>9, <3>1, <4>1, <4>2, Zenon
    <3>2. l \in 1..Len(stack) /\ Len(stack) \in Nat
      BY <1>2
    <3> HIDE DEF q, l
    <3> QED
      BY <1>5, <2>6, <3>1, <3>2, NextReady
  <2>11. ASSUME Waits(v, p, q)
         PROVE  \E b : Inside(stack', b)
    <3>1. /\ g.mode = Top.mode /\ g.type = Top.type /\ g.be.start = Top.be.start
          /\ g.be.len = Top.be.len
      BY <1>2, <1>3, Zenon DEF Changes
    <3> HIDE DEF g, it, v, p, d, q
    <3>2. x.v = v /\ x.p = p /\ x.d = q
      OBVIOUS
    <3> HIDE DEF x
    <3>3. Lies(g, x)
      BY <1>3, <2>2, <2>6, <2>9, <2>11, <3>1, <3>2, Zenon DEF Lies
    <3>4. Ends(g, x)
      BY <1>3, <2>7, <3>2, Zenon DEF Ends
    <3>5. Len(stack') # l + 1 /\ l \in Nat
      <4> HIDE DEF l
      <4> QED
        BY <1>2, <1>3
    <3>6. Follows(stack, stack', l, at, x, x)
      BY <1>3, <1>5, <3>2, <3>3, <3>4, <3>5, Zenon DEF Follows, g, v, p
    <3> QED
      BY <3>6, Rebuilt, Zenon
  <2> QED
    BY <2>10, <2>11, Zenon DEF Content
<1> QED
  BY <1>4, <1>5, Zenon DEF Content

LEMMA EnterKeeps ==
  ASSUME NEW U, Stacks(U), TextIs, Enter, Content(stack)
  PROVE  Content(stack')
<1> DEFINE l == Len(stack)
           f == stack'[l]
           g == stack'[l + 1]
<1>1. Typed(U) /\ Standing(stack)
  BY Zenon DEF Stacks
<1>2. /\ l \in Nat \ {0} /\ l \in 1..l /\ Top = stack[l] /\ Top \in Frames(U)
      /\ stack \in Seq(Frames(U))
  BY <1>1, TopIs, Zenon DEF Typed
<1>3. /\ HasNext(Top) /\ Nests(Position) /\ Len(stack') = l + 1
      /\ Turned(stack, stack', l, Top.be.str, Top.items, KeyNow)
      /\ g = Frame("skip", Symbol(Position), Found)
  BY <1>1, EnterDoes, Zenon
<1>4. CASE Past(stack)
  <2>1. Past(stack')
    BY <1>2, <1>3, <1>4, PastOn, Zenon
  <2> QED
    BY <2>1, Zenon DEF Content
<1>5. ASSUME NEW at, Inside(stack, at)
      PROVE  Content(stack')
  <2> DEFINE w == at[l]
             v == w.v
             p == w.p
             d == w.d
             q == d + 1
             c == Item(v, q)
             n == carry_length(Top.be, Position)
             y == [v |-> c, p |-> Position, d |-> 0]
  <2>1. /\ Lies(Top, w) /\ Len(v.items) \in Nat /\ d \in Nat
        /\ d < Len(v.items) /\ AtEntry(w) /\ Ends(Top, w)
    BY <1>1, <1>3, <1>5, TopInside, Zenon DEF AtTheEnd
  <2>2. /\ Position = ValuePlace(v, p, q) /\ (v.type = "d" => KeyNow = v.items[q].key)
        /\ c \in Contents /\ Spelt(Encode[c], Position)
        /\ n \in Int /\ n > 0 /\ Position + n >= Len(text)
    BY <2>1, Zenon DEF AtEntry
  <2>3. /\ Changes(stack, stack', l) /\ f.be.str = Top.be.str /\ f.items = Top.items
        /\ f.key = KeyNow
        /\ f.mode = Top.mode /\ f.type = Top.type /\ f.be.start = Top.be.start
        /\ f.be.len = Top.be.len
    BY <1>2, <1>3, Zenon DEF Turned, Changes
  <2>4. /\ g.mode = "skip" /\ g.type = Symbol(Position) /\ g.be.start = Position
        /\ g.be.str = Position /\ g.be.len = n
    <3>1. Fresh(g, "skip", Symbol(Position), Position, n)
      BY <1>3, Zenon DEF Found, Fresh
    <3> HIDE DEF g, n
    <3> QED
      BY <3>1, FrameFields
  <2> HIDE DEF c, n, f, g
  <2>5. IsNested(c)
    <3>1. ~IsNested(c) => ~Nests(Position)
      BY <2>2, LeafRead
    <3> QED
      BY <1>3, <3>1, Zenon
  <2>6. Symbol(Position) = c.type
    BY <2>2, <2>5, NestedRead, Zenon
  <2>7. Position \in Nat \ {0}
    BY <2>2, FirstSymbol, Zenon
  <2>8. y.v = c /\ y.p = Position /\ y.d = 0
    OBVIOUS
  <2> HIDE DEF y
  <2>9. Lies(f, w)
    BY <2>1, <2>3, Zenon DEF Lies
  <2>10. Lies(g, y) /\ Ends(g, y)
    <3>1. 0 \in 0..Len(c.items)
      BY <2>2, <2>5, Items
    <3>2. Waits(c, Position, 0)
      BY <2>2, <2>5, <3>1, WholeIsReady, Zenon
    <3>3. g.mode # "read"
      BY <2>4
    <3>4. Position + g.be.len >= Len(text) /\ g.be.len \in Int
      BY <2>2, <2>4, Zenon
    <3>5. Lies(g, y)
      BY <2>2, <2>4, <2>5, <2>6, <2>7, <2>8, <3>1, <3>2, <3>3, <3>4, Zenon DEF Lies
    <3>6. Ends(g, y)
      BY <2>4, <2>8 DEF Ends, Place
    <3> QED
      BY <3>5, <3>6
  <2>11. Carries(f, w, g, y)
    <3>1. g.mode # "read"
      BY <2>4
    <3>2. f.be.str = Place(v, p, d)
      BY <2>1, <2>3, Zenon DEF Ends
    <3> QED
      BY <2>1, <2>2, <2>3, <2>8, <3>1, <3>2, Zenon DEF Carries, c
  <2>12. Len(stack') # l /\ l \in Nat
    <3> HIDE DEF l
    <3> QED
      BY <1>2, <1>3
  <2>13. \E b : Inside(stack', b)
    <3>1. Follows(stack, stack', l, at, w, y)
      BY <1>5, <2>3, <2>9, <2>10, <2>11, <2>12, Zenon DEF Follows, f, g
    <3> QED
      BY <3>1, Rebuilt, Zenon
  <2> QED
    BY <2>13, Zenon DEF Content
<1> QED
  BY <1>4, <1>5, Zenon DEF Content

(* The frame below the top and the one at the top. *)
LEMMA BelowTop ==
  ASSUME NEW U, Stacks(U), NEW at, Inside(stack, at), Len(stack) # 1
  PROVE  LET n == Len(stack) - 1
             w == at[Len(stack)]
             z == at[n]
         IN /\ n \in 1..Len(stack) /\ n + 1 = Len(stack) /\ Len(stack) \in Nat
            /\ stack[n] \in Frames(U)
            /\ Lies(stack[n], z) /\ Carries(stack[n], z, Top, w)
            /\ Spelt(Encode[w.v], w.p)
            /\ z.d + 1 \in 0..Len(z.v.items) /\ z.d + 1 \in 1..Len(z.v.items)
            /\ Place(z.v, z.p, z.d + 1) = w.p + Len(Encode[w.v])
            /\ Place(z.v, z.p, z.d + 1) \in Nat \ {0}
<1> DEFINE l == Len(stack)
           n == l - 1
           w == at[l]
           z == at[n]
           q == z.d + 1
<1>1. Typed(U) /\ Standing(stack)
  BY Zenon DEF Stacks
<1>2. l \in Nat \ {0} /\ Top = stack[l] /\ l \in 1..l
  BY <1>1, TopIs, Zenon
<1>3. n \in 1..l /\ n + 1 = l /\ stack[n] \in Frames(U)
  BY <1>1, TopStands, Zenon
<1>4. Lies(stack[n], z) /\ Carries(stack[n], z, Top, w)
  <2>1. n + 1 <= l
    BY <1>2, <1>3
  <2>2. Lies(stack[n], z) /\ Carries(stack[n], z, stack[n + 1], at[n + 1])
    BY <1>3, <2>1, Zenon DEF Inside
  <2> QED
    BY <1>2, <1>3, <2>2, Zenon
<1>5. Spelt(Encode[w.v], w.p)
  <2>1. l \in Nat /\ l \in 1..l /\ l # 1
    BY <1>2
  <2> QED
    BY <2>1, IsSpelt, Zenon
<1> HIDE DEF l, n, w, z
<1>6. /\ z.v \in Contents /\ IsNested(z.v) /\ z.d \in 0..Len(z.v.items)
      /\ z.d < Len(z.v.items) /\ w.v = Item(z.v, q) /\ w.p = ValuePlace(z.v, z.p, q)
      /\ Waits(z.v, z.p, z.d)
  BY <1>4, Zenon DEF Lies, Carries
<1>7. Len(z.v.items) \in Nat
  BY <1>6, Items
<1>8. q \in 1..Len(z.v.items) /\ q \in 0..Len(z.v.items) /\ z.d # Len(z.v.items)
  BY <1>6, <1>7
<1>9. Spelt(Upto(z.v, q), z.p)
  BY <1>6, <1>8, Zenon DEF Waits
<1> HIDE DEF q
<1>10. Place(z.v, z.p, q) = w.p + Len(Encode[w.v]) /\ Place(z.v, z.p, q) \in Nat \ {0}
  <2> DEFINE v == z.v
             p == z.p
  <2>1. v \in Contents /\ IsNested(v) /\ q \in 1..Len(v.items) /\ Spelt(Upto(v, q), p)
    BY <1>6, <1>8, <1>9, Zenon
  <2> HIDE DEF v, p
  <2>2. /\ ValuePlace(v, p, q) + Len(Encode[Item(v, q)]) = p + Len(Upto(v, q))
        /\ Place(v, p, q) = p + Len(Upto(v, q)) /\ p \in Nat \ {0}
    BY <2>1, Sizes
  <2>3. Len(Upto(v, q)) \in Nat
    <3>1. q \in 0..Len(v.items)
      BY <1>8, Zenon DEF v
    <3> QED
      BY <2>1, <3>1, UptoGrows, Zenon
  <2>4. Place(v, p, q) = ValuePlace(v, p, q) + Len(Encode[Item(v, q)])
    BY <2>2, Zenon
  <2>5. Place(v, p, q) \in Nat \ {0}
    BY <2>2, <2>3
  <2> QED
    BY <1>6, <2>4, <2>5, Zenon DEF v, p
<1> QED
  BY <1>2, <1>3, <1>4, <1>5, <1>8, <1>10, Zenon DEF l, n, w, z, q

LEMMA SkippedKeeps ==
  ASSUME NEW U, Stacks(U), TextIs, Skipped, Content(stack)
  PROVE  Content(stack')
<1> DEFINE l == Len(stack)
           n == l - 1
           end == EndOf(Top.be)
           f == stack'[n]
           g == stack'[n + 1]
           f0 == stack[n]
           kept == end # NullPtr /\ Retains(f0, Top.be.start)
<1>1. Typed(U) /\ Standing(stack) /\ l # 1 /\ stack \in Seq(Frames(U))
  BY SkippedStands, Zenon DEF Stacks, Typed
<1>2. /\ Top.mode = "skip" /\ ~HasNext(Top)
      /\ Turned(stack, stack', n, end, f0.items, f0.key)
      /\ IF kept
         THEN /\ Len(stack') = n + 1
              /\ g = Frame("read", Top.type, Cursor(Top.be.start, Top.be.len))
         ELSE Len(stack') = n
  BY <1>1, SkippedDoes, Zenon
<1>3. CASE Past(stack)
  <2> DEFINE x == f0.items
  <2>1. x = stack[n].items \/ \E z : x = Append(stack[n].items, z)
    OBVIOUS
  <2>2. Turned(stack, stack', n, end, x, f0.key)
    BY <1>2, Zenon
  <2> HIDE DEF x, n, end, f0
  <2>3. Past(stack')
    BY <1>1, <1>3, <2>1, <2>2, PastOn, Zenon
  <2> QED
    BY <2>3, Zenon DEF Content
<1>4. ASSUME NEW at, Inside(stack, at)
      PROVE  Content(stack')
  <2> DEFINE w == at[l]
             z == at[n]
             v == z.v
             q == z.d + 1
             c == w.v
  <2>1. Lies(Top, w) /\ Ends(Top, w) /\ AtTheEnd(w)
    BY <1>1, <1>2, <1>4, TopInside, Zenon DEF AtEntry
  <2>2. /\ n \in 1..l /\ n + 1 = l /\ l \in Nat /\ f0 \in Frames(U)
        /\ Lies(f0, z) /\ Carries(f0, z, Top, w) /\ Spelt(Encode[c], w.p)
        /\ q \in 0..Len(v.items) /\ q \in 1..Len(v.items)
        /\ Place(v, z.p, q) = w.p + Len(Encode[c]) /\ Place(v, z.p, q) \in Nat \ {0}
    BY <1>1, <1>4, BelowTop, Zenon
  <2>3. /\ Changes(stack, stack', n) /\ f.be.str = end /\ f.items = f0.items
        /\ f.key = f0.key /\ f.mode = f0.mode /\ f.type = f0.type
        /\ f.be.start = f0.be.start /\ f.be.len = f0.be.len
    BY <1>2, Zenon DEF Turned, Changes
  <2> HIDE DEF w, z, l
  <2>4. end = Place(v, z.p, q) /\ end # NullPtr
    <3>1. end = w.p + Len(Encode[c])
      BY <2>1, Zenon DEF AtTheEnd
    <3> HIDE DEF end
    <3>2. end \in Nat \ {0}
      BY <2>2, <3>1, Zenon
    <3> QED
      BY <2>2, <3>1, <3>2 DEF NullPtr
  <2>5. /\ c \in Contents /\ IsNested(c) /\ w.p \in Nat \ {0} /\ Top.type = c.type
        /\ Top.be.start = w.p /\ Top.be.len \in Int /\ w.p + Top.be.len >= Len(text)
    BY <2>1, Zenon DEF Lies
  <2>6. Symbol(w.p) = c.type /\ ~is_string(w.p)
    BY <2>2, <2>5, NestedRead, Zenon
  <2>7. /\ z.d < Len(v.items) /\ c = Item(v, q) /\ w.p = ValuePlace(v, z.p, q)
        /\ (v.type = "d" => f0.key = v.items[q].key)
    BY <2>2, Zenon DEF Carries
  <2>8. /\ v \in Contents /\ IsNested(v) /\ z.p \in Nat \ {0} /\ z.d \in 0..Len(v.items)
        /\ f0.type = v.type /\ f0.be.start = z.p /\ f0.be.len \in Int
        /\ z.p + f0.be.len >= Len(text)
        /\ (f0.mode = "read" => f0.items = KeptUpto(v, z.d)) /\ Waits(v, z.p, z.d)
    BY <2>2, Zenon DEF Lies
  <2>9. kept <=> f0.mode = "read" /\ (v.type = "d" \/ c.type = "d")
    BY <2>4, <2>5, <2>6, <2>8, Zenon DEF Retains
  <2>10. CASE kept
    <3> DEFINE y == [v |-> c, p |-> w.p, d |-> 0]
    <3>1. /\ g.mode = "read" /\ g.type = c.type /\ g.be.start = w.p
          /\ g.be.str = w.p /\ g.be.len = Top.be.len /\ g.items = <<>>
      <4>1. Fresh(g, "read", c.type, w.p, Top.be.len)
        BY <1>2, <2>5, <2>10, Zenon DEF Fresh
      <4> HIDE DEF g, c
      <4> QED
        BY <4>1, FrameFields
    <3>2. y.v = c /\ y.p = w.p /\ y.d = 0
      OBVIOUS
    <3>3. Len(stack') = n + 1
      BY <1>2, <2>10, Zenon
    <3>4. n + 1 # n
      BY <2>2
    <3> HIDE DEF y, c, g, f, f0, n, kept, end
    <3>5. Lies(f, z)
      BY <2>3, <2>8, Zenon DEF Lies, v
    <3>6. Lies(g, y) /\ Ends(g, y)
      <4>1. 0 \in 0..Len(c.items) /\ KeptUpto(c, 0) = <<>>
        <5>1. KeptUpto(c, 0) = <<>>
          BY <2>5, KeptOn, Zenon
        <5>2. Len(c.items) \in Nat
          BY <2>5, Items, Zenon
        <5> QED
          BY <5>1, <5>2
      <4>2. Waits(c, w.p, 0)
        BY <2>2, <2>5, <4>1, WholeIsReady, Zenon
      <4>3. Lies(g, y)
        BY <2>5, <3>1, <3>2, <4>1, <4>2, Zenon DEF Lies
      <4>4. Ends(g, y)
        BY <3>1, <3>2 DEF Ends, Place
      <4> QED
        BY <4>3, <4>4
    <3>7. Carries(f, z, g, y)
      BY <2>3, <2>4, <2>7, <2>9, <2>10, <3>1, <3>2, Zenon DEF Carries, v, q
    <3>8. Follows(stack, stack', n, at, z, y)
      BY <1>4, <2>2, <2>3, <3>3, <3>4, <3>5, <3>6, <3>7, Zenon DEF Follows, f, g, z, l
    <3>9. \E b : Inside(stack', b)
      BY <3>8, Rebuilt, Zenon
    <3> QED
      BY <3>9, Zenon DEF Content
  <2>11. CASE ~kept
    <3> DEFINE x == [v |-> v, p |-> z.p, d |-> q]
    <3>1. Len(stack') = n /\ n + 1 # n
      <4>1. Len(stack') = n
        BY <1>2, <2>11, Zenon
      <4>2. n + 1 # n
        BY <2>2
      <4> QED
        BY <4>1, <4>2
    <3>2. f0.mode = "read" => f0.items = KeptUpto(v, q)
      <4> SUFFICES ASSUME f0.mode = "read"
                   PROVE  f0.items = KeptUpto(v, q)
        OBVIOUS
      <4> DEFINE u == KeptUpto(v, z.d)
      <4>1. KeptUpto(v, q) =
              IF v.type = "d" THEN Append(u, KeyVal(CString(v.items[q].key), Mapped[c]))
              ELSE IF c.type \in {"d", "s"} THEN Append(u, Mapped[c])
              ELSE u
        BY <2>7, <2>8, KeptMore, Zenon
      <4>2. v.type # "d" /\ c.type # "d"
        BY <2>9, <2>11, Zenon
      <4> HIDE DEF u, v, c
      <4>3. c.type \notin {"d", "s"}
        BY <2>5, <4>2 DEF IsNested
      <4> QED
        BY <2>8, <4>1, <4>2, <4>3, Zenon DEF u
    <3>3. Waits(v, z.p, q) \/ Past(stack')
      <4>1. ASSUME n = 1
            PROVE  stack'[1].items = KeptUpto(dict, q)
        <5>1. f0.mode = "read"
          BY <1>1, <4>1, Zenon DEF Standing
        <5>2. v = dict
          BY <1>4, <4>1, Zenon DEF Inside, z
        <5> QED
          BY <2>3, <3>2, <4>1, <5>1, <5>2, Zenon
      <4>2. n \in 1..Len(stack) /\ Len(stack) \in Nat
        BY <2>2, Zenon DEF l
      <4> HIDE DEF n, q
      <4> QED
        BY <1>4, <2>2, <4>1, <4>2, NextReady DEF z
    <3>4. ASSUME Waits(v, z.p, q)
          PROVE  \E b : Inside(stack', b)
      <4>1. x.v = v /\ x.p = z.p /\ x.d = q
        OBVIOUS
      <4> HIDE DEF x, c, g, f, f0, n, kept, end, v, q
      <4>2. Lies(f, x)
        BY <2>2, <2>3, <2>8, <3>2, <3>4, <4>1, Zenon DEF Lies
      <4>3. Ends(f, x)
        BY <2>3, <2>4, <4>1, Zenon DEF Ends
      <4>4. Follows(stack, stack', n, at, x, x)
        BY <1>4, <2>2, <2>3, <3>1, <4>1, <4>2, <4>3, Zenon DEF Follows, f, z, l, v
      <4> QED
        BY <4>4, Rebuilt, Zenon
    <3> QED
      BY <3>3, <3>4, Zenon DEF Content
  <2> QED
    BY <2>10, <2>11
<1> QED
  BY <1>3, <1>4, Zenon DEF Content

(* A value that has been read is what is kept of it. *)
LEMMA ReadIs ==
  ASSUME NEW U, Stacks(U), NEW at, Inside(stack, at), Top.mode = "read", ~HasNext(Top)
  PROVE  LET w == at[Len(stack)]
         IN w.v \in Contents /\ IsNested(w.v)
            /\ Holding(Top.type, Top.items) = Mapped[w.v]
<1> DEFINE w == at[Len(stack)]
           v == w.v
<1>1. Typed(U)
  BY Zenon DEF Stacks
<1>2. Lies(Top, w) /\ AtTheEnd(w)
  BY <1>1, TopInside, Zenon DEF AtEntry
<1>3. /\ v \in Contents /\ IsNested(v) /\ Top.type = v.type
      /\ Top.items = KeptUpto(v, Len(v.items))
  BY <1>2, Zenon DEF Lies, AtTheEnd
<1>4. Mapped[v] = Holding(v.type, KeptUpto(v, Len(v.items)))
  BY <1>3, KeptOn, Zenon
<1> QED
  BY <1>3, <1>4, Zenon

LEMMA ReturnKeeps ==
  ASSUME NEW U, Stacks(U), TextIs, Return, Content(stack), Len(stack) # 1
  PROVE  Content(stack')
<1> DEFINE l == Len(stack)
           n == l - 1
           f == stack'[n]
           f0 == stack[n]
           r == Holding(Top.type, Top.items)
           it == Added(f0, f0.items, f0.key, r)
<1>1. Typed(U) /\ Standing(stack) /\ stack \in Seq(Frames(U))
  BY Zenon DEF Stacks, Typed
<1>2. /\ Top.mode = "read" /\ ~HasNext(Top) /\ n \in 1..l /\ Len(stack') = n
      /\ Turned(stack, stack', n, f0.be.str, it, f0.key)
  <2>1. /\ Top.mode = "read" /\ ~HasNext(Top)
        /\ \/ n = 0
           \/ /\ n \in 1..l /\ Len(stack') = n
              /\ Turned(stack, stack', n, f0.be.str, it, f0.key)
    BY <1>1, ReturnDoes, Zenon
  <2>2. n # 0
    <3>1. l \in Nat /\ l # 1
      BY <1>1, TopIs
    <3> HIDE DEF l
    <3> QED
      BY <3>1
  <2> QED
    BY <2>1, <2>2, Zenon
<1>3. CASE Past(stack)
  <2>1. it = stack[n].items \/ \E z : it = Append(stack[n].items, z)
    BY Zenon DEF Added
  <2> DEFINE e == f0.be.str
  <2>2. Turned(stack, stack', n, e, it, f0.key)
    BY <1>2, Zenon
  <2> HIDE DEF it, n, f0, e
  <2>3. Past(stack')
    BY <1>1, <1>3, <2>1, <2>2, PastOn, Zenon
  <2> QED
    BY <2>3, Zenon DEF Content
<1>4. ASSUME NEW at, Inside(stack, at)
      PROVE  Content(stack')
  <2> DEFINE w == at[l]
             z == at[n]
             v == z.v
             q == z.d + 1
             c == w.v
  <2>1. r = Mapped[c] /\ c \in Contents /\ IsNested(c)
    BY <1>2, <1>4, ReadIs, Zenon
  <2>2. /\ n \in 1..l /\ n + 1 = l /\ l \in Nat
        /\ Lies(f0, z) /\ Carries(f0, z, Top, w)
        /\ q \in 0..Len(v.items) /\ q \in 1..Len(v.items)
    BY <1>4, BelowTop, Zenon
  <2>3. /\ Changes(stack, stack', n) /\ f.be.str = f0.be.str /\ f.items = it
        /\ f.key = f0.key /\ f.mode = f0.mode /\ f.type = f0.type
        /\ f.be.start = f0.be.start /\ f.be.len = f0.be.len
    BY <1>2, Zenon DEF Turned, Changes
  <2> HIDE DEF w, z, l, r
  <2>4. /\ z.d < Len(v.items) /\ c = Item(v, q)
        /\ (v.type = "d" => f0.key = v.items[q].key)
        /\ f0.mode = "read" /\ (v.type = "d" \/ c.type = "d")
        /\ f0.be.str = Place(v, z.p, q)
    BY <1>2, <2>2, Zenon DEF Carries
  <2>5. /\ v \in Contents /\ IsNested(v) /\ z.p \in Nat \ {0} /\ z.d \in 0..Len(v.items)
        /\ f0.type = v.type /\ f0.be.start = z.p /\ f0.be.len \in Int
        /\ z.p + f0.be.len >= Len(text)
        /\ f0.items = KeptUpto(v, z.d)
    BY <2>2, <2>4, Zenon DEF Lies
  <2>6. it = KeptUpto(v, q)
    <3> DEFINE u == KeptUpto(v, z.d)
    <3>1. KeptUpto(v, q) =
            IF v.type = "d" THEN Append(u, KeyVal(CString(v.items[q].key), Mapped[c]))
            ELSE IF c.type \in {"d", "s"} THEN Append(u, Mapped[c])
            ELSE u
      BY <2>4, <2>5, KeptMore, Zenon
    <3>2. it = Append(u, IF v.type = "d" THEN KeyVal(CString(f0.key), Mapped[c]) ELSE Mapped[c])
      BY <2>1, <2>5, Zenon DEF Added
    <3> HIDE DEF u, v, c, it, q
    <3>3. CASE v.type = "d"
      BY <2>4, <3>1, <3>2, <3>3, Zenon
    <3>4. CASE v.type # "d"
      <4>1. c.type \in {"d", "s"}
        BY <2>4, <3>4
      <4> QED
        BY <3>1, <3>2, <3>4, <4>1, Zenon
    <3> QED
      BY <3>3, <3>4
  <2>7. Len(stack') = n /\ n + 1 # n
    <3>1. n + 1 # n
      BY <2>2
    <3> QED
      BY <1>2, <3>1
  <2>8. Waits(v, z.p, q) \/ Past(stack')
    <3>1. ASSUME n = 1
          PROVE  stack'[1].items = KeptUpto(dict, q)
      <4>1. v = dict
        BY <1>4, <3>1, Zenon DEF Inside, z
      <4> QED
        BY <2>3, <2>6, <3>1, <4>1, Zenon
    <3>2. n \in 1..Len(stack) /\ Len(stack) \in Nat
      BY <2>2, Zenon DEF l
    <3> HIDE DEF n, q
    <3> QED
      BY <1>4, <2>2, <3>1, <3>2, NextReady DEF z
  <2>9. ASSUME Waits(v, z.p, q)
        PROVE  \E b : Inside(stack', b)
    <3> DEFINE x == [v |-> v, p |-> z.p, d |-> q]
    <3>1. x.v = v /\ x.p = z.p /\ x.d = q
      OBVIOUS
    <3> HIDE DEF x, c, f, f0, n, it, v, q
    <3>2. Lies(f, x)
      BY <2>2, <2>3, <2>5, <2>6, <2>9, <3>1, Zenon DEF Lies
    <3>3. Ends(f, x)
      BY <2>3, <2>4, <3>1, Zenon DEF Ends
    <3>4. Follows(stack, stack', n, at, x, x)
      BY <1>4, <2>2, <2>3, <2>7, <3>1, <3>2, <3>3, Zenon DEF Follows, f, z, l, v
    <3> QED
      BY <3>4, Rebuilt, Zenon
  <2> QED
    BY <2>8, <2>9, Zenon DEF Content
<1> QED
  BY <1>3, <1>4, Zenon DEF Content

(* What a map holds of what it was given: all that is in front of the pair that
   takes the last slot, and that pair.                                       *)
FullAt(s, n) == Cardinality(Occupied(s, n)) = MapSlots

HeldUpto(s, k) ==
  /\ k \in 0..Len(s) /\ Len(Stored(s)) = k /\ DOMAIN Stored(s) = 1..k
  /\ \A n \in 1..k : Stored(s)[n] = s[n]
  /\ \A n \in 1..(k - 1) : ~FullAt(s, n)
  /\ k = Len(s) \/ (k >= 1 /\ FullAt(s, k))

LEMMA StoredIs ==
  ASSUME NEW T, NEW s \in Seq(T)
  PROVE  Stored(s) \in Seq(T) /\ \E k \in Nat : HeldUpto(s, k)
<1> DEFINE full == {n \in DOMAIN s : FullAt(s, n)}
           l == Len(s)
<1>1. Stored(s) = IF full = {} THEN s ELSE SubSeq(s, 1, Sets!Min(full))
  BY Zenon DEF Stored, FullAt
<1>2. l \in Nat /\ DOMAIN s = 1..l
  OBVIOUS
<1>3. CASE full = {}
  <2>1. Stored(s) = s
    BY <1>1, <1>3, Zenon
  <2>2. \A n \in 1..(l - 1) : ~FullAt(s, n)
    <3>1. \A n \in 1..(l - 1) : n \in DOMAIN s
      BY <1>2
    <3> QED
      BY <1>3, <3>1, Zenon
  <2>3. l \in 0..l
    BY <1>2
  <2>4. HeldUpto(s, l)
    BY <1>2, <2>1, <2>2, <2>3, Zenon DEF HeldUpto
  <2> QED
    BY <1>2, <2>1, <2>4, Zenon
<1>4. CASE full # {}
  <2> DEFINE k == Sets!Min(full)
  <2>1. full \subseteq Nat
    BY <1>2
  <2>2. \E x \in full : \A y \in full : x <= y
    BY <1>4, <2>1, Least, Zenon
  <2>3. k \in full /\ \A y \in full : k <= y
    BY <2>2, Zenon DEF Sets!Min
  <2> HIDE DEF k
  <2>4. k \in 1..l /\ FullAt(s, k) /\ k \in Nat /\ k >= 1 /\ k \in 0..l
    BY <1>2, <2>3
  <2>5. Stored(s) = SubSeq(s, 1, k)
    BY <1>1, <1>4, Zenon DEF k
  <2> DEFINE z == SubSeq(s, 1, k)
  <2>6. z \in Seq(T) /\ Len(z) = k /\ \A j \in 1..k : z[j] = s[j]
    BY <2>4, OneLess DEF l
  <2> HIDE DEF z
  <2>7. DOMAIN z = 1..k
    BY <2>6
  <2>8. \A n \in 1..(k - 1) : ~FullAt(s, n)
    <3>1. ASSUME NEW n \in 1..(k - 1), FullAt(s, n)
          PROVE  FALSE
      <4>1. n \in DOMAIN s /\ ~(k <= n)
        BY <1>2, <2>4
      <4>2. n \in full
        BY <3>1, <4>1, Zenon
      <4> QED
        BY <2>3, <4>1, <4>2, Zenon
    <3> QED
      BY <3>1, Zenon
  <2>9. HeldUpto(s, k)
    BY <2>4, <2>5, <2>6, <2>7, <2>8, Zenon DEF HeldUpto, z, l
  <2> QED
    BY <2>4, <2>5, <2>6, <2>9, Zenon DEF z
<1> QED
  BY <1>3, <1>4

(* Two that are given the same keys fill up together. *)
LEMMA FullTogether ==
  ASSUME NEW s, NEW t, NEW n, \A j \in 1..n : s[j].key = t[j].key
  PROVE  FullAt(s, n) <=> FullAt(t, n)
<1>1. Occupied(s, n) = Occupied(t, n)
  BY Zenon DEF Occupied
<1> QED
  BY <1>1, Zenon DEF FullAt

LEMMA StoredAgree ==
  ASSUME NEW T, NEW s \in Seq(T), NEW t \in Seq(T), NEW n \in DOMAIN Stored(t), n <= Len(s),
         \A j \in 1..n : s[j] = t[j]
  PROVE  n \in DOMAIN Stored(s) /\ Stored(s)[n] = Stored(t)[n]
<1>1. PICK a \in Nat : HeldUpto(s, a)
  BY StoredIs, Zenon
<1>2. PICK b \in Nat : HeldUpto(t, b)
  BY StoredIs, Zenon
<1>3. n \in 1..b /\ n \in Nat /\ n >= 1 /\ Len(s) \in Nat
  <2>1. n \in 1..b
    BY <1>2, Zenon DEF HeldUpto
  <2> QED
    BY <2>1
<1>4. n <= a
  <2> SUFFICES ASSUME ~(n <= a)
               PROVE  FALSE
    OBVIOUS
  <2>2. a # Len(s)
    BY <1>3
  <2>3. a >= 1 /\ FullAt(s, a)
    BY <1>1, <2>2, Zenon DEF HeldUpto
  <2>4. a \in 1..(b - 1) /\ \A j \in 1..a : j \in 1..n
    BY <1>3, <2>3
  <2>5. FullAt(t, a)
    BY <2>3, <2>4, FullTogether, Zenon
  <2> QED
    BY <1>2, <2>4, <2>5, Zenon DEF HeldUpto
<1>5. n \in 1..a /\ n \in 1..n
  BY <1>3, <1>4
<1> QED
  BY <1>1, <1>2, <1>3, <1>5, Zenon DEF HeldUpto

(* The map of a text that was cut has the entries it has room for. *)
LEMMA WholeIsStored ==
  ASSUME TextIs, NEW U, NEW s \in Seq(U), HasWhole(s)
  PROVE  HasStored(Stored(s))
<1> DEFINE g == Given(dict)
           N == Len(dict.items)
           T == U \cup KeptOf(dict)
           G == Stored(g)
           r == Mapped[dict]
<1>1. /\ dict \in Contents /\ dict.type = "d" /\ IsNested(dict)
      /\ N \in Nat /\ DOMAIN dict.items = 1..N
  BY DictIs, UptoOn, Zenon
<1>2. N \in 0..N
  BY <1>1
<1>3. Len(g) = N /\ g \in Seq(KeptOf(dict)) /\ r = Holding(dict.type, g)
  BY <1>1, <1>2, DictKeeps, KeptOn, Zenon DEF Given
<1>4. r.items = G
  <2> HIDE DEF g, r
  <2>1. r.items = IF dict.type = "d" THEN Stored(g) ELSE g
    BY <1>3 DEF Holding
  <2> QED
    BY <1>1, <2>1, Zenon
<1>5. g \in Seq(T) /\ s \in Seq(T)
  <2>1. U \subseteq T /\ KeptOf(dict) \subseteq T
    OBVIOUS
  <2> HIDE DEF T, g
  <2> QED
    BY <1>3, <2>1, Series!SeqMonotonic
<1> HIDE DEF T, g, N, r
<1>6. PICK b \in Nat : HeldUpto(g, b)
  BY <1>5, StoredIs, Zenon
<1>7. b <= N /\ DOMAIN G = 1..b
  <2>1. b \in 0..N /\ DOMAIN G = 1..b
    BY <1>3, <1>6, Zenon DEF HeldUpto
  <2> QED
    BY <1>1, <2>1
<1> HIDE DEF G
<1>8. ASSUME NEW n \in 1..b, Len(Upto(dict, n)) <= cut
      PROVE  n \in DOMAIN Stored(s) /\ Stored(s)[n] = G[n]
  <2>1. n \in 1..N /\ n \in Nat /\ n \in 1..n /\ n \in 0..N
    BY <1>1, <1>7
  <2>2. ASSUME NEW j \in 1..n
        PROVE  j \in DOMAIN s /\ s[j] = g[j]
    <3>1. j \in 0..N /\ j <= n /\ j \in 1..N
      BY <1>1, <2>1
    <3>2. Len(Upto(dict, j)) <= Len(Upto(dict, n))
      BY <1>1, <2>1, <3>1, UptoIncreases, Zenon DEF N
    <3>3. Len(Upto(dict, j)) \in Nat /\ Len(Upto(dict, n)) \in Nat /\ cut \in Nat
      BY <1>1, <2>1, <3>1, UptoGrows, DictIs, Zenon DEF N
    <3>4. Len(Upto(dict, j)) <= cut
      BY <1>8, <3>2, <3>3
    <3> QED
      BY <1>1, <3>1, <3>4, Zenon DEF HasWhole, g
  <2>3. n <= Len(s)
    <3>1. n \in DOMAIN s
      BY <2>1, <2>2, Zenon
    <3> QED
      BY <3>1
  <2>4. n \in DOMAIN Stored(g)
    BY <1>7, Zenon DEF G
  <2> QED
    BY <1>5, <2>2, <2>3, <2>4, StoredAgree, Zenon DEF G
<1> QED
  BY <1>4, <1>7, <1>8, Zenon DEF HasStored, r

(* The map that is decoded. *)
LEMMA ReturnDecodes ==
  ASSUME NEW U, Stacks(U), TextIs, Return, Content(stack), Len(stack) = 1
  PROVE  /\ phase' = "decoded" /\ stack' = <<>> /\ UNCHANGED <<sent, printed>>
         /\ HasStored(result'.items) /\ (Complete => result' = Mapped[dict])
<1> DEFINE l == Len(stack)
           n == l - 1
           r == Holding(Top.type, Top.items)
<1>1. Typed(U) /\ Standing(stack) /\ stack \in Seq(Frames(U)) /\ Top = stack[1]
      /\ Top \in Frames(U)
  BY TopIs, Zenon DEF Stacks, Typed
<1>2. /\ Top.mode = "read" /\ ~HasNext(Top)
      /\ result' = r /\ stack' = <<>> /\ phase' = "decoded" /\ UNCHANGED <<sent, printed>>
  <2>1. ~(n \in 1..l)
    OBVIOUS
  <2> QED
    BY <1>1, <2>1, ReturnDoes, Zenon
<1>3. result'.items = Stored(Top.items)
  <2> DEFINE y == result'
             i == Stored(Top.items)
  <2>1. y = [type |-> Top.type, items |-> IF Top.type = "d" THEN i ELSE Top.items]
    BY <1>2, Zenon DEF Holding
  <2>2. Top.type = "d"
    BY <1>1, Zenon DEF Standing
  <2> HIDE DEF y, i
  <2>3. y.items = i
    BY <2>1, <2>2
  <2> QED
    BY <2>3 DEF y, i
<1>4. CASE Past(stack)
  <2>1. ~Complete /\ HasWhole(Top.items)
    BY <1>1, <1>4, Zenon DEF Past
  <2>2. Top.items \in Seq(U)
    BY <1>1, FrameHas, Zenon
  <2>3. HasStored(Stored(Top.items))
    BY <2>1, <2>2, WholeIsStored, Zenon
  <2> QED
    BY <1>2, <1>3, <2>1, <2>3, Zenon
<1>5. ASSUME NEW at, Inside(stack, at)
      PROVE  HasStored(result'.items) /\ result' = Mapped[dict]
  <2>1. at[l].v = dict
    BY <1>5, Zenon DEF Inside
  <2>2. r = Mapped[dict]
    BY <1>2, <1>5, <2>1, ReadIs, Zenon
  <2>3. result' = Mapped[dict]
    BY <1>2, <2>2, Zenon
  <2> QED
    BY <2>3, Zenon DEF HasStored
<1> QED
  BY <1>2, <1>4, <1>5, Zenon DEF Content

-----------------------------------------------------------------------------
(* The invariant of the decoder *)

LEMMA StacksOn ==
  ASSUME NEW V, text' = text, text \in Seq(Tokens), stack' \in Seq(Frames(V)), Standing(stack')
  PROVE  Stacks(V)'
<1>1. Len(stack') >= 1
  BY Zenon DEF Standing
<1>2. stack' # <<>>
  BY <1>1
<1>3. Typed(V)'
  BY <1>2, Zenon DEF Typed
<1>4. Standing(stack)'
  BY Zenon DEF Standing, Alone, Above, Symbol
<1> QED
  BY <1>3, <1>4, Zenon DEF Stacks

LEMMA ContentOn ==
  ASSUME UNCHANGED sent, Content(stack')
  PROVE  Content(stack)'
<1>0. text' = text /\ cut' = cut /\ dict' = dict
  BY Zenon DEF sent
<1>1. CASE Past(stack')
  BY <1>0, <1>1, Zenon DEF Content, Past, HasWhole, Complete
<1>2. ASSUME NEW at, Inside(stack', at)
      PROVE  Inside(stack, at)'
  BY <1>0, <1>2, ZenonT(40) DEF Inside, Lies, Carries, Ends, Waits, Spelt
<1> QED
  BY <1>1, <1>2, Zenon DEF Content

DecoderInv ==
  /\ TextIs
  /\ phase \in {"decode", "aborted", "decoded", "files", "done", "crashed"}
  /\ phase = "decode" => (\E U : Stacks(U)) /\ Content(stack)
  /\ stack # <<>> => \E U : Stacks(U)
  /\ phase = "aborted" => ~Complete
  /\ Decoded => HasStored(result.items) /\ (Complete => result = Mapped[dict])

LEMMA InitDecoderInv ==
  DecoderInit => DecoderInv
<1> SUFFICES ASSUME DecoderInit
             PROVE  DecoderInv
  OBVIOUS
<1> DEFINE E == Encode[dict]
           f == Frame("read", "d", Cursor(1, Len(text) - 1))
<1>1. /\ dict \in Dicts /\ cut \in 0..Len(E)
      /\ \E tail \in Tails : text = SubSeq(E, 1, cut) \o tail
      /\ phase = "decode" /\ stack = <<f>>
  BY Zenon DEF DecoderInit
<1>2. /\ dict \in Contents /\ dict.type = "d" /\ IsNested(dict)
  BY <1>1, ContentsAssumption DEF IsNested
<1>3. E \in Seq(Tokens)
  BY <1>2, EncodeType, Zenon
<1>4. TextIs
  <2> DEFINE T == Tokens
             x == SubSeq(E, 1, cut)
  <2>1. PICK tail \in Tails : text = x \o tail
    BY <1>1, Zenon
  <2>2. tail \in Seq(T) /\ tail # <<>>
    BY ContentsAssumption
  <2>3. cut \in 0..Len(E) /\ E \in Seq(T)
    BY <1>1, <1>3, Zenon
  <2> HIDE DEF T, E
  <2>4. x \in Seq(T) /\ Len(x) = cut /\ \A j \in 1..cut : x[j] = E[j]
    BY <2>3, OneLess
  <2>5. Len(tail) \in Nat /\ Len(tail) # 0
    BY <2>2
  <2>6. cut \in Nat
    <3>1. Len(E) \in Nat
      BY <2>3
    <3> QED
      BY <2>3, <3>1
  <2> HIDE DEF x
  <2>7. /\ text \in Seq(T) /\ Len(text) = Len(x) + Len(tail)
        /\ \A j \in 1..Len(x) : text[j] = x[j]
    <3> DEFINE y == x \o tail
    <3>1. y \in Seq(T) /\ Len(y) = Len(x) + Len(tail) /\ \A j \in 1..Len(x) : y[j] = x[j]
      BY <2>2, <2>4, Behind, Zenon
    <3> QED
      BY <2>1, <3>1, Zenon
  <2>8. cut + 1 <= Len(text) /\ \A j \in 1..cut : text[j] = E[j]
    <3>1. Len(text) = cut + Len(tail)
      BY <2>4, <2>7, Zenon
    <3>2. cut + 1 <= Len(text)
      BY <2>5, <2>6, <3>1
    <3> QED
      BY <2>4, <2>7, <3>2, Zenon
  <2> QED
    BY <1>1, <2>7, <2>8, Zenon DEF TextIs, E, T
<1>5. Len(text) \in Nat /\ text \in Seq(Tokens)
  BY <1>4, Elements, Zenon DEF TextIs
<1> DEFINE m == Len(text) - 1
<1>6. Len(text) - 1 \in Int /\ 1 \in Nat \ {0} /\ 1 + (Len(text) - 1) >= Len(text)
  BY <1>5
<1>7. /\ f.mode = "read" /\ f.type = "d" /\ f.be.start = 1 /\ f.be.str = 1
      /\ f.be.len = m /\ f.items = <<>>
  <2>1. Fresh(f, "read", "d", 1, m)
    BY Zenon DEF Fresh
  <2> HIDE DEF f, m
  <2> QED
    BY <2>1, FrameFields
<1>8. f \in Frames({<<>>})
  <2> HIDE DEF m
  <2>1. m \in Int /\ <<>> \in {<<>>}
    BY <1>6 DEF m
  <2>2. f = Frame("read", "d", Cursor(1, m))
    BY Zenon DEF m
  <2> HIDE DEF f
  <2> QED
    BY <2>1, <2>2, FrameIs
<1> HIDE DEF f, m
<1>9. stack \in Seq(Frames({<<>>})) /\ stack # <<>> /\ Len(stack) = 1 /\ stack[1] = f
  <2> DEFINE F == Frames({<<>>})
  <2>1. f \in F
    BY <1>8
  <2> HIDE DEF F
  <2> QED
    BY <1>1, <2>1 DEF F
<1>10. Stacks({<<>>})
  <2>1. Alone(f)
    BY <1>7 DEF Alone
  <2>2. Standing(stack)
    BY <1>7, <1>9, <2>1 DEF Standing
  <2> QED
    BY <1>5, <1>9, <2>2, Zenon DEF Stacks, Typed
<1>11. Content(stack)
  <2>1. KeptUpto(dict, 0) = <<>>
    BY <1>2, KeptOn, Zenon
  <2>2. Len(dict.items) \in Nat
    BY <1>2, Items, Zenon
  <2>3. 0 \in 0..Len(dict.items)
    BY <2>2
  <2>4. stack[1].items = KeptUpto(dict, 0)
    BY <1>7, <1>9, <2>1, Zenon
  <2>5. Waits(dict, 1, 0) \/ Past(stack)
    BY <1>4, <2>3, <2>4, FirstReady, Zenon
  <2>6. ASSUME Waits(dict, 1, 0)
        PROVE  \E b : Inside(stack, b)
    <3> DEFINE w == [v |-> dict, p |-> 1, d |-> 0]
               at == [n \in Nat |-> w]
    <3>1. w.v = dict /\ w.p = 1 /\ w.d = 0
      OBVIOUS
    <3> HIDE DEF w
    <3>2. at[1] = w
      OBVIOUS
    <3> HIDE DEF at
    <3>3. Lies(f, w)
      BY <1>2, <1>6, <1>7, <2>1, <2>3, <2>6, <3>1, Zenon DEF Lies, m
    <3>4. Ends(f, w)
      BY <1>7, <3>1 DEF Ends, Place
    <3>5. \A n \in 1..Len(stack) : n = 1 /\ ~(n + 1 <= Len(stack))
      BY <1>9
    <3> HIDE DEF f
    <3>6. Inside(stack, at)
      BY <1>9, <3>1, <3>2, <3>3, <3>4, <3>5, Zenon DEF Inside
    <3> QED
      BY <3>6, Zenon
  <2> QED
    BY <2>5, <2>6, Zenon DEF Content
<1>12. phase # "aborted" /\ ~Decoded /\ phase \in {"decode", "aborted", "decoded", "files", "done", "crashed"}
  BY <1>1 DEF Decoded
<1> QED
  BY <1>4, <1>10, <1>11, <1>12, Zenon DEF DecoderInv

LEMMA StaysDecoding ==
  ASSUME DecoderInv, phase = "decode", UNCHANGED <<sent, phase>>,
         NEW V, stack' \in Seq(Frames(V)), Standing(stack'), Content(stack')
  PROVE  DecoderInv'
<1>1. text' = text /\ text \in Seq(Tokens) /\ UNCHANGED sent /\ phase' = phase
  BY Zenon DEF DecoderInv, TextIs, sent
<1>2. Stacks(V)'
  BY <1>1, StacksOn, Zenon
<1>3. Content(stack)'
  BY <1>1, ContentOn, Zenon
<1>4. TextIs'
  BY <1>1, Zenon DEF DecoderInv, TextIs, sent
<1>5. phase' = "decode" /\ phase' # "aborted" /\ ~(Decoded')
  BY <1>1 DEF Decoded
<1>6. phase' \in {"decode", "aborted", "decoded", "files", "done", "crashed"}
  BY <1>5
<1> QED
  BY <1>2, <1>3, <1>4, <1>5, <1>6, Zenon DEF DecoderInv

LEMMA DecodingStep ==
  ASSUME DecoderInv, PassLeaf \/ Enter \/ Skipped \/ Return \/ Aborts
  PROVE  DecoderInv'
<1>1. phase = "decode"
  BY Zenon DEF PassLeaf, Enter, Skipped, Return, Aborts, Going
<1>2. PICK U : Stacks(U)
  BY <1>1, Zenon DEF DecoderInv
<1>3. Typed(U) /\ TextIs /\ Content(stack)
  BY <1>1, <1>2, Zenon DEF DecoderInv, Stacks
<1>4. CASE PassLeaf
  <2>1. UNCHANGED <<sent, phase>>
    BY <1>4, Zenon DEF PassLeaf
  <2>2. \E V : stack' \in Seq(Frames(V))
    BY <1>3, <1>4, PassLeafDoes, Zenon
  <2>3. Standing(stack') /\ Content(stack')
    BY <1>2, <1>3, <1>4, PassLeafStands, PassLeafKeeps, Zenon
  <2> QED
    BY <1>1, <2>1, <2>2, <2>3, StaysDecoding, Zenon
<1>5. CASE Enter
  <2>1. UNCHANGED <<sent, phase>>
    BY <1>5, Zenon DEF Enter
  <2>2. \E V : stack' \in Seq(Frames(V))
    BY <1>3, <1>5, EnterDoes, Zenon
  <2>3. Standing(stack') /\ Content(stack')
    BY <1>2, <1>3, <1>5, EnterStands, EnterKeeps, Zenon
  <2> QED
    BY <1>1, <2>1, <2>2, <2>3, StaysDecoding, Zenon
<1>6. CASE Skipped
  <2>1. UNCHANGED <<sent, phase>>
    BY <1>6, Zenon DEF Skipped
  <2>2. Standing(stack') /\ Content(stack') /\ Len(stack) # 1
    BY <1>2, <1>3, <1>6, SkippedStands, SkippedKeeps, Zenon
  <2>3. \E V : stack' \in Seq(Frames(V))
    BY <1>3, <1>6, <2>2, SkippedDoes, Zenon
  <2> QED
    BY <1>1, <2>1, <2>2, <2>3, StaysDecoding, Zenon
<1>7. CASE Return
  <2>1. CASE Len(stack) = 1
    <3>1. /\ phase' = "decoded" /\ stack' = <<>> /\ UNCHANGED sent
          /\ HasStored(result'.items) /\ (Complete => result' = Mapped[dict])
      BY <1>2, <1>3, <1>7, <2>1, ReturnDecodes, Zenon
    <3>2. text' = text /\ cut' = cut /\ dict' = dict
      BY <3>1, Zenon DEF sent
    <3>3. TextIs'
      BY <1>3, <3>2, Zenon DEF TextIs
    <3>4. (HasStored(result.items))'
      BY <3>1, <3>2, Zenon DEF HasStored
    <3>5. (Complete => result = Mapped[dict])'
      BY <3>1, <3>2, Zenon DEF Complete
    <3>6. phase' # "decode" /\ phase' # "aborted"
          /\ phase' \in {"decode", "aborted", "decoded", "files", "done", "crashed"}
      BY <3>1
    <3> QED
      BY <3>1, <3>3, <3>4, <3>5, <3>6, Zenon DEF DecoderInv
  <2>2. CASE Len(stack) # 1
    <3> DEFINE n == Len(stack) - 1
               v == Holding(Top.type, Top.items)
    <3>1. n # 0
      <4>1. Len(stack) \in Nat
        BY <1>3, TopIs, Zenon
      <4> QED
        BY <2>2, <4>1
    <3>2. UNCHANGED <<sent, phase>> /\ \E V : stack' \in Seq(Frames(V)) /\ Len(stack') = n
      BY <1>3, <1>7, <3>1, ReturnDoes, Zenon
    <3>3. Content(stack')
      BY <1>2, <1>3, <1>7, <2>2, ReturnKeeps, Zenon
    <3>4. Standing(stack')
      <4>1. phase' # "decoded"
        BY <1>1, <3>2
      <4> QED
        BY <1>2, <1>7, <4>1, ReturnStands, Zenon
    <3> QED
      BY <1>1, <3>2, <3>3, <3>4, StaysDecoding, Zenon
  <2> QED
    BY <2>1, <2>2
<1>8. CASE Aborts
  <2>1. phase' = "aborted" /\ UNCHANGED <<sent, stack>>
    BY <1>8, Zenon DEF Aborts
  <2>2. text' = text /\ cut' = cut /\ dict' = dict
    BY <2>1, Zenon DEF sent
  <2>3. TextIs'
    BY <1>3, <2>2, Zenon DEF TextIs
  <2>4. ~Complete
    BY <1>3, <1>8, InsideGoesOn, Zenon DEF Content, Past
  <2>5. ~(Complete')
    BY <2>2, <2>4, Zenon DEF Complete
  <2>6. Stacks(U)'
    <3>1. stack' \in Seq(Frames(U)) /\ text \in Seq(Tokens)
      BY <1>3, <2>1, Zenon DEF Typed
    <3>2. Standing(stack')
      BY <1>2, <2>1, Zenon DEF Stacks
    <3> QED
      BY <2>2, <3>1, <3>2, StacksOn, Zenon
  <2>7. phase' # "decode" /\ ~(Decoded')
        /\ phase' \in {"decode", "aborted", "decoded", "files", "done", "crashed"}
    BY <2>1 DEF Decoded
  <2> QED
    BY <2>3, <2>5, <2>6, <2>7, Zenon DEF DecoderInv
<1> QED
  BY <1>4, <1>5, <1>6, <1>7, <1>8

LEMMA FilesStep ==
  ASSUME DecoderInv, GetFiles \/ PrintFile \/ FilesEnd \/ UNCHANGED decoder
  PROVE  DecoderInv'
<1>1. UNCHANGED <<sent, stack, result>>
  BY Zenon DEF GetFiles, PrintFile, FilesEnd, decoder, sent
<1>2. text' = text /\ cut' = cut /\ dict' = dict /\ stack' = stack /\ result' = result
  BY <1>1, Zenon DEF sent
<1>3. TextIs' /\ (Complete' <=> Complete)
  BY <1>2, Zenon DEF DecoderInv, TextIs, Complete
<1>4. (HasStored(result.items))' <=> HasStored(result.items)
  BY <1>2, Zenon DEF HasStored
<1>5. ASSUME NEW U, Stacks(U)
      PROVE  Stacks(U)'
  <2>1. stack' \in Seq(Frames(U)) /\ text \in Seq(Tokens) /\ Standing(stack')
    BY <1>2, <1>5, Zenon DEF Stacks, Typed
  <2> QED
    BY <1>2, <2>1, StacksOn, Zenon
<1>6. \/ UNCHANGED phase
      \/ Decoded /\ phase' \in {"files", "crashed", "done"}
  BY DEF GetFiles, PrintFile, FilesEnd, decoder, Decoded
<1>7. CASE UNCHANGED phase
  <2>1. Content(stack) => Content(stack)'
    BY <1>1, <1>2, ContentOn, Zenon
  <2>2. Decoded' <=> Decoded
    BY <1>7, Zenon DEF Decoded
  <2> QED
    BY <1>2, <1>3, <1>4, <1>5, <1>7, <2>1, <2>2, Zenon DEF DecoderInv
<1>8. CASE Decoded /\ phase' \in {"files", "crashed", "done"}
  <2>1. /\ phase' \in {"decode", "aborted", "decoded", "files", "done", "crashed"}
        /\ phase' # "decode" /\ phase' # "aborted"
    BY <1>8
  <2> QED
    BY <1>2, <1>3, <1>4, <1>5, <1>8, <2>1, Zenon DEF DecoderInv
<1> QED
  BY <1>6, <1>7, <1>8

LEMMA NextDecoderInv ==
  DecoderInv /\ [DecoderNext]_decoder => DecoderInv'
<1> SUFFICES ASSUME DecoderInv, [DecoderNext]_decoder
             PROVE  DecoderInv'
  OBVIOUS
<1>1. CASE PassLeaf \/ Enter \/ Skipped \/ Return \/ Aborts
  BY <1>1, DecodingStep, Zenon
<1>2. CASE GetFiles \/ PrintFile \/ FilesEnd \/ UNCHANGED decoder
  BY <1>2, FilesStep, Zenon
<1> QED
  BY <1>1, <1>2, Zenon DEF DecoderNext

LEMMA DecoderInvariant == DecoderSpec => []DecoderInv
<1>1. DecoderInit => DecoderInv
  BY InitDecoderInv
<1>2. DecoderInv /\ [DecoderNext]_decoder => DecoderInv'
  BY NextDecoderInv
<1> QED
  BY <1>1, <1>2, PTL DEF DecoderSpec

(* What is decoded of a text that has been cut, or broken, has all that was
   before that place, as it was sent (bencode.c:24-103, peer.c:236).           *)
THEOREM DecoderKeepsEarlierEntries == DecoderSpec => []EarlierEntriesKept
<1>1. DecoderInv => EarlierEntriesKept
  BY Zenon DEF DecoderInv, EarlierEntriesKept, HasStored
<1> QED
  BY <1>1, DecoderInvariant, PTL

(* The decoder's type invariant: a dictionary is read at the bottom, a list
   in a dictionary, and nothing in what is only gone through
   (bencode.c:24-103, 345-383, 480-502).                                      *)
THEOREM DecoderTypesAreRight == DecoderSpec => []DecoderTypeOK
<1>1. ASSUME DecoderInv
      PROVE  DecoderTypeOK
  <2>1. CASE stack = <<>>
    <3>1. phase # "decode"
      <4>1. ASSUME phase = "decode"
            PROVE  FALSE
        <5>1. PICK U : Stacks(U)
          BY <1>1, <4>1, Zenon DEF DecoderInv
        <5> QED
          BY <2>1, <5>1, Zenon DEF Stacks, Typed
      <4> QED
        BY <4>1, Zenon
    <3>2. DOMAIN stack = {}
      BY <2>1
    <3>3. cut \in 0..Len(Encode[dict])
      BY <1>1, Zenon DEF DecoderInv, TextIs
    <3>4. phase \in {"decode", "aborted", "decoded", "files", "done", "crashed"}
      BY <1>1, Zenon DEF DecoderInv
    <3>5. \A n \in DOMAIN stack : FALSE
      BY <3>2
    <3> QED
      BY <3>1, <3>3, <3>4, <3>5, Zenon DEF DecoderTypeOK
  <2>2. CASE stack # <<>>
    <3>1. PICK U : Stacks(U)
      BY <1>1, <2>2, Zenon DEF DecoderInv
    <3>2. Typed(U) /\ Standing(stack)
      BY <3>1, Zenon DEF Stacks
    <3> DEFINE l == Len(stack)
    <3>3. /\ l \in Nat \ {0} /\ DOMAIN stack = 1..l
      BY <3>2, TopIs, Zenon
    <3>4. /\ stack[1].mode = "read" /\ stack[1].type = "d"
          /\ \A n \in 1..l : Alone(stack[n]) /\ (n > 1 => Above(stack[n - 1], stack[n]))
      BY <3>2, Zenon DEF Standing
    <3> HIDE DEF l
    <3>5. ASSUME NEW n \in 1..l
          PROVE  /\ stack[n].be.str # NullPtr => stack[n].be.str >= stack[n].be.start
                 /\ stack[n].mode = "read" /\ stack[n].type = "l" => stack[n - 1].type = "d"
                 /\ stack[n].mode = "skip" /\ n < l => stack[n + 1].mode = "skip"
      <4>1. Alone(stack[n])
        BY <3>4, Zenon
      <4>2. ASSUME stack[n].type = "l"
            PROVE  Above(stack[n - 1], stack[n])
        <5>1. n # 1
          BY <3>4, <4>2
        <5>2. n > 1
          BY <3>3, <5>1
        <5> QED
          BY <3>4, <5>2, Zenon
      <4>3. ASSUME n < l
            PROVE  Above(stack[n], stack[n + 1])
        <5>1. n + 1 \in 1..l /\ n + 1 > 1 /\ (n + 1) - 1 = n
          BY <3>3, <4>3
        <5>2. Above(stack[(n + 1) - 1], stack[n + 1])
          BY <3>4, <5>1, Zenon
        <5> QED
          BY <5>1, <5>2, Zenon
      <4> QED
        BY <4>1, <4>2, <4>3, Zenon DEF Alone, Above
    <3>6. cut \in 0..Len(Encode[dict])
      BY <1>1, Zenon DEF DecoderInv, TextIs
    <3>7. phase \in {"decode", "aborted", "decoded", "files", "done", "crashed"}
      BY <1>1, Zenon DEF DecoderInv
    <3> QED
      BY <2>2, <3>3, <3>4, <3>5, <3>6, <3>7, Zenon DEF DecoderTypeOK, l
  <2> QED
    BY <2>1, <2>2
<1> QED
  BY <1>1, DecoderInvariant, PTL

-----------------------------------------------------------------------------
(* The files that are printed *)

LEMMA MappedFields ==
  ASSUME NEW v \in Contents
  PROVE  /\ Mapped[v].type = v.type
         /\ ~IsNested(v) => Mapped[v] = v
         /\ v.type = "d" => Mapped[v].items = Stored(Given(v))
         /\ v.type = "l" => Mapped[v].items = Given(v)
<1>1. CASE IsNested(v)
  <2> DEFINE x == Given(v)
             y == Mapped[v]
             z == Stored(x)
  <2>1. y = [type |-> v.type, items |-> IF v.type = "d" THEN z ELSE x]
    BY <1>1, KeptOn, Zenon DEF Holding, Given
  <2> HIDE DEF x, y, z
  <2>2. y.type = v.type /\ y.items = IF v.type = "d" THEN z ELSE x
    BY <2>1
  <2>3. v.type = "l" => v.type # "d"
    OBVIOUS
  <2> QED
    BY <1>1, <2>2, <2>3, Zenon DEF x, y, z
<1>2. CASE ~IsNested(v)
  <2>1. v.type \in {"i", "s"}
    BY <1>2, Forms DEF IsNested
  <2>2. Mapped[v] = Body(2, v, Mapped) /\ 2 # 1
    BY MappedIs
  <2>3. Mapped[v] = v
    BY <2>1, <2>2, Zenon DEF Body
  <2>4. v.type # "d" /\ v.type # "l"
    BY <2>1
  <2> QED
    BY <1>2, <2>3, <2>4, Zenon
<1> QED
  BY <1>1, <1>2

(* A map that is suited keeps each of its values where it is asked for. *)
LEMMA AllStored ==
  ASSUME NEW S, NEW s \in Seq(S), NEW T, NEW t \in Seq(T), Len(s) = Len(t),
         \A n \in 1..Len(s) : s[n].key = t[n].key, Stored(s) = s
  PROVE  Stored(t) = t
<1>1. PICK a \in Nat : HeldUpto(s, a)
  BY StoredIs, Zenon
<1>2. PICK b \in Nat : HeldUpto(t, b)
  BY StoredIs, Zenon
<1>3. Len(s) \in Nat /\ a = Len(s) /\ \A n \in 1..(a - 1) : ~FullAt(s, n)
  <2>1. Len(s) \in Nat
    OBVIOUS
  <2> QED
    BY <1>1, <2>1, Zenon DEF HeldUpto
<1>4. b \in 0..Len(t) /\ (b = Len(t) \/ (b >= 1 /\ FullAt(t, b)))
  BY <1>2, Zenon DEF HeldUpto
<1>5. b = Len(t)
  <2> SUFFICES ASSUME b # Len(t)
               PROVE  FALSE
    OBVIOUS
  <2>1. FullAt(t, b) /\ b \in 1..(a - 1) /\ \A j \in 1..b : j \in 1..Len(s)
    BY <1>3, <1>4
  <2>2. FullAt(s, b)
    BY <2>1, FullTogether, Zenon
  <2> QED
    BY <1>3, <2>1, <2>2, Zenon
<1>6. Stored(t) \in Seq(T)
  BY StoredIs, Zenon
<1> DEFINE z == Stored(t)
<1>7. Len(z) = Len(t) /\ \A n \in 1..Len(t) : z[n] = t[n]
  BY <1>2, <1>5, Zenon DEF HeldUpto
<1> HIDE DEF z
<1>8. z = t
  BY <1>6, <1>7 DEF z
<1> QED
  BY <1>8 DEF z

LEMMA NoNul ==
  ASSUME NEW chars, \A j \in DOMAIN chars : chars[j] # NulChar
  PROVE  CString(chars) = chars
<1>1. {n \in DOMAIN chars : chars[n] = NulChar} = {}
  BY Zenon
<1> QED
  BY <1>1, Zenon DEF CString

LEMMA SuitedKeeps ==
  ASSUME NEW f \in Contents, f.type = "d", Suits(f)
  PROVE  LET N == Len(f.items)
             m == Mapped[f]
         IN /\ N \in Nat /\ DOMAIN f.items = 1..N /\ DOMAIN m.items = 1..N
            /\ \A n \in 1..N : /\ m.items[n].key = f.items[n].key
                              /\ m.items[n].val = Mapped[f.items[n].val]
                              /\ f.items[n].val \in Contents
<1> DEFINE N == Len(f.items)
           m == Mapped[f]
           u == Given(f)
           T == [key : Seq(Letters), val : Contents]
<1>1. IsNested(f)
  BY DEF IsNested
<1>2. N \in Nat /\ DOMAIN f.items = 1..N /\ \A n \in 1..N : Item(f, n) \in Contents
  BY <1>1, Items
<1>3. N \in 0..N
  BY <1>2
<1>4. /\ Len(u) = N /\ u \in Seq(KeptOf(f))
      /\ \A n \in 1..N : u[n] = KeyVal(CString(f.items[n].key), Mapped[Item(f, n)])
  BY <1>1, <1>3, DictKeeps, KeptOn, Zenon DEF Given
<1>5. /\ \A n \in 1..N : CString(f.items[n].key) = f.items[n].key
      /\ Stored(f.items) = f.items
  BY <1>2, NoNul, Zenon DEF Suits
<1>6. \A n \in 1..N : Item(f, n) = f.items[n].val
  BY Zenon DEF Item
<1>7. f.items \in Seq(T)
  BY Forms, Zenon
<1> HIDE DEF u, m, T
<1>8. ASSUME NEW n \in 1..N
      PROVE  u[n].key = f.items[n].key /\ u[n].val = Mapped[f.items[n].val]
  <2> DEFINE x == f.items[n].key
             y == Mapped[f.items[n].val]
             e == u[n]
  <2>1. e = KeyVal(x, y)
    BY <1>4, <1>5, <1>6, Zenon
  <2> HIDE DEF e, x, y
  <2>2. e.key = x /\ e.val = y
    BY <2>1 DEF KeyVal
  <2> QED
    BY <2>2, Zenon DEF e, x, y
<1>9. Stored(u) = u
  <2>1. \A n \in 1..Len(f.items) : f.items[n].key = u[n].key
    BY <1>8, Zenon
  <2> HIDE DEF N
  <2>2. Len(f.items) = Len(u)
    BY <1>4, Zenon DEF N
  <2> QED
    BY <1>4, <1>5, <1>7, <2>1, <2>2, AllStored, Zenon
<1>10. m.items = u
  BY <1>9, MappedFields, Zenon DEF m, u
<1>11. DOMAIN u = 1..N
  BY <1>4, Elements, Zenon
<1> QED
  BY <1>2, <1>6, <1>8, <1>10, <1>11, Zenon DEF m

LEMMA SuitedFinds ==
  ASSUME NEW f \in Contents, f.type = "d", Suits(f)
  PROVE  /\ ~Shares(Mapped[f])
         /\ \A k, type : SentWith(f, k, type) =>
              /\ HasKey(Mapped[f], k) /\ SentValue(f, k) \in Contents
              /\ SentValue(f, k).type = type
              /\ ValueOf(Mapped[f], k) = Mapped[SentValue(f, k)]
<1> DEFINE N == Len(f.items)
           m == Mapped[f]
<1>1. /\ N \in Nat /\ DOMAIN f.items = 1..N /\ DOMAIN m.items = 1..N
      /\ \A n \in 1..N : /\ m.items[n].key = f.items[n].key
                        /\ m.items[n].val = Mapped[f.items[n].val]
                        /\ f.items[n].val \in Contents
  BY SuitedKeeps, Zenon
<1> HIDE DEF N, m
<1>2. \A x, y \in 1..N : SlotOf(f.items[x].key) = SlotOf(f.items[y].key) => x = y
  BY <1>1, Zenon DEF Suits, Shares
<1>3. ~Shares(m)
  BY <1>1, <1>2, Zenon DEF Shares
<1>4. ASSUME NEW k, NEW type, SentWith(f, k, type)
      PROVE  /\ HasKey(m, k) /\ SentValue(f, k) \in Contents
             /\ SentValue(f, k).type = type
             /\ ValueOf(m, k) = Mapped[SentValue(f, k)]
  <2> DEFINE a == CHOOSE n \in DOMAIN f.items : f.items[n].key = k
  <2>1. PICK w \in 1..N : f.items[w].key = k /\ f.items[w].val.type = type
    BY <1>1, <1>4, Zenon DEF SentWith
  <2>2. a \in 1..N /\ f.items[a].key = k
    BY <1>1, <2>1, Zenon
  <2>3. SentValue(f, k) = f.items[a].val
    BY Zenon DEF SentValue
  <2> HIDE DEF a
  <2>4. a = w
    BY <1>2, <2>1, <2>2, Zenon
  <2>5. InSlot(m, k) = {a}
    <3>1. \A n \in InSlot(m, k) : n = a
      BY <1>1, <1>2, <2>2, Zenon DEF InSlot
    <3>2. a \in InSlot(m, k)
      BY <1>1, <2>2, Zenon DEF InSlot
    <3> QED
      BY <3>1, <3>2
  <2>6. Sets!Min(InSlot(m, k)) = a
    <3>1. a <= a
      BY <2>2
    <3>2. \E x \in {a} : \A y \in {a} : x <= y
      BY <3>1
    <3>3. Sets!Min({a}) \in {a}
      BY <3>2, Zenon DEF Sets!Min
    <3> QED
      BY <2>5, <3>3
  <2>7. HeadOf(m, k) = m.items[a]
    BY <2>6, Zenon DEF HeadOf
  <2>8. HasKey(m, k)
    <3>1. InSlot(m, k) # {}
      BY <2>5
    <3> QED
      BY <1>1, <2>2, <2>7, <3>1, Zenon DEF HasKey
  <2>9. ValueOf(m, k) = Mapped[f.items[a].val]
    BY <1>1, <2>2, <2>7, Zenon DEF ValueOf
  <2> QED
    BY <1>1, <2>1, <2>2, <2>3, <2>4, <2>8, <2>9, Zenon
<1> QED
  BY <1>3, <1>4, Zenon DEF m

(* A list keeps the dictionaries in it, ... *)
LEMMA ListKeeps ==
  ASSUME NEW v \in Contents, v.type = "l", \A n \in DOMAIN v.items : v.items[n].type = "d"
  PROVE  /\ DOMAIN v.items = 1..Len(v.items) /\ Len(v.items) \in Nat
         /\ Len(Mapped[v].items) = Len(v.items)
         /\ \A n \in DOMAIN v.items : Mapped[v].items[n] = Mapped[v.items[n]]
<1> DEFINE N == Len(v.items)
           u(n) == KeptUpto(v, n)
           Whole(n) == Len(u(n)) = n /\ \A m \in 1..n : u(n)[m] = Mapped[v.items[m]]
           G == {n \in 0..N : Whole(n)}
<1>1. IsNested(v)
  BY DEF IsNested
<1>2. N \in Nat /\ DOMAIN v.items = 1..N
  BY <1>1, Items
<1>3. 0 \in G
  <2>1. Len(u(0)) = 0 /\ 0 \in 0..N
    <3>1. u(0) = <<>>
      BY <1>1, KeptOn, Zenon
    <3> QED
      BY <1>2, <3>1
  <2> QED
    BY <2>1
<1>4. ASSUME NEW n \in 1..N, n - 1 \in G
      PROVE  n \in G
  <2> DEFINE x == u(n - 1)
             e == Mapped[v.items[n]]
             T == KeptOf(v)
  <2>1. n \in 0..N /\ n - 1 \in 0..N
    BY <1>2
  <2>2. Item(v, n) = v.items[n]
    BY DEF Item
  <2>3. u(n) = x \o <<e>> /\ x \in Seq(T) /\ e \in T
    <3>1. Kept(v, n) = <<e>>
      <4>1. Kept(v, n) = IF Item(v, n).type \in {"d", "s"} THEN <<Mapped[Item(v, n)]>> ELSE <<>>
        BY <1>1, <1>2, KeptIs
      <4>2. Item(v, n).type \in {"d", "s"}
        BY <1>2, <2>2
      <4> QED
        BY <2>2, <4>1, <4>2, Zenon
    <3>2. e \in T
      BY <1>2, <2>2, Zenon DEF KeptOf
    <3> QED
      BY <1>1, <2>1, <3>1, <3>2, KeptOn, Zenon
  <2>4. Len(x) = n - 1 /\ \A m \in 1..(n - 1) : x[m] = Mapped[v.items[m]]
    BY <1>4
  <2> HIDE DEF x, e, T
  <2>5. /\ Len(x \o <<e>>) = n /\ (x \o <<e>>)[n] = e
        /\ \A m \in 1..(n - 1) : (x \o <<e>>)[m] = x[m]
    BY <2>3, <2>4
  <2>6. ASSUME NEW m \in 1..n
        PROVE  u(n)[m] = Mapped[v.items[m]]
    <3>1. CASE m = n
      BY <2>3, <2>5, <3>1, Zenon DEF e
    <3>2. CASE m # n
      <4>1. m \in 1..(n - 1)
        BY <3>2
      <4> QED
        BY <2>3, <2>4, <2>5, <4>1, Zenon
    <3> QED
      BY <3>1, <3>2
  <2>7. Whole(n)
    BY <2>3, <2>5, <2>6, Zenon
  <2> HIDE DEF Whole
  <2> QED
    BY <2>1, <2>7
<1>5. \A n \in 0..N : n \in G
  <2> HIDE DEF G, N
  <2> QED
    BY <1>2, <1>3, <1>4, Upward, Zenon
<1>6. Whole(N)
  <2>1. N \in 0..N
    BY <1>2
  <2> QED
    BY <1>5, <2>1
<1>7. Mapped[v].items = u(N)
  BY MappedFields, Zenon DEF Given
<1> QED
  BY <1>2, <1>6, <1>7, Zenon

(* ... and a last string. *)
LEMMA LastKept ==
  ASSUME NEW v \in Contents, v.type = "l", v.items # <<>>, LastOf(v).type = "s"
  PROVE  Mapped[v].items # <<>> /\ LastOf(Mapped[v]) = LastOf(v)
<1> DEFINE N == Len(v.items)
           n == N - 1
           x == KeptUpto(v, n)
           c == Item(v, N)
           T == KeptOf(v)
<1>1. IsNested(v)
  BY DEF IsNested
<1>2. /\ N \in Nat /\ DOMAIN v.items = 1..N /\ v.items \in Seq(Contents)
      /\ \A m \in 1..N : Item(v, m) \in Contents
  BY <1>1, Items, Forms
<1>3. N \in Nat \ {0}
  BY <1>2
<1> HIDE DEF N
<1>4. n \in 0..N /\ n < N /\ n + 1 = N /\ N \in 1..N
  BY <1>3
<1>5. c = LastOf(v) /\ c \in Contents /\ c.type = "s"
  BY <1>2, <1>4 DEF LastOf, Item, N
<1>6. KeptUpto(v, N) = Append(x, Mapped[c])
  <2>1. KeptUpto(v, n + 1) =
          IF v.type = "d" THEN Append(x, KeyVal(CString(v.items[n + 1].key), Mapped[Item(v, n + 1)]))
          ELSE IF Item(v, n + 1).type \in {"d", "s"} THEN Append(x, Mapped[Item(v, n + 1)])
          ELSE x
    BY <1>1, <1>4, KeptMore, Zenon DEF N
  <2>2. v.type # "d"
    OBVIOUS
  <2>3. c.type \in {"d", "s"}
    BY <1>5
  <2> QED
    BY <1>4, <2>1, <2>2, <2>3, Zenon
<1>7. Mapped[c] = c
  <2>1. ~IsNested(c)
    BY <1>5 DEF IsNested
  <2> QED
    BY <1>5, <2>1, MappedFields, Zenon
<1>8. x \in Seq(T)
  BY <1>1, <1>4, KeptOn, Zenon DEF N
<1>9. Mapped[v].items = Append(x, c)
  BY <1>6, <1>7, MappedFields, Zenon DEF Given, N
<1> DEFINE y == Append(x, c)
<1> HIDE DEF x, T, c
<1>10. y # <<>> /\ y[Len(y)] = c
  BY <1>8
<1> HIDE DEF y
<1> QED
  BY <1>5, <1>9, <1>10, Zenon DEF LastOf, y

(* A number that fits is printed as it is. *)
LEMMA SmallInt ==
  ASSUME NEW n \in Nat, 2 * n < TwoTo32, Host = "little"
  PROVE  AsInt(n) = n
<1>1. TwoTo32 \in Nat \ {0}
  BY MachineAssumption
<1> DEFINE M == TwoTo32
<1>2. M \in Nat \ {0} /\ 2 * n < M
  BY <1>1
<1> HIDE DEF M
<1>3. n % M = n
  BY <1>2
<1>4. (IF Host = "little" THEN n ELSE n \div M) % M = n
  BY <1>3
<1> QED
  BY <1>2, <1>4, Zenon DEF AsInt, M

(* A file is printed as it was sent. *)
LEMMA FileKept ==
  ASSUME NEW f \in Contents, ProperFile(f), Host = "little"
  PROVE  /\ IsFile(Mapped[f]) /\ ~Shares(Mapped[f])
         /\ Printed(Mapped[f]) = AsSent(f)
<1> DEFINE m == Mapped[f]
           len == SentValue(f, LengthKey)
           path == SentValue(f, PathKey)
           c == LastOf(path).chars
<1>1. /\ f.type = "d" /\ Suits(f)
      /\ SentWith(f, LengthKey, "i") /\ 2 * len.n < TwoTo32
      /\ SentWith(f, PathKey, "l") /\ path.items # <<>>
      /\ LastOf(path).type = "s" /\ \A j \in DOMAIN c : c[j] # NulChar
  BY Zenon DEF ProperFile
<1>2. /\ HasKey(m, LengthKey) /\ len \in Contents /\ ValueOf(m, LengthKey) = Mapped[len]
      /\ HasKey(m, PathKey) /\ path \in Contents /\ ValueOf(m, PathKey) = Mapped[path]
      /\ len.type = "i" /\ path.type = "l" /\ ~Shares(m)
  BY <1>1, SuitedFinds, Zenon
<1>3. m.type = "d"
  BY <1>1, MappedFields, Zenon
<1> HIDE DEF m, len, path
<1>4. Mapped[len] = len /\ len.n \in Nat
  <2>1. ~IsNested(len)
    BY <1>2 DEF IsNested
  <2> QED
    BY <1>2, <2>1, MappedFields, Forms, Zenon
<1>5. /\ Mapped[path].type = "l" /\ Mapped[path].items # <<>>
      /\ LastOf(Mapped[path]) = LastOf(path)
  BY <1>1, <1>2, MappedFields, LastKept, Zenon
<1>6. IsFile(m)
  BY <1>1, <1>2, <1>3, <1>4, <1>5, Zenon DEF IsFile, HasOf
<1>7. CString(c) = c /\ AsInt(len.n) = len.n
  BY <1>1, <1>4, NoNul, SmallInt, Zenon
<1>8. Printed(m) = [path |-> c, length |-> len.n]
  BY <1>2, <1>4, <1>5, <1>7, Zenon DEF Printed
<1>9. AsSent(f) = [path |-> c, length |-> len.n]
  BY Zenon DEF AsSent, len, path
<1> QED
  BY <1>2, <1>6, <1>8, <1>9, Zenon DEF m

(* What the loop over the files reads, and what it is to print. *)
LEMMA FilesKept ==
  ASSUME TextIs, ProperMetadata
  PROVE  LET F == SentFiles
             R == Files(Mapped[dict])
         IN /\ HasOf(Mapped[dict], FilesKey, "l") /\ ~Shares(Mapped[dict])
            /\ Len(F) \in Nat /\ DOMAIN F = 1..Len(F) /\ Len(R) = Len(F)
            /\ \A n \in 1..Len(F) :
                 IsFile(R[n]) /\ ~Shares(R[n]) /\ Printed(R[n]) = AsSent(F[n])
<1> DEFINE v == SentValue(dict, FilesKey)
           F == v.items
           R == Mapped[v].items
<1>1. dict \in Contents /\ dict.type = "d"
  BY DictIs, Zenon
<1>2. /\ Suits(dict) /\ SentWith(dict, FilesKey, "l") /\ Host = "little"
      /\ \A n \in DOMAIN F : ProperFile(F[n])
  BY Zenon DEF ProperMetadata, SentFiles
<1>3. /\ HasKey(Mapped[dict], FilesKey) /\ v \in Contents /\ v.type = "l"
      /\ ValueOf(Mapped[dict], FilesKey) = Mapped[v] /\ ~Shares(Mapped[dict])
  BY <1>1, <1>2, SuitedFinds, Zenon
<1>4. SentFiles = F
  BY Zenon DEF SentFiles
<1> HIDE DEF v
<1>5. HasOf(Mapped[dict], FilesKey, "l") /\ Files(Mapped[dict]) = R
  BY <1>3, MappedFields, Zenon DEF HasOf, Files
<1>6. \A n \in DOMAIN F : F[n].type = "d"
  BY <1>2, Zenon DEF ProperFile
<1>7. /\ DOMAIN F = 1..Len(F) /\ Len(F) \in Nat /\ Len(R) = Len(F)
      /\ \A n \in DOMAIN F : R[n] = Mapped[F[n]]
  BY <1>3, <1>6, ListKeeps, Zenon
<1>8. \A n \in DOMAIN F : F[n] \in Contents
  <2>1. F \in Seq(Contents)
    BY <1>3, Forms, Zenon
  <2> QED
    BY <2>1, Elements, Zenon
<1>9. \A n \in 1..Len(F) : IsFile(R[n]) /\ ~Shares(R[n]) /\ Printed(R[n]) = AsSent(F[n])
  BY <1>2, <1>7, <1>8, FileKept, Zenon
<1> QED
  BY <1>3, <1>4, <1>5, <1>7, <1>9, Zenon

(* Of files that were sent whole, those that have been read are printed. *)
FilesInv ==
  ProperMetadata =>
    /\ phase # "crashed"
    /\ phase \notin {"files", "done"} => printed = <<>>
    /\ printed \in Seq({AsSent(SentFiles[n]) : n \in DOMAIN SentFiles})
    /\ Len(printed) <= Len(SentFiles)
    /\ \A n \in 1..Len(printed) : printed[n] = AsSent(SentFiles[n])
    /\ phase = "done" => Len(printed) = Len(SentFiles)

LEMMA InitFilesInv ==
  DecoderInit => FilesInv
<1> SUFFICES ASSUME DecoderInit, ProperMetadata
             PROVE  /\ phase # "crashed" /\ phase # "done" /\ printed = <<>>
                    /\ printed \in Seq({AsSent(SentFiles[n]) : n \in DOMAIN SentFiles})
                    /\ Len(printed) <= Len(SentFiles)
                    /\ \A n \in 1..Len(printed) : printed[n] = AsSent(SentFiles[n])
  BY Zenon DEF FilesInv
<1>1. phase = "decode" /\ printed = <<>>
  BY DEF DecoderInit
<1>2. Len(SentFiles) \in Nat
  <2>1. TextIs
    BY InitDecoderInv, Zenon DEF DecoderInv
  <2> QED
    BY <2>1, FilesKept, Zenon
<1> DEFINE S == {AsSent(SentFiles[n]) : n \in DOMAIN SentFiles}
           N == Len(SentFiles)
<1> HIDE DEF S, N
<1>3. phase # "crashed" /\ phase # "done"
  BY <1>1
<1>4. printed \in Seq(S) /\ Len(printed) = 0
  BY <1>1
<1>5. Len(printed) <= N
  BY <1>2, <1>4 DEF N
<1>6. \A n \in 1..Len(printed) : FALSE
  BY <1>4
<1> QED
  BY <1>1, <1>3, <1>4, <1>5, <1>6, Zenon DEF S, N

LEMMA PrintFileOn ==
  ASSUME NEW N \in Nat, NEW g, NEW S, NEW s \in Seq(S), Len(s) < N,
         \A n \in 1..Len(s) : s[n] = g[n], g[Len(s) + 1] \in S
  PROVE  LET t == Append(s, g[Len(s) + 1])
         IN /\ t \in Seq(S) /\ Len(t) <= N
            /\ \A n \in 1..Len(t) : t[n] = g[n]
<1> DEFINE l == Len(s)
           e == g[l + 1]
           t == Append(s, e)
<1>1. l \in Nat
  OBVIOUS
<1>2. /\ t \in Seq(S) /\ Len(t) = l + 1 /\ t[l + 1] = e
      /\ \A n \in 1..l : t[n] = s[n]
  <2>1. e \in S
    OBVIOUS
  <2> HIDE DEF e
  <2> QED
    BY <2>1, OneMore
<1> HIDE DEF l, t
<1>3. Len(t) <= N
  BY <1>1, <1>2 DEF l
<1>4. ASSUME NEW n \in 1..Len(t)
      PROVE  t[n] = g[n]
  <2>1. CASE n = l + 1
    BY <1>2, <2>1, Zenon
  <2>2. CASE n # l + 1
    <3>1. n \in 1..l
      BY <1>1, <1>2, <2>2
    <3> QED
      BY <1>2, <3>1, Zenon DEF l
  <2> QED
    BY <2>1, <2>2
<1> QED
  BY <1>2, <1>3, <1>4, Zenon DEF l, t

LEMMA NextFilesInv ==
  ASSUME DecoderInv, FilesInv, [DecoderNext]_decoder
  PROVE  FilesInv'
<1>1. UNCHANGED sent
  BY Zenon DEF DecoderNext, PassLeaf, Enter, Skipped, Return, Aborts, GetFiles, PrintFile,
               FilesEnd, decoder, sent
<1>2. dict' = dict /\ cut' = cut
  BY <1>1, Zenon DEF sent
<1>3. ProperMetadata' <=> ProperMetadata
  BY <1>2, Zenon DEF ProperMetadata, Complete, SentFiles
<1> SUFFICES ASSUME ProperMetadata
             PROVE  FilesInv'
  BY <1>3, Zenon DEF FilesInv
<1> DEFINE F == SentFiles
           N == Len(F)
           S == {AsSent(F[n]) : n \in DOMAIN F}
           g == [n \in 1..N |-> AsSent(F[n])]
           R == Files(result)
<1>4. /\ phase # "crashed" /\ (phase \notin {"files", "done"} => printed = <<>>)
      /\ printed \in Seq(S) /\ Len(printed) <= N
      /\ \A n \in 1..Len(printed) : printed[n] = AsSent(F[n])
      /\ phase = "done" => Len(printed) = N
  BY Zenon DEF FilesInv
<1>5. /\ phase \in {"decode", "aborted", "decoded", "files", "done", "crashed"}
      /\ Decoded => result = Mapped[dict]
      /\ TextIs
  BY Zenon DEF DecoderInv, ProperMetadata
<1>6. /\ HasOf(Mapped[dict], FilesKey, "l") /\ ~Shares(Mapped[dict])
      /\ N \in Nat /\ DOMAIN F = 1..N /\ Len(Files(Mapped[dict])) = N
      /\ \A n \in 1..N : /\ IsFile(Files(Mapped[dict])[n])
                         /\ ~Shares(Files(Mapped[dict])[n])
                         /\ Printed(Files(Mapped[dict])[n]) = AsSent(F[n])
  BY <1>5, FilesKept, Zenon
<1>7. Len(printed) \in Nat
  BY <1>4, Elements, Zenon
<1>8. SentFiles' = F
  BY <1>2, Zenon DEF SentFiles
<1>9. ASSUME /\ phase' # "crashed" /\ (phase' \notin {"files", "done"} => printed' = <<>>)
             /\ printed' \in Seq(S) /\ Len(printed') <= N
             /\ \A n \in 1..Len(printed') : printed'[n] = AsSent(F[n])
             /\ phase' = "done" => Len(printed') = N
      PROVE  FilesInv'
  BY <1>8, <1>9, Zenon DEF FilesInv
<1>10. CASE printed' = printed /\ phase' = phase
  BY <1>4, <1>9, <1>10, Zenon
<1>11. CASE printed' = printed /\ phase = "decode" /\ phase' \in {"decoded", "aborted"}
  <2>1. phase \notin {"files", "done"} /\ phase' # "crashed" /\ phase' # "done"
    BY <1>11
  <2> QED
    BY <1>4, <1>9, <1>11, <2>1, Zenon
<1>12. CASE GetFiles
  <2>1. /\ phase = "decoded" /\ printed' = printed
        /\ phase' = IF HasOf(result, FilesKey, "l") THEN "files" ELSE "crashed"
    BY <1>12, Zenon DEF GetFiles
  <2>2. result = Mapped[dict]
    BY <1>5, <2>1 DEF Decoded
  <2>3. phase' = "files"
    BY <1>6, <2>1, <2>2, Zenon
  <2>4. phase' # "crashed" /\ phase' # "done" /\ phase' \in {"files", "done"}
    BY <2>3
  <2> QED
    BY <1>4, <1>9, <2>1, <2>4, Zenon
<1>13. CASE PrintFile
  <2> DEFINE n == Len(printed) + 1
             f == R[n]
  <2>1. /\ phase = "files" /\ Len(printed) < Len(R)
        /\ \/ /\ IsFile(f) /\ printed' = Append(printed, Printed(f))
              /\ phase' = phase \/ Shares(f)
           \/ ~IsFile(f)
    BY <1>13, Zenon DEF PrintFile, MoreFiles
  <2>2. result = Mapped[dict]
    BY <1>5, <2>1 DEF Decoded
  <2>3. Len(R) = N
    BY <1>6, <2>2, Zenon
  <2> HIDE DEF R, F, N, S
  <2>4. n \in 1..N /\ Len(printed) < N
    BY <1>6, <1>7, <2>1, <2>3
  <2>5. IsFile(f) /\ ~Shares(f) /\ Printed(f) = AsSent(F[n])
    BY <1>6, <2>2, <2>4, Zenon DEF R
  <2>6. printed' = Append(printed, g[n]) /\ g[n] \in S
    <3>1. g[n] = AsSent(F[n])
      BY <2>4, Zenon
    <3>2. AsSent(F[n]) \in S
      BY <1>6, <2>4, Zenon DEF S
    <3> QED
      BY <2>1, <2>5, <3>1, <3>2, Zenon
  <2>7. \A m \in 1..Len(printed) : printed[m] = g[m]
    <3>1. \A m \in 1..Len(printed) : m \in 1..N
      BY <1>4, <1>6, <1>7
    <3> QED
      BY <1>4, <3>1, Zenon
  <2> HIDE DEF g
  <2>8. /\ printed' \in Seq(S) /\ Len(printed') <= N
        /\ \A m \in 1..Len(printed') : printed'[m] = g[m]
    BY <1>4, <1>6, <2>4, <2>6, <2>7, PrintFileOn
  <2>9. \A m \in 1..Len(printed') : printed'[m] = AsSent(F[m])
    <3>1. Len(printed') \in Nat
      BY <2>8, Elements, Zenon
    <3>2. \A m \in 1..Len(printed') : m \in 1..N
      BY <1>6, <2>8, <3>1
    <3>3. \A m \in 1..N : g[m] = AsSent(F[m])
      BY Zenon DEF g
    <3> QED
      BY <2>8, <3>2, <3>3, Zenon
  <2>10. phase' = "files"
    BY <2>1, <2>5, Zenon
  <2>11. phase' # "crashed" /\ phase' # "done" /\ phase' \in {"files", "done"}
    BY <2>10
  <2> QED
    BY <1>9, <2>8, <2>9, <2>11, Zenon DEF F, N, S
<1>14. CASE FilesEnd
  <2>1. /\ phase = "files" /\ ~(Len(printed) < Len(R)) /\ printed' = printed
        /\ phase' = "done" \/ Shares(result)
    BY <1>14, Zenon DEF FilesEnd, MoreFiles
  <2>2. result = Mapped[dict]
    BY <1>5, <2>1 DEF Decoded
  <2>6. phase' = "done"
    BY <1>6, <2>1, <2>2, Zenon
  <2>3. Len(R) = N
    BY <1>6, <2>2, Zenon
  <2> HIDE DEF R, F, N, S
  <2>4. Len(printed) = N
    BY <1>4, <1>6, <1>7, <2>1, <2>3
  <2>5. phase' # "crashed" /\ phase' \in {"files", "done"}
    BY <2>6
  <2> QED
    BY <1>4, <1>9, <2>1, <2>4, <2>5, Zenon DEF F, N, S
<1>15. CASE PassLeaf \/ Enter \/ Skipped
  <2>1. printed' = printed /\ phase' = phase
    BY <1>15, Zenon DEF PassLeaf, Enter, Skipped
  <2> QED
    BY <1>10, <2>1, Zenon
<1>16. CASE Aborts
  <2>1. printed' = printed /\ phase = "decode" /\ phase' = "aborted"
    BY <1>16, Zenon DEF Aborts
  <2> QED
    BY <1>11, <2>1
<1>17. CASE Return
  <2>1. printed' = printed /\ phase = "decode" /\ (phase' = phase \/ phase' = "decoded")
    BY <1>17, Zenon DEF Return
  <2> QED
    BY <1>10, <1>11, <2>1
<1>18. CASE UNCHANGED decoder
  <2>1. printed' = printed /\ phase' = phase
    BY <1>18, Zenon DEF decoder
  <2> QED
    BY <1>10, <2>1, Zenon
<1> QED
  BY <1>12, <1>13, <1>14, <1>15, <1>16, <1>17, <1>18, Zenon DEF DecoderNext

(* A text that is complete is decoded to what was sent, but for what maps and
   lists do not keep, whatever lies behind it (bencode.c:24-103); and of proper
   metadata, whose maps have a slot for each key and whose sizes are below 2^31,
   each file is printed with its name and its size, on a little-endian machine,
   and nothing is freed twice (peer.c:236-271).                                *)
THEOREM DecoderReadsMetadata == DecoderSpec => []MetadataIsRead
<1>1. DecoderInit => FilesInv
  BY InitFilesInv
<1>2. DecoderInv /\ FilesInv /\ [DecoderNext]_decoder => FilesInv'
  BY NextFilesInv
<1>3. DecoderInv /\ FilesInv => MetadataIsRead
  <2> SUFFICES ASSUME DecoderInv, FilesInv
               PROVE  MetadataIsRead
    OBVIOUS
  <2>1. CompleteIsDecoded
    BY Zenon DEF DecoderInv, CompleteIsDecoded
  <2>2. ASSUME ProperMetadata
        PROVE  /\ phase \notin {"aborted", "crashed"}
               /\ phase = "done" =>
                    printed = [n \in DOMAIN SentFiles |-> AsSent(SentFiles[n])]
    <3> DEFINE F == SentFiles
               N == Len(F)
               S == {AsSent(F[n]) : n \in DOMAIN F}
    <3>1. /\ phase # "crashed" /\ printed \in Seq(S)
          /\ \A n \in 1..Len(printed) : printed[n] = AsSent(F[n])
          /\ phase = "done" => Len(printed) = N
      BY <2>2, Zenon DEF FilesInv
    <3>2. phase # "aborted"
      BY <2>2, Zenon DEF DecoderInv, ProperMetadata
    <3>3. DOMAIN F = 1..N
      BY <2>2, FilesKept, Zenon DEF DecoderInv
    <3> HIDE DEF F, N, S
    <3>4. printed \in [1..Len(printed) -> S]
      BY <3>1
    <3>5. ASSUME phase = "done"
          PROVE  printed = [n \in DOMAIN F |-> AsSent(F[n])]
      BY <3>1, <3>3, <3>4, <3>5
    <3>6. phase \notin {"aborted", "crashed"}
      BY <3>1, <3>2
    <3> QED
      BY <3>5, <3>6, Zenon DEF F
  <2>3. FilesArePrinted
    BY <2>2, Zenon DEF FilesArePrinted
  <2> QED
    BY <2>1, <2>3, Zenon DEF MetadataIsRead
<1> QED
  BY <1>1, <1>2, <1>3, DecoderInvariant, PTL DEF DecoderSpec
==============================================================================
