---------------------------- MODULE Magnet_proofs ----------------------------
(***************************************************************************)
(* Proofs about the parse of magnet links, for links of any length, any    *)
(* writing of their names and addresses, and any hash function.            *)
(***************************************************************************)
EXTENDS Magnet, FiniteSetTheorems, TLAPS

Order == INSTANCE WellFoundedInduction

-----------------------------------------------------------------------------
(* What is shown step by step up to a number, by the least one at which it
   would fail.                                                               *)

LEMMA Least ==
  ASSUME NEW T, T \subseteq Nat, T # {}
  PROVE  \E x \in T : \A y \in T : x <= y
<1> DEFINE R == Order!OpToRel(<, Nat)
<1>1. Order!IsWellFoundedOn(R, Nat)
  BY Order!NatLessThanWellFounded, Zenon
<1>2. \A x, y \in Nat : x < y => <<x, y>> \in R
  BY Zenon DEF Order!OpToRel
<1> HIDE DEF R
<1>3. PICK x \in T : \A y \in T : ~(<<y, x>> \in R)
  BY <1>1, Order!WFMin, Zenon
<1>4. ASSUME NEW y \in T
      PROVE  x <= y
  <2>1. x \in Nat /\ y \in Nat
    OBVIOUS
  <2>2. ~(y < x)
    BY <1>2, <1>3, <2>1, Zenon
  <2> QED
    BY <2>1, <2>2
<1> QED
  BY <1>4

LEMMA Upward ==
  ASSUME NEW n \in Nat, NEW G, 0 \in G, \A k \in 1..n : k - 1 \in G => k \in G
  PROVE  \A k \in 0..n : k \in G
<1> SUFFICES ASSUME (0..n) \ G # {}
             PROVE  FALSE
  OBVIOUS
<1>1. (0..n) \ G \subseteq Nat
  OBVIOUS
<1>2. PICK m \in (0..n) \ G : \A y \in (0..n) \ G : m <= y
  BY <1>1, Least, Zenon
<1>3. m # 0 /\ m \in 0..n /\ m \notin G
  BY <1>2
<1>4. m \in 1..n /\ m - 1 \in 0..n /\ ~(m <= m - 1)
  BY <1>3
<1>5. m - 1 \in G
  BY <1>2, <1>4
<1> QED
  BY <1>3, <1>4, <1>5

(* A function that recurs from one number to the next exists. *)
Recursion(S, n, a, g, f) ==
  /\ f \in [0..n -> S] /\ f[0] = a
  /\ \A k \in 1..n : f[k] = g[<<k, f[k - 1]>>]

LEMMA Recurs ==
  ASSUME NEW S, NEW n \in Nat, NEW a \in S, NEW g \in [(1..n) \X S -> S]
  PROVE  \E f : Recursion(S, n, a, g, f)
<1> DEFINE Steps(m, f) == /\ f \in [0..m -> S] /\ f[0] = a
                          /\ \A k \in 1..m : f[k] = g[<<k, f[k - 1]>>]
           G == {m \in 0..n : \E f : Steps(m, f)}
<1>1. 0 \in G
  <2>1. Steps(0, [k \in 0..0 |-> a])
    OBVIOUS
  <2>2. 0 \in 0..n
    OBVIOUS
  <2> QED
    BY <2>1, <2>2
<1>2. ASSUME NEW m \in 1..n, m - 1 \in G
      PROVE  m \in G
  <2>1. PICK f : Steps(m - 1, f)
    BY <1>2
  <2> DEFINE v == g[<<m, f[m - 1]>>]
             h == [k \in 0..m |-> IF k = m THEN v ELSE f[k]]
  <2>2. f[m - 1] \in S /\ v \in S
    BY <2>1
  <2> HIDE DEF v
  <2>3. /\ h \in [0..m -> S] /\ h[m] = v
        /\ \A k \in 0..(m - 1) : h[k] = f[k]
    BY <2>1, <2>2
  <2> HIDE DEF h
  <2>4. h[0] = a
    BY <2>1, <2>3
  <2>5. ASSUME NEW k \in 1..m
        PROVE  h[k] = g[<<k, h[k - 1]>>]
    <3>1. k - 1 \in 0..(m - 1) /\ h[k - 1] = f[k - 1]
      BY <2>3
    <3>2. CASE k = m
      BY <2>3, <3>1, <3>2 DEF v
    <3>3. CASE k # m
      <4>1. k \in 1..(m - 1) /\ k \in 0..(m - 1)
        BY <3>3
      <4> QED
        BY <2>1, <2>3, <3>1, <4>1
    <3> QED
      BY <3>2, <3>3
  <2>6. Steps(m, h)
    BY <2>3, <2>4, <2>5
  <2>7. m \in 0..n
    OBVIOUS
  <2> HIDE DEF Steps
  <2> QED
    BY <2>6, <2>7
<1>3. n \in G
  <2> HIDE DEF G
  <2>1. \A k \in 0..n : k \in G
    BY <1>1, <1>2, Upward, Zenon
  <2> QED
    BY <2>1
<1>4. PICK f : Steps(n, f)
  BY <1>3
<1>5. Recursion(S, n, a, g, f)
  BY <1>4 DEF Recursion
<1> QED
  BY <1>5

-----------------------------------------------------------------------------
(* The parameters of a link *)

Str == Seq(Nat)

(* What is known of a parameter of a link that is written as it should be. *)
Proper(p) ==
  /\ p.name \in Str /\ p.value \in Str /\ p.value # BareName
  /\ Len(p.name) \in Nat /\ Len(p.value) \in Nat
  /\ Len(p.name) < BufLen /\ Len(p.value) < BufLen
  /\ \A j \in 1..Len(p.name) : p.name[j] # Equals
  /\ \A j \in 1..Len(p.value) : p.value[j] # Ampersand
  /\ get_hash[p.name] \in Nat

LEMMA ProperParams ==
  ASSUME NEW l \in Links, Written(l)
  PROVE  /\ Len(l) \in Nat /\ DOMAIN l = 1..Len(l)
         /\ \A n \in 1..Len(l) : Proper(l[n]) /\ (n = Len(l) => Len(l[n].value) # 0)
<1>1. l \in Seq([name : Str, value : Str \cup {BareName}])
  BY LinksAssumption DEF Str
<1>2. Len(l) \in Nat /\ DOMAIN l = 1..Len(l)
  BY <1>1
<1>3. ASSUME NEW n \in 1..Len(l)
      PROVE  Proper(l[n]) /\ (n = Len(l) => Len(l[n].value) # 0)
  <2>1. l[n] \in [name : Str, value : Str \cup {BareName}]
    <3>1. \A S : l \in Seq(S) => l[n] \in S
      OBVIOUS
    <3> QED
      BY <1>1, <3>1, Zenon
  <2>2. /\ l[n].value # BareName /\ Len(l[n].name) < BufLen /\ Len(l[n].value) < BufLen
    BY <1>2 DEF Written
  <2>3. l[n].name \in Str /\ l[n].value \in Str
    BY <2>1, <2>2
  <2>4. PICK x, y \in Str : x = l[n].name /\ y = l[n].value
    BY <2>3
  <2>5. /\ DOMAIN x = 1..Len(x) /\ Len(x) \in Nat /\ DOMAIN y = 1..Len(y) /\ Len(y) \in Nat
        /\ (Len(y) = 0 => y = <<>>)
    BY DEF Str
  <2>6. /\ \A j \in DOMAIN l[n].name : l[n].name[j] # Equals
        /\ \A j \in DOMAIN l[n].value : l[n].value[j] # Ampersand
        /\ get_hash[l[n].name] \in Nat
    BY <1>2, <2>2, LinksAssumption, Zenon
  <2>7. Proper(l[n])
    <3>1. /\ \A j \in 1..Len(x) : x[j] # Equals
          /\ \A j \in 1..Len(y) : y[j] # Ampersand
      BY <2>4, <2>5, <2>6, Zenon
    <3> QED
      BY <2>2, <2>3, <2>4, <2>5, <2>6, <3>1, Zenon DEF Proper
  <2>8. ASSUME n = Len(l)
        PROVE  Len(l[n].value) # 0
    <3>1. l # <<>>
      BY <1>2, <2>8
    <3>2. y # <<>>
      BY <2>4, <2>8, <3>1, Zenon DEF Written
    <3> QED
      BY <2>4, <2>5, <3>2, Zenon
  <2> QED
    BY <2>7, <2>8
<1> QED
  BY <1>2, <1>3, Zenon

-----------------------------------------------------------------------------
(* What the map holds *)

Pair == [key : Str, value : Str]

(* Parameter m puts a pair into slot s. *)
Puts(l, m, s) == l[m].name # <<tr>> /\ Map!Slot(l[m].name) = s

(* A slot in which the first n parameters put none is empty; another has the
   first of them at its head, and nothing else if they have a slot each.     *)
SlotHolds(l, n, s, chain) ==
  /\ chain \in Seq(Pair)
  /\ \/ chain = <<>> /\ \A m \in 1..n : ~Puts(l, m, s)
     \/ \E m \in 1..n :
          /\ Puts(l, m, s) /\ \A k \in 1..(m - 1) : ~Puts(l, k, s)
          /\ chain # <<>> /\ chain[1] = [key |-> l[m].name, value |-> l[m].value]
          /\ SlotsApart(l) => Len(chain) = 1

Used(bs) == {s \in Map!Slots : bs[s] # <<>>}

MapIs(bs, count, l, n) ==
  /\ bs = [s \in Map!Slots |-> bs[s]]
  /\ count = Cardinality(Used(bs))
  /\ \A s \in Map!Slots : SlotHolds(l, n, s, bs[s])

LEMMA SlotsAre ==
  /\ Map!Slots = 0..(NumSlots - 1) /\ NumSlots \in Nat /\ IsFiniteSet(Map!Slots)
  /\ \A T \in SUBSET Map!Slots : IsFiniteSet(T) /\ Cardinality(T) \in Nat
<1>1. NumSlots \in Nat /\ Map!Slots = 0..(NumSlots - 1)
  BY MagnetAssumption DEF Map!Slots
<1>2. IsFiniteSet(0..(NumSlots - 1))
  BY <1>1, FS_Interval
<1>3. \A T \in SUBSET Map!Slots : IsFiniteSet(T) /\ Cardinality(T) \in Nat
  BY <1>1, <1>2, FS_Subset, FS_CardinalityType
<1> QED
  BY <1>1, <1>2, <1>3

LEMMA SlotIs ==
  ASSUME NEW k, get_hash[k] \in Nat
  PROVE  Map!Slot(k) \in Map!Slots
<1>1. NumSlots \in Nat \ {0}
  BY MagnetAssumption
<1>2. \A h \in Nat : \A n \in Nat \ {0} : h % n \in 0..(n - 1)
  BY SMT
<1> QED
  BY <1>1, <1>2, Zenon DEF Map!Slots, Map!Slot

LEMMA EmptyMap ==
  ASSUME NEW l
  PROVE  MapIs([s \in Map!Slots |-> <<>>], 0, l, 0)
<1>1. PICK bs : bs = [s \in Map!Slots |-> <<>>]
  OBVIOUS
<1>2. bs = [s \in Map!Slots |-> bs[s]] /\ \A s \in Map!Slots : bs[s] = <<>>
  BY <1>1
<1>3. Used(bs) = {}
  BY <1>2 DEF Used
<1>4. Cardinality(Used(bs)) = 0
  BY <1>3, FS_EmptySet
<1>5. \A s \in Map!Slots : SlotHolds(l, 0, s, bs[s])
  <2>1. <<>> \in Seq(Pair) /\ \A m \in 1..0 : FALSE
    OBVIOUS
  <2> QED
    BY <1>2, <2>1, Zenon DEF SlotHolds
<1> QED
  BY <1>1, <1>2, <1>4, <1>5, Zenon DEF MapIs

(* A tracker leaves the map as it is, ... *)
LEMMA SlotAfterTracker ==
  ASSUME NEW l, NEW n \in Nat, n >= 1, NEW s, ~Puts(l, n, s), NEW chain, SlotHolds(l, n - 1, s, chain)
  PROVE  SlotHolds(l, n, s, chain)
<1>1. \A m \in 1..n : m = n \/ m \in 1..(n - 1)
  OBVIOUS
<1>2. \A m \in 1..(n - 1) : m \in 1..n
  OBVIOUS
<1> QED
  BY <1>1, <1>2, Zenon DEF SlotHolds

LEMMA MapAfterTracker ==
  ASSUME NEW l, NEW n \in Nat, n >= 1, l[n].name = <<tr>>, NEW bs, NEW count, MapIs(bs, count, l, n - 1)
  PROVE  MapIs(bs, count, l, n)
<1>1. \A s : ~Puts(l, n, s)
  BY Zenon DEF Puts
<1> QED
  BY <1>1, SlotAfterTracker, Zenon DEF MapIs

(* ... and another parameter is put into its slot. *)
LEMMA SlotAfterPair ==
  ASSUME NEW l, NEW n \in Nat, n >= 1, Proper(l[n]), n \in DOMAIN l, DOMAIN l \subseteq Nat,
         1..n \subseteq DOMAIN l,
         NEW s, Puts(l, n, s), NEW chain, SlotHolds(l, n - 1, s, chain)
  PROVE  /\ SlotHolds(l, n, s, Map!Chained(chain, l[n].name, l[n].value))
         /\ Map!Chained(chain, l[n].name, l[n].value) # <<>>
         /\ SlotsApart(l) => chain = <<>>
<1>1. PICK p \in Pair : p = [key |-> l[n].name, value |-> l[n].value]
  BY DEF Proper, Pair
<1>2. PICK z : z = Map!Chained(chain, l[n].name, l[n].value) /\ z = Append(chain, p)
  BY <1>1, Zenon DEF Map!Chained
<1>3. chain \in Seq(Pair)
  BY Zenon DEF SlotHolds
<1>4. /\ z \in Seq(Pair) /\ z # <<>>
      /\ chain = <<>> => z[1] = p /\ Len(z) = 1
      /\ chain # <<>> => z[1] = chain[1]
  <2>1. /\ z \in Seq(Pair) /\ Len(z) = Len(chain) + 1 /\ Len(chain) \in Nat
        /\ \A j \in 1..Len(chain) : z[j] = chain[j]
        /\ z[Len(chain) + 1] = p
    BY <1>2, <1>3
  <2>2. z # <<>>
    BY <2>1
  <2>3. CASE chain = <<>>
    <3>1. Len(chain) = 0
      BY <2>3
    <3> QED
      BY <2>1, <2>2, <2>3, <3>1
  <2>4. CASE chain # <<>>
    <3>1. Len(chain) # 0
      BY <1>3, <2>4
    <3>2. 1 \in 1..Len(chain)
      BY <2>1, <3>1
    <3> QED
      BY <2>1, <2>2, <2>4, <3>2
  <2> QED
    BY <2>3, <2>4
<1>5. CASE chain = <<>>
  <2>1. \A m \in 1..(n - 1) : ~Puts(l, m, s)
    BY <1>5, Zenon DEF SlotHolds
  <2>2. n \in 1..n
    OBVIOUS
  <2> QED
    BY <1>1, <1>2, <1>4, <1>5, <2>1, <2>2, Zenon DEF SlotHolds
<1>6. CASE chain # <<>>
  <2>1. PICK m \in 1..(n - 1) :
          /\ Puts(l, m, s) /\ \A k \in 1..(m - 1) : ~Puts(l, k, s)
          /\ chain # <<>> /\ chain[1] = [key |-> l[m].name, value |-> l[m].value]
    BY <1>6, Zenon DEF SlotHolds
  <2>2. m \in 1..n /\ m # n
    OBVIOUS
  <2>3. ~SlotsApart(l)
    <3>1. m \in DOMAIN l
      BY <2>2
    <3> QED
      BY <2>1, <2>2, <3>1, Zenon DEF SlotsApart, Puts
  <2> QED
    BY <1>2, <1>4, <1>6, <2>1, <2>2, <2>3, Zenon DEF SlotHolds
<1> QED
  BY <1>5, <1>6

LEMMA MapAfterPair ==
  ASSUME NEW l \in Links, Written(l), NEW n \in 1..Len(l), l[n].name # <<tr>>,
         NEW bs, NEW count, MapIs(bs, count, l, n - 1)
  PROVE  LET s == Map!Slot(l[n].name)
         IN /\ MapIs([bs EXCEPT ![s] = Map!Chained(@, l[n].name, l[n].value)],
                     count + Map!NewSlots(bs[s]), l, n)
            /\ SlotsApart(l) => count < NumSlots
<1>1. /\ Proper(l[n]) /\ n \in Nat /\ n >= 1 /\ n \in DOMAIN l /\ DOMAIN l \subseteq Nat
      /\ 1..n \subseteq DOMAIN l
  <2>1. Len(l) \in Nat /\ DOMAIN l = 1..Len(l) /\ Proper(l[n])
    BY ProperParams
  <2> QED
    BY <2>1
<1>2. PICK s : s = Map!Slot(l[n].name)
  OBVIOUS
<1>3. s \in Map!Slots
  BY <1>1, <1>2, SlotIs, Zenon DEF Proper
<1>4. Puts(l, n, s) /\ \A x : x # s => ~Puts(l, n, x)
  BY <1>2, Zenon DEF Puts
<1>5. PICK z : z = Map!Chained(bs[s], l[n].name, l[n].value)
  OBVIOUS
<1>6. /\ bs = [x \in Map!Slots |-> bs[x]]
      /\ count = Cardinality(Used(bs))
      /\ \A x \in Map!Slots : SlotHolds(l, n - 1, x, bs[x])
  BY Zenon DEF MapIs
<1>7. SlotHolds(l, n, s, z) /\ z # <<>> /\ (SlotsApart(l) => bs[s] = <<>>)
  BY <1>1, <1>3, <1>4, <1>5, <1>6, SlotAfterPair, Zenon
<1>8. PICK cs : cs = [bs EXCEPT ![s] = z]
  OBVIOUS
<1>9. /\ cs = [x \in Map!Slots |-> cs[x]] /\ cs[s] = z
      /\ \A x \in Map!Slots : x # s => cs[x] = bs[x]
  BY <1>3, <1>6, <1>8
<1>10. \A x \in Map!Slots : SlotHolds(l, n, x, cs[x])
  <2> SUFFICES ASSUME NEW x \in Map!Slots
               PROVE  SlotHolds(l, n, x, cs[x])
    OBVIOUS
  <2>1. CASE x = s
    BY <1>7, <1>9, <2>1, Zenon
  <2>2. CASE x # s
    <3>1. SlotHolds(l, n, x, bs[x])
      BY <1>1, <1>4, <1>6, <2>2, SlotAfterTracker, Zenon
    <3> QED
      BY <1>9, <2>2, <3>1, Zenon
  <2> QED
    BY <2>1, <2>2
<1>11. Used(bs) \in SUBSET Map!Slots /\ Used(cs) \in SUBSET Map!Slots
  BY DEF Used
<1>12. IsFiniteSet(Used(bs)) /\ Cardinality(Used(bs)) \in Nat
  BY <1>11, SlotsAre
<1>13. Cardinality(Used(cs)) = count + Map!NewSlots(bs[s])
  <2>1. CASE bs[s] = <<>>
    <3>1. Used(cs) = Used(bs) \cup {s} /\ s \notin Used(bs)
      BY <1>3, <1>7, <1>9, <2>1 DEF Used
    <3>2. Cardinality(Used(cs)) = Cardinality(Used(bs)) + 1
      BY <1>12, <3>1, FS_AddElement
    <3>3. Map!NewSlots(bs[s]) = 1
      BY <2>1 DEF Map!NewSlots
    <3> QED
      BY <1>6, <3>2, <3>3
  <2>2. CASE bs[s] # <<>>
    <3>1. Used(cs) = Used(bs)
      BY <1>3, <1>7, <1>9, <2>2 DEF Used
    <3>2. Map!NewSlots(bs[s]) = 0
      BY <2>2 DEF Map!NewSlots
    <3> QED
      BY <1>6, <1>12, <3>1, <3>2
  <2> QED
    BY <2>1, <2>2
<1>14. ASSUME SlotsApart(l)
       PROVE  count < NumSlots
  <2>1. Used(bs) \subseteq Map!Slots \ {s}
    BY <1>7, <1>14 DEF Used
  <2>2. /\ IsFiniteSet(Map!Slots \ {s}) /\ Cardinality(Map!Slots \ {s}) = Cardinality(Map!Slots) - 1
    BY <1>3, SlotsAre, FS_RemoveElement
  <2>3. Cardinality(Map!Slots) = NumSlots
    <3>1. Cardinality(0..(NumSlots - 1)) = NumSlots
      <4>1. NumSlots \in Nat /\ NumSlots # 0
        BY MagnetAssumption
      <4>2. Cardinality(0..(NumSlots - 1)) = NumSlots - 1 - 0 + 1
        BY <4>1, FS_Interval
      <4> QED
        BY <4>1, <4>2
    <3> QED
      BY <3>1, SlotsAre
  <2>4. Cardinality(Used(bs)) <= Cardinality(Map!Slots \ {s})
    BY <2>1, <2>2, FS_Subset
  <2> QED
    BY <1>6, <1>12, <2>2, <2>3, <2>4, SlotsAre
<1>15. MapIs(cs, count + Map!NewSlots(bs[s]), l, n)
  BY <1>9, <1>10, <1>13, Zenon DEF MapIs
<1> QED
  BY <1>2, <1>5, <1>8, <1>14, <1>15, Zenon

-----------------------------------------------------------------------------
(* Sequences put one behind the other *)

LEMMA Concat ==
  ASSUME NEW x \in Str, NEW y \in Str
  PROVE  /\ x \o y \in Str /\ Len(x) \in Nat /\ Len(y) \in Nat
         /\ Len(x \o y) = Len(x) + Len(y)
         /\ \A j \in 1..Len(x) : (x \o y)[j] = x[j]
         /\ \A j \in 1..Len(y) : (x \o y)[Len(x) + j] = y[j]
BY DEF Str

Joins(x, y, z) ==
  /\ z \in Str /\ Len(x) \in Nat /\ Len(y) \in Nat
  /\ Len(z) = Len(x) + Len(y)
  /\ \A j \in 1..Len(x) : z[j] = x[j]
  /\ \A j \in 1..Len(y) : z[Len(x) + j] = y[j]

LEMMA ConcatIs ==
  ASSUME NEW x \in Str, NEW y \in Str
  PROVE  Joins(x, y, x \o y)
BY Concat, Zenon DEF Joins

LEMMA Regrouped ==
  ASSUME NEW x \in Str, NEW y \in Str, NEW z \in Str
  PROVE  (x \o y) \o z = x \o (y \o z)
BY DEF Str

LEMMA Empty == /\ <<>> \in Str
               /\ \A x \in Str : x \o <<>> = x /\ <<>> \o x = x
BY DEF Str

(* Prefixes are the beginnings of the flattened sequence. *)
Prefixes(seqs, F) ==
  /\ F \in [0..Len(seqs) -> Str]
  /\ F[0] = <<>>
  /\ \A k \in 1..Len(seqs) : F[k] = F[k - 1] \o seqs[k]

LEMMA Flattened ==
  ASSUME NEW seqs \in Seq(Str)
  PROVE  \E F : Prefixes(seqs, F) /\ Seqs!FlattenSeq(seqs) = F[Len(seqs)]
<1> DEFINE l == Len(seqs)
           flatten == CHOOSE f : f = [j \in 1..l |-> IF j = 1 THEN seqs[j]
                                                     ELSE f[j - 1] \o seqs[j]]
           g == [kx \in (1..l) \X Str |-> kx[2] \o seqs[kx[1]]]
           F == [k \in 0..l |-> IF k = 0 THEN <<>> ELSE flatten[k]]
<1>1. l \in Nat /\ \A k \in 1..l : seqs[k] \in Str
  OBVIOUS
<1>2. g \in [(1..l) \X Str -> Str]
  <2> SUFFICES ASSUME NEW kx \in (1..l) \X Str
               PROVE  kx[2] \o seqs[kx[1]] \in Str
    OBVIOUS
  <2> QED
    BY <1>1, Concat
<1>3. PICK f : Recursion(Str, l, <<>>, g, f)
  <2>1. l \in Nat /\ <<>> \in Str
    BY <1>1, Empty
  <2> HIDE DEF g, l
  <2> QED
    BY <1>2, <2>1, Recurs
<1>4. \A k \in 1..l : f[k] = f[k - 1] \o seqs[k] /\ f[k - 1] \in Str
  <2> SUFFICES ASSUME NEW k \in 1..l
               PROVE  f[k] = f[k - 1] \o seqs[k] /\ f[k - 1] \in Str
    OBVIOUS
  <2>1. k - 1 \in 0..l
    BY <1>1
  <2> QED
    BY <1>3, <2>1 DEF Recursion
<1>5. CASE l = 0
  <2>1. Prefixes(seqs, f)
    BY <1>3, <1>4 DEF Prefixes, Recursion
  <2>2. Seqs!FlattenSeq(seqs) = seqs /\ seqs = <<>>
    BY <1>5 DEF Seqs!FlattenSeq
  <2>3. Seqs!FlattenSeq(seqs) = f[Len(seqs)]
    BY <1>3, <1>5, <2>2 DEF Recursion
  <2> QED
    BY <2>1, <2>3
<1>6. CASE l # 0
  <2> DEFINE h == [j \in 1..l |-> f[j]]
  <2>1. h = [j \in 1..l |-> IF j = 1 THEN seqs[j] ELSE h[j - 1] \o seqs[j]]
    <3> SUFFICES ASSUME NEW j \in 1..l
                 PROVE  f[j] = IF j = 1 THEN seqs[j] ELSE h[j - 1] \o seqs[j]
      BY Zenon
    <3>1. CASE j = 1
      <4>1. f[1] = <<>> \o seqs[1]
        BY <1>3, <1>4, <3>1 DEF Recursion
      <4> QED
        BY <1>1, <3>1, <4>1, Empty
    <3>2. CASE j # 1
      <4>1. j - 1 \in 1..l
        BY <1>1, <3>2
      <4> QED
        BY <1>4, <3>2, <4>1
    <3> QED
      BY <3>1, <3>2
  <2>2. flatten = [j \in 1..l |-> IF j = 1 THEN seqs[j] ELSE flatten[j - 1] \o seqs[j]]
    <3> HIDE DEF h
    <3> QED
      BY <2>1, Zenon
  <2>3. Seqs!FlattenSeq(seqs) = flatten[l]
    BY <1>6 DEF Seqs!FlattenSeq
  <2> HIDE DEF flatten
  <2>4. \A k \in 1..l : F[k] = F[k - 1] \o seqs[k] /\ F[k] = flatten[k]
    <3> SUFFICES ASSUME NEW k \in 1..l
                 PROVE  F[k] = F[k - 1] \o seqs[k] /\ F[k] = flatten[k]
      OBVIOUS
    <3>1. F[k] = flatten[k] /\ k - 1 \in 0..l
      BY <1>1
    <3>2. CASE k = 1
      <4>1. F[k] = seqs[k] /\ F[k - 1] = <<>>
        BY <1>1, <2>2, <3>1, <3>2
      <4> QED
        BY <1>1, <3>1, <4>1, Empty
    <3>3. CASE k # 1
      <4>1. F[k - 1] = flatten[k - 1]
        BY <3>1, <3>3
      <4> QED
        BY <2>2, <3>1, <3>3, <4>1
    <3> QED
      BY <3>2, <3>3
  <2>5. F[0] = <<>> /\ DOMAIN F = 0..l
    BY <1>1
  <2>6. F[l] = flatten[l]
    BY <1>1, <1>6, <2>4
  <2>7. F = [k \in 0..l |-> F[k]]
    OBVIOUS
  <2> HIDE DEF F
  <2> DEFINE G == {k \in 0..l : F[k] \in Str}
  <2>8. 0 \in G
    BY <1>1, <2>5, Empty
  <2>9. ASSUME NEW k \in 1..l, k - 1 \in G
        PROVE  k \in G
    <3>1. F[k] \in Str
      BY <1>1, <2>4, <2>9, Concat
    <3> QED
      BY <3>1
  <2>10. \A k \in 0..l : k \in G
    <3> HIDE DEF G, l
    <3> QED
      BY <1>1, <2>8, <2>9, Upward, Zenon
  <2>11. F \in [0..l -> Str]
    BY <2>7, <2>10
  <2>12. Prefixes(seqs, F)
    BY <2>4, <2>5, <2>11 DEF Prefixes
  <2> QED
    BY <2>3, <2>6, <2>12
<1> QED
  BY <1>5, <1>6

(* at[k] is where the flattened sequence has come to behind its part k. *)
LaidOut(seqs, at) ==
  /\ at \in [0..Len(seqs) -> Nat] /\ at[0] = 0
  /\ Seqs!FlattenSeq(seqs) \in Str /\ Len(Seqs!FlattenSeq(seqs)) = at[Len(seqs)]
  /\ \A k \in 1..Len(seqs) :
       /\ at[k] = at[k - 1] + Len(seqs[k]) /\ at[k] <= at[Len(seqs)]
       /\ \A j \in 1..Len(seqs[k]) : Seqs!FlattenSeq(seqs)[at[k - 1] + j] = seqs[k][j]

LEMMA Layout ==
  ASSUME NEW seqs \in Seq(Str)
  PROVE  \E at : LaidOut(seqs, at)
<1>1. PICK F : Prefixes(seqs, F) /\ Seqs!FlattenSeq(seqs) = F[Len(seqs)]
  BY Flattened
<1> DEFINE l == Len(seqs)
           at == [k \in 0..l |-> Len(F[k])]
<1>2. /\ l \in Nat /\ \A k \in 1..l : seqs[k] \in Str /\ k - 1 \in 0..l /\ k \in 0..l
      /\ F \in [0..l -> Str] /\ F[0] = <<>>
      /\ \A k \in 1..l : F[k] = F[k - 1] \o seqs[k]
  BY <1>1 DEF Prefixes
<1>3. /\ at \in [0..l -> Nat] /\ at[0] = 0
      /\ \A k \in 0..l : at[k] = Len(F[k])
  BY <1>2 DEF Str
<1> HIDE DEF at, l
<1>4. ASSUME NEW k \in 1..l
      PROVE  /\ at[k] = at[k - 1] + Len(seqs[k])
             /\ at[k] \in Nat /\ at[k - 1] \in Nat /\ Len(seqs[k]) \in Nat
             /\ \A j \in 1..at[k - 1] : F[k][j] = F[k - 1][j]
             /\ \A j \in 1..Len(seqs[k]) : F[k][at[k - 1] + j] = seqs[k][j]
  <2>1. F[k - 1] \in Str /\ seqs[k] \in Str /\ F[k] = F[k - 1] \o seqs[k]
    BY <1>2
  <2>2. at[k] = Len(F[k]) /\ at[k - 1] = Len(F[k - 1])
    BY <1>2, <1>3
  <2>3. Joins(F[k - 1], seqs[k], F[k - 1] \o seqs[k])
    BY <2>1, ConcatIs, Zenon
  <2>4. Joins(F[k - 1], seqs[k], F[k])
    BY <2>1, <2>3, Zenon
  <2>5. /\ Len(F[k - 1]) \in Nat /\ Len(seqs[k]) \in Nat
        /\ Len(F[k]) = Len(F[k - 1]) + Len(seqs[k])
        /\ \A j \in 1..Len(F[k - 1]) : F[k][j] = F[k - 1][j]
        /\ \A j \in 1..Len(seqs[k]) : F[k][Len(F[k - 1]) + j] = seqs[k][j]
    BY <2>4, Zenon DEF Joins
  <2>6. at[k] \in Nat /\ at[k - 1] \in Nat
    <3>1. k \in 0..l /\ k - 1 \in 0..l
      BY <1>2
    <3> QED
      BY <1>3, <3>1
  <2>7. at[k] = at[k - 1] + Len(seqs[k])
    BY <2>2, <2>5, Zenon
  <2> QED
    BY <2>2, <2>5, <2>6, <2>7, Zenon
<1> DEFINE Holds(m) == \A k \in 1..m :
                         /\ at[k] <= at[m]
                         /\ \A j \in 1..Len(seqs[k]) : F[m][at[k - 1] + j] = seqs[k][j]
           G == {m \in 0..l : Holds(m)}
<1>5. 0 \in G
  BY <1>2
<1>6. ASSUME NEW m \in 1..l, m - 1 \in G
      PROVE  m \in G
  <2> SUFFICES ASSUME NEW k \in 1..m
               PROVE  /\ at[k] <= at[m]
                      /\ \A j \in 1..Len(seqs[k]) : F[m][at[k - 1] + j] = seqs[k][j]
    BY <1>2
  <2>1. k \in 1..l /\ m \in 1..l
    BY <1>2
  <2>2. CASE k = m
    BY <1>4, <2>1, <2>2
  <2>3. CASE k # m
    <3>1. k \in 1..(m - 1)
      BY <2>3
    <3>2. /\ at[k] <= at[m - 1]
          /\ \A j \in 1..Len(seqs[k]) : F[m - 1][at[k - 1] + j] = seqs[k][j]
      BY <1>6, <3>1
    <3>3. at[k] <= at[m]
      BY <1>4, <2>1, <3>2
    <3>4. ASSUME NEW j \in 1..Len(seqs[k])
          PROVE  F[m][at[k - 1] + j] = seqs[k][j]
      <4>1. at[k - 1] + j \in 1..at[m - 1]
        <5>1. /\ at[m - 1] \in Nat /\ at[k - 1] \in Nat /\ Len(seqs[k]) \in Nat
              /\ at[k] = at[k - 1] + Len(seqs[k]) /\ at[k] <= at[m - 1]
          BY <1>4, <2>1, <3>2, Zenon
        <5>2. PICK a, b, c, n : a = at[k - 1] /\ b = at[m - 1] /\ c = at[k] /\ n = Len(seqs[k])
          OBVIOUS
        <5>3. /\ a \in Nat /\ b \in Nat /\ n \in Nat /\ c = a + n /\ c <= b /\ j \in 1..n
          BY <5>1, <5>2, Zenon
        <5>4. a + j \in 1..b
          BY <5>3
        <5> QED
          BY <5>2, <5>4, Zenon
      <4>2. F[m][at[k - 1] + j] = F[m - 1][at[k - 1] + j]
        BY <1>4, <2>1, <4>1
      <4> QED
        BY <3>2, <4>2
    <3> QED
      BY <3>3, <3>4
  <2> QED
    BY <2>2, <2>3
<1>7. Holds(l)
  <2>1. \A k \in 0..l : k \in G
    <3> HIDE DEF G
    <3> QED
      BY <1>2, <1>5, <1>6, Upward, Zenon
  <2>2. l \in 0..l
    BY <1>2
  <2> HIDE DEF Holds
  <2> QED
    BY <2>1, <2>2
<1>8. F[l] \in Str /\ Len(F[l]) = at[l]
  BY <1>2, <1>3
<1>9. LaidOut(seqs, at)
  <2>1. /\ at \in [0..Len(seqs) -> Nat] /\ at[0] = 0
        /\ Seqs!FlattenSeq(seqs) \in Str /\ Len(Seqs!FlattenSeq(seqs)) = at[Len(seqs)]
    BY <1>1, <1>3, <1>8, Zenon DEF l
  <2>2. \A k \in 1..Len(seqs) : at[k] = at[k - 1] + Len(seqs[k])
    BY <1>4, Zenon DEF l
  <2>3. \A k \in 1..Len(seqs) :
          /\ at[k] <= at[Len(seqs)]
          /\ \A j \in 1..Len(seqs[k]) : Seqs!FlattenSeq(seqs)[at[k - 1] + j] = seqs[k][j]
    BY <1>1, <1>7, Zenon DEF l
  <2> QED
    BY <2>1, <2>2, <2>3, Zenon DEF LaidOut
<1> QED
  BY <1>9

-----------------------------------------------------------------------------
(* The text of a link *)

Length(p) == Len(p.name) + Len(p.value)

Piece(l, n) == IF n = 1 THEN ParamText(l[n]) ELSE <<Ampersand>> \o ParamText(l[n])

LEMMA ParamTextIs ==
  ASSUME NEW p, Proper(p)
  PROVE  /\ ParamText(p) \in Str /\ Len(ParamText(p)) = Length(p) + 1
         /\ \A j \in 1..Len(p.name) : ParamText(p)[j] = p.name[j]
         /\ ParamText(p)[Len(p.name) + 1] = Equals
         /\ \A j \in 1..Len(p.value) : ParamText(p)[Len(p.name) + 1 + j] = p.value[j]
<1>1. PICK x, y \in Str : x = p.name /\ y = p.value
  BY DEF Proper
<1>2. ParamText(p) = x \o <<Equals>> \o y
  BY <1>1, Zenon DEF ParamText, Proper
<1>3. /\ x \o <<Equals>> \o y \in Str
      /\ Len(x \o <<Equals>> \o y) = Len(x) + Len(y) + 1
      /\ \A j \in 1..Len(x) : (x \o <<Equals>> \o y)[j] = x[j]
      /\ (x \o <<Equals>> \o y)[Len(x) + 1] = Equals
      /\ \A j \in 1..Len(y) : (x \o <<Equals>> \o y)[Len(x) + 1 + j] = y[j]
  BY DEF Str, Equals
<1> QED
  BY <1>1, <1>2, <1>3, Zenon DEF Length

PieceLaid(p, t, off) ==
  /\ t \in Str /\ Len(t) = Length(p) + 1 + off
  /\ off # 0 => t[1] = Ampersand
  /\ \A j \in 1..Len(p.name) : t[off + j] = p.name[j]
  /\ t[off + Len(p.name) + 1] = Equals
  /\ \A j \in 1..Len(p.value) : t[off + Len(p.name) + 1 + j] = p.value[j]

Before(n) == IF n = 1 THEN 0 ELSE 1

LEMMA PieceIs ==
  ASSUME NEW l, NEW n, Proper(l[n])
  PROVE  PieceLaid(l[n], Piece(l, n), Before(n))
<1>1. PICK u, v, w : u = ParamText(l[n]) /\ v = l[n].name /\ w = l[n].value
  OBVIOUS
<1>2. /\ u \in Str /\ Len(v) \in Nat /\ Len(w) \in Nat /\ Len(u) = Len(v) + Len(w) + 1
      /\ \A j \in 1..Len(v) : u[j] = v[j]
      /\ u[Len(v) + 1] = Equals
      /\ \A j \in 1..Len(w) : u[Len(v) + 1 + j] = w[j]
  BY <1>1, ParamTextIs, Zenon DEF Length, Proper
<1>0. Length(l[n]) = Len(v) + Len(w)
  BY <1>1, Zenon DEF Length
<1>3. CASE n = 1
  <2>1. Piece(l, n) = u
    BY <1>1, <1>3, Zenon DEF Piece
  <2>2. /\ \A j \in 1..Len(v) : u[0 + j] = v[j]
        /\ u[0 + Len(v) + 1] = Equals /\ Len(u) = Len(v) + Len(w) + 1 + 0
        /\ \A j \in 1..Len(w) : u[0 + Len(v) + 1 + j] = w[j]
    BY <1>2
  <2>3. PieceLaid(l[n], u, 0)
    BY <1>0, <1>1, <1>2, <2>2, Zenon DEF PieceLaid
  <2> QED
    BY <1>3, <2>1, <2>3, Zenon DEF Before
<1>4. CASE n # 1
  <2>1. Piece(l, n) = <<Ampersand>> \o u
    BY <1>1, <1>4, Zenon DEF Piece
  <2>2. PICK z : z = <<Ampersand>> \o u
    OBVIOUS
  <2>3. /\ z \in Str /\ Len(z) = 1 + Len(u) /\ z[1] = Ampersand
        /\ \A j \in 1..Len(u) : z[1 + j] = u[j]
    BY <1>2, <2>2 DEF Str, Ampersand
  <2>4. /\ \A j \in 1..Len(v) : z[1 + j] = v[j]
        /\ z[1 + Len(v) + 1] = Equals
        /\ \A j \in 1..Len(w) : z[1 + Len(v) + 1 + j] = w[j]
    <3>1. \A j \in 1..Len(v) : j \in 1..Len(u)
      BY <1>2
    <3>2. Len(v) + 1 \in 1..Len(u) /\ 1 + Len(v) + 1 = 1 + (Len(v) + 1)
      BY <1>2
    <3>3. \A j \in 1..Len(w) : /\ Len(v) + 1 + j \in 1..Len(u)
                               /\ 1 + Len(v) + 1 + j = 1 + (Len(v) + 1 + j)
      BY <1>2
    <3>4. \A j \in 1..Len(v) : z[1 + j] = v[j]
      BY <1>2, <2>3, <3>1, Zenon
    <3>5. z[1 + Len(v) + 1] = Equals
      BY <1>2, <2>3, <3>2
    <3>6. ASSUME NEW j \in 1..Len(w)
          PROVE  z[1 + Len(v) + 1 + j] = w[j]
      <4>2. z[1 + (Len(v) + 1 + j)] = u[Len(v) + 1 + j]
        BY <2>3, <3>3, Zenon
      <4> QED
        BY <1>2, <3>3, <4>2, Zenon
    <3> QED
      BY <3>4, <3>5, <3>6, Zenon
  <2>5. Len(z) = Len(v) + Len(w) + 1 + 1
    BY <1>2, <2>3
  <2>6. PieceLaid(l[n], z, 1)
    BY <1>0, <1>1, <2>3, <2>4, <2>5, Zenon DEF PieceLaid
  <2> QED
    BY <1>4, <2>1, <2>2, <2>6, Zenon DEF Before
<1> QED
  BY <1>3, <1>4, Zenon

(* from[n] is how far the text has come when the name of parameter n starts. *)
LaidAt(l, from, n) ==
  LET p == l[n]
      m == from[n] + Len(l[n].name) + 1
  IN /\ from[n] \in Nat
     /\ from[n + 1] = from[n] + Length(p) + 2
     /\ from[n + 1] <= Len(Text(l)) + 1
     /\ n = Len(l) => from[n + 1] = Len(Text(l)) + 1
     /\ \A j \in 1..Len(p.name) : Text(l)[from[n] + j] = p.name[j]
     /\ Text(l)[m] = Equals
     /\ \A j \in 1..Len(p.value) : Text(l)[m + j] = p.value[j]
     /\ n # Len(l) => Text(l)[from[n + 1]] = Ampersand

Laid(l, from) ==
  /\ Text(l) \in Str /\ Len(Text(l)) \in Nat
  /\ l = <<>> => Len(Text(l)) = 0
  /\ from[1] = 0
  /\ \A n \in 1..Len(l) : LaidAt(l, from, n)

From(l) == CHOOSE from : Laid(l, from)

LEMMA PiecesOf ==
  ASSUME NEW l \in Links, Written(l)
  PROVE  \E seqs \in Seq(Str) : /\ Text(l) = Seqs!FlattenSeq(seqs) /\ Len(seqs) = Len(l)
                                /\ \A n \in 1..Len(l) : seqs[n] = Piece(l, n)
<1> DEFINE seqs == [n \in DOMAIN l |-> Piece(l, n)]
<1>1. /\ Len(l) \in Nat /\ DOMAIN l = 1..Len(l)
      /\ \A n \in 1..Len(l) : Proper(l[n])
  BY ProperParams
<1>2. \A n \in 1..Len(l) : Piece(l, n) \in Str
  BY <1>1, PieceIs, Zenon DEF PieceLaid
<1>3. seqs = [n \in 1..Len(l) |-> Piece(l, n)]
  BY <1>1
<1>4. seqs \in Seq(Str) /\ Len(seqs) = Len(l) /\ \A n \in 1..Len(l) : seqs[n] = Piece(l, n)
  BY <1>1, <1>2, <1>3
<1>5. Text(l) = Seqs!FlattenSeq(seqs)
  BY Zenon DEF Text, Piece
<1> QED
  BY <1>4, <1>5

LEMMA TextLaid ==
  ASSUME NEW l \in Links, Written(l)
  PROVE  Laid(l, From(l))
<1>1. PICK seqs \in Seq(Str) : /\ Text(l) = Seqs!FlattenSeq(seqs) /\ Len(seqs) = Len(l)
                               /\ \A n \in 1..Len(l) : seqs[n] = Piece(l, n)
  BY PiecesOf
<1>2. PICK at : LaidOut(seqs, at)
  BY Layout
<1>3. /\ Len(l) \in Nat
      /\ \A n \in 1..Len(l) : Proper(l[n])
  BY ProperParams
<1>4. PICK t : t = Text(l)
  OBVIOUS
<1>5. /\ at \in [0..Len(l) -> Nat] /\ at[0] = 0 /\ t \in Str /\ Len(t) = at[Len(l)]
      /\ \A k \in 1..Len(l) :
           /\ at[k] = at[k - 1] + Len(seqs[k]) /\ at[k] <= Len(t)
           /\ \A j \in 1..Len(seqs[k]) : t[at[k - 1] + j] = seqs[k][j]
  BY <1>1, <1>2, <1>4, Zenon DEF LaidOut
<1>6. Len(t) \in Nat
  BY <1>3, <1>5
<1>0. \A n \in 1..Len(l) : PieceLaid(l[n], seqs[n], Before(n))
  BY <1>1, <1>3, PieceIs, Zenon
<1> DEFINE from == [n \in 1..(Len(l) + 1) |-> IF n = 1 THEN 0 ELSE at[n - 1] + 1]
<1>7. from[1] = 0
  BY <1>3
<1>8. ASSUME NEW n \in 1..Len(l)
      PROVE  LaidAt(l, from, n)
  <2>0. PICK o : o = Before(n)
    OBVIOUS
  <2>1. from[n] = at[n - 1] + o /\ from[n + 1] = at[n] + 1
    BY <1>3, <1>5, <2>0 DEF Before
  <2>2. at[n - 1] \in Nat /\ at[n] \in Nat /\ o \in 0..1
    <3>1. n - 1 \in 0..Len(l) /\ n \in 0..Len(l) /\ 0 \in 0..1 /\ 1 \in 0..1
      BY <1>3
    <3>2. at[n - 1] \in Nat /\ at[n] \in Nat
      BY <1>5, <3>1, Zenon
    <3> QED
      BY <2>0, <3>1, <3>2, Zenon DEF Before
  <2> HIDE DEF from
  <2>3. PICK u, x, y, a : u = seqs[n] /\ x = l[n].name /\ y = l[n].value /\ a = at[n - 1]
    OBVIOUS
  <2>4. /\ Len(x) \in Nat /\ Len(y) \in Nat
        /\ Len(u) = Len(x) + Len(y) + 1 + o
        /\ \A j \in 1..Len(x) : u[o + j] = x[j]
        /\ u[o + Len(x) + 1] = Equals
        /\ \A j \in 1..Len(y) : u[o + Len(x) + 1 + j] = y[j]
    <3>1. PieceLaid(l[n], u, o) /\ Proper(l[n])
      BY <1>0, <1>3, <2>0, <2>3, Zenon
    <3> QED
      BY <2>3, <3>1, Zenon DEF Length, Proper, PieceLaid
  <2>5. /\ a \in Nat /\ at[n] = a + Len(u) /\ at[n] <= Len(t)
        /\ \A j \in 1..Len(u) : t[a + j] = u[j]
        /\ from[n] = a + o /\ from[n + 1] = a + Len(u) + 1
    BY <1>5, <2>1, <2>2, <2>3, Zenon
  <2>6. /\ from[n] \in Nat
        /\ from[n + 1] = from[n] + (Len(x) + Len(y)) + 2
        /\ from[n + 1] <= Len(t) + 1
    BY <1>6, <2>2, <2>4, <2>5
  <2>7. n = Len(l) => from[n + 1] = Len(t) + 1
    BY <1>5, <2>1, Zenon
  <2>12. PICK f, p, q, r : f = from[n] /\ p = Len(x) /\ q = Len(y) /\ r = Len(u)
    OBVIOUS
  <2>13. /\ p \in Nat /\ q \in Nat /\ o \in 0..1 /\ a \in Nat
         /\ r = p + q + 1 + o /\ f = a + o
    BY <2>2, <2>4, <2>5, <2>12, Zenon
  <2>8. ASSUME NEW j \in 1..Len(x)
        PROVE  t[from[n] + j] = x[j]
    <3>1. o + j \in 1..Len(u) /\ a + (o + j) = from[n] + j
      <4>1. j \in 1..p
        BY <2>12, Zenon
      <4>2. o + j \in 1..r /\ a + (o + j) = f + j
        BY <2>13, <4>1
      <4> QED
        BY <2>12, <4>2, Zenon
    <3> QED
      BY <2>4, <2>5, <3>1, Zenon
  <2>9. t[from[n] + Len(x) + 1] = Equals
    <3>1. o + Len(x) + 1 \in 1..Len(u) /\ a + (o + Len(x) + 1) = from[n] + Len(x) + 1
      <4>1. o + p + 1 \in 1..r /\ a + (o + p + 1) = f + p + 1
        BY <2>13
      <4> QED
        BY <2>12, <4>1, Zenon
    <3>2. t[a + (o + Len(x) + 1)] = u[o + Len(x) + 1]
      BY <2>5, <3>1, Zenon
    <3> QED
      BY <2>4, <3>1, <3>2, Zenon
  <2>10. ASSUME NEW j \in 1..Len(y)
         PROVE  t[from[n] + Len(x) + 1 + j] = y[j]
    <3>1. /\ o + Len(x) + 1 + j \in 1..Len(u)
          /\ a + (o + Len(x) + 1 + j) = from[n] + Len(x) + 1 + j
      <4>1. j \in 1..q
        BY <2>12, Zenon
      <4>2. o + p + 1 + j \in 1..r /\ a + (o + p + 1 + j) = f + p + 1 + j
        BY <2>13, <4>1
      <4> QED
        BY <2>12, <4>2, Zenon
    <3> QED
      BY <2>4, <2>5, <3>1, Zenon
  <2>11. ASSUME n # Len(l)
         PROVE  t[from[n + 1]] = Ampersand
    <3>1. n + 1 \in 1..Len(l) /\ n + 1 # 1 /\ n + 1 - 1 = n
      BY <1>3, <2>11
    <3>2. PICK v, b : v = seqs[n + 1] /\ b = at[n]
      OBVIOUS
    <3>3. PieceLaid(l[n + 1], v, 1) /\ Length(l[n + 1]) \in Nat
      <4>1. PieceLaid(l[n + 1], v, Before(n + 1)) /\ Proper(l[n + 1])
        BY <1>0, <1>3, <3>1, <3>2, Zenon
      <4>2. Before(n + 1) = 1
        BY <3>1 DEF Before
      <4>3. \A x1, y1 \in Nat : x1 + y1 \in Nat
        OBVIOUS
      <4> QED
        BY <4>1, <4>2, <4>3, Zenon DEF Proper, Length
    <3>4. v[1] = Ampersand /\ 1 \in 1..Len(v)
      <4>1. Len(v) = Length(l[n + 1]) + 1 + 1 /\ (1 # 0 => v[1] = Ampersand)
        BY <3>3, Zenon DEF PieceLaid
      <4> QED
        BY <3>3, <4>1
    <3>5. t[at[n] + 1] = v[1]
      <4>0. \A k \in 1..Len(l) : \A j \in 1..Len(seqs[k]) : t[at[k - 1] + j] = seqs[k][j]
        BY <1>5, Zenon
      <4>2. PICK m : m = n + 1 /\ m - 1 = n
        BY <3>1
      <4>3. \A j \in 1..Len(seqs[m]) : t[at[m - 1] + j] = seqs[m][j]
        BY <3>1, <4>0, <4>2, Zenon
      <4>1. \A j \in 1..Len(v) : t[b + j] = v[j]
        BY <3>2, <4>2, <4>3, Zenon
      <4> QED
        BY <3>2, <3>4, <4>1, Zenon
    <3> QED
      BY <2>1, <3>4, <3>5, Zenon
  <2> QED
    BY <1>4, <2>3, <2>6, <2>7, <2>8, <2>9, <2>10, <2>11, Zenon DEF LaidAt, Length
<1> HIDE DEF from
<1>9. l = <<>> => Len(t) = 0
  <2>1. l = <<>> => Len(l) = 0
    OBVIOUS
  <2> QED
    BY <1>5, <2>1, Zenon
<1>10. Laid(l, from)
  BY <1>4, <1>5, <1>6, <1>7, <1>8, <1>9, Zenon DEF Laid
<1> QED
  BY <1>10, Zenon DEF From

-----------------------------------------------------------------------------
(* string_split of what was joined with colons *)

LEMMA Longer ==
  ASSUME NEW S, NEW x \in Seq(S)
  PROVE  /\ Len(x) \in Nat /\ DOMAIN x = 1..Len(x)
         /\ SubSeq(x, 1, 0) = <<>> /\ SubSeq(x, 1, Len(x)) = x
         /\ \A c \in 1..Len(x) : SubSeq(x, 1, c) = Append(SubSeq(x, 1, c - 1), x[c])
         /\ \A c \in 0..Len(x) : SubSeq(x, 1, c) \in Seq(S) /\ Len(SubSeq(x, 1, c)) = c
<1>1. Len(x) \in Nat /\ DOMAIN x = 1..Len(x) /\ SubSeq(x, 1, Len(x)) = x
  OBVIOUS
<1>2. \A c \in 1..Len(x) : SubSeq(x, 1, c) = Append(SubSeq(x, 1, c - 1), x[c])
  OBVIOUS
<1>3. \A c \in 0..Len(x) : SubSeq(x, 1, c) \in Seq(S) /\ Len(SubSeq(x, 1, c)) = c
  OBVIOUS
<1>4. SubSeq(x, 1, 0) = <<>>
  <2>1. 0 \in 0..Len(x)
    BY <1>1
  <2>2. SubSeq(x, 1, 0) \in Seq(S) /\ Len(SubSeq(x, 1, 0)) = 0
    BY <1>3, <2>1, Zenon
  <2> QED
    BY <2>2
<1> QED
  BY <1>1, <1>2, <1>3, <1>4, Zenon

Split == [list : Seq(Str), buffer : Str]

Unsplit == [list |-> <<>>, buffer |-> <<>>]

Splits(input, f) ==
  /\ f \in [0..Len(input) -> Split] /\ f[0] = Unsplit
  /\ \A p \in 1..Len(input) : f[p] = SplitChar(f[p - 1], input[p])

SplitOf(input) ==
  CHOOSE f : f = [p \in 0..Len(input) |->
                    IF p = 0 THEN [list |-> <<>>, buffer |-> <<>>]
                    ELSE SplitChar(f[p - 1], input[p])]

LEMMA SplitCharType ==
  ASSUME NEW x \in Split, NEW c \in Nat
  PROVE  SplitChar(x, c) \in Split
<1>1. x.list \in Seq(Str) /\ x.buffer \in Str
  BY DEF Split
<1>2. CASE c = Colon
  <2>1. Append(x.list, x.buffer) \in Seq(Str) /\ <<>> \in Str
    BY <1>1, Empty
  <2> QED
    BY <1>2, <2>1 DEF SplitChar, Split
<1>3. CASE c # Colon
  <2>1. Append(x.buffer, c) \in Str
    BY <1>1 DEF Str
  <2>2. SplitChar(x, c) = [list |-> x.list, buffer |-> Append(x.buffer, c)]
    BY <1>3 DEF SplitChar, Split
  <2> QED
    BY <1>1, <2>1, <2>2 DEF Split
<1> QED
  BY <1>2, <1>3

LEMMA SplitRecurs ==
  ASSUME NEW input \in Str
  PROVE  Splits(input, SplitOf(input))
<1> DEFINE l == Len(input)
           g == [px \in (1..l) \X Split |-> SplitChar(px[2], input[px[1]])]
<1>1. l \in Nat /\ \A p \in 1..l : input[p] \in Nat
  BY DEF Str
<1>2. g \in [(1..l) \X Split -> Split]
  <2> SUFFICES ASSUME NEW px \in (1..l) \X Split
               PROVE  SplitChar(px[2], input[px[1]]) \in Split
    OBVIOUS
  <2> QED
    BY <1>1, SplitCharType
<1>3. Unsplit \in Split
  BY Empty DEF Unsplit, Split
<1>4. PICK f : Recursion(Split, l, Unsplit, g, f)
  <2> HIDE DEF g, l
  <2> QED
    BY <1>1, <1>2, <1>3, Recurs
<1>5. f \in [0..l -> Split] /\ f[0] = Unsplit
  BY <1>4 DEF Recursion
<1>6. ASSUME NEW p \in 1..l
      PROVE  f[p] = SplitChar(f[p - 1], input[p])
  <2>1. f[p - 1] \in Split /\ f[p] = g[<<p, f[p - 1]>>]
    <3>1. p - 1 \in 0..l
      BY <1>1
    <3>2. f[p] = g[<<p, f[p - 1]>>]
      <4> HIDE DEF g, l
      <4> QED
        BY <1>4, Zenon DEF Recursion
    <3> QED
      BY <1>5, <3>1, <3>2, Zenon
  <2> QED
    BY <2>1
<1>7. f = [p \in 0..Len(input) |->
             IF p = 0 THEN [list |-> <<>>, buffer |-> <<>>]
             ELSE SplitChar(f[p - 1], input[p])]
  <2>1. ASSUME NEW p \in 0..l
        PROVE  f[p] = IF p = 0 THEN Unsplit ELSE SplitChar(f[p - 1], input[p])
    <3>1. p # 0 => p \in 1..l
      BY <1>1
    <3> QED
      BY <1>5, <1>6, <3>1, Zenon
  <2> QED
    BY <1>5, <2>1, Zenon DEF Unsplit
<1>8. SplitOf(input) = [p \in 0..Len(input) |->
             IF p = 0 THEN [list |-> <<>>, buffer |-> <<>>]
             ELSE SplitChar(SplitOf(input)[p - 1], input[p])]
  BY <1>7, Zenon DEF SplitOf
<1> DEFINE h == SplitOf(input)
           G == {p \in 0..l : h[p] \in Split}
<1> HIDE DEF h
<1>9. /\ h = [p \in 0..l |-> h[p]] /\ h[0] = Unsplit
      /\ \A p \in 1..l : h[p] = SplitChar(h[p - 1], input[p])
  <2>1. h = [p \in 0..l |-> IF p = 0 THEN Unsplit ELSE SplitChar(h[p - 1], input[p])]
    BY <1>8, Zenon DEF h, Unsplit
  <2>2. 0 \in 0..l /\ \A p \in 1..l : p \in 0..l /\ p # 0
    BY <1>1
  <2> HIDE DEF l
  <2>3. h = [p \in 0..l |-> h[p]]
    BY <2>1, Zenon
  <2>4. h[0] = Unsplit
    BY <2>1, <2>2, Zenon
  <2>5. \A p \in 1..l : h[p] = SplitChar(h[p - 1], input[p])
    BY <2>1, <2>2, Zenon
  <2> QED
    BY <2>3, <2>4, <2>5
<1>10. \A p \in 0..l : p \in G
  <2>1. 0 \in G
    BY <1>1, <1>3, <1>9
  <2>2. ASSUME NEW p \in 1..l, p - 1 \in G
        PROVE  p \in G
    <3>1. h[p] \in Split
      BY <1>1, <1>9, <2>2, SplitCharType
    <3> QED
      BY <3>1
  <2> HIDE DEF G, l
  <2> QED
    BY <1>1, <2>1, <2>2, Upward, Zenon
<1>11. h \in [0..l -> Split]
  BY <1>9, <1>10
<1> QED
  BY <1>9, <1>11, Zenon DEF Splits, h

LEMMA SplitIs ==
  ASSUME NEW input
  PROVE  string_split(input) = Append(SplitOf(input)[Len(input)].list, SplitOf(input)[Len(input)].buffer)
BY Zenon DEF string_split, SplitOf

(* A text lies behind position p of another one, and has no colon. *)
LiesAt(t, p, x) ==
  /\ x \in Str /\ p \in Nat /\ p + Len(x) <= Len(t)
  /\ \A j \in 1..Len(x) : t[p + j] = x[j] /\ x[j] # Colon

At(f, p, list, buffer) == f[p] = [list |-> list, buffer |-> buffer]

(* Characters that are no colon come to the buffer, ... *)
LEMMA Buffered ==
  ASSUME NEW input \in Str, NEW f, Splits(input, f), NEW x, NEW p, LiesAt(input, p, x),
         NEW L, At(f, p, L, <<>>)
  PROVE  At(f, p + Len(x), L, x)
<1>0. /\ x \in Str /\ p \in Nat /\ p + Len(x) <= Len(input)
      /\ \A j \in 1..Len(x) : input[p + j] = x[j] /\ x[j] # Colon
      /\ f[p] = [list |-> L, buffer |-> <<>>]
  BY Zenon DEF LiesAt, At
<1>1. /\ Len(x) \in Nat /\ Len(input) \in Nat
      /\ SubSeq(x, 1, 0) = <<>> /\ SubSeq(x, 1, Len(x)) = x
      /\ \A c \in 1..Len(x) : SubSeq(x, 1, c) = Append(SubSeq(x, 1, c - 1), x[c])
  BY <1>0, Longer DEF Str
<1> DEFINE G == {c \in 0..Len(x) : f[p + c] = [list |-> L, buffer |-> SubSeq(x, 1, c)]}
<1>2. 0 \in G
  BY <1>0, <1>1
<1>3. ASSUME NEW c \in 1..Len(x), c - 1 \in G
      PROVE  c \in G
  <2>1. PICK q : q = p + c /\ q \in 1..Len(input) /\ q - 1 = p + (c - 1)
    BY <1>0, <1>1
  <2>2. f[q] = SplitChar(f[q - 1], input[q])
    BY <2>1, Zenon DEF Splits
  <2>3. PICK y : y = [list |-> L, buffer |-> SubSeq(x, 1, c - 1)]
    OBVIOUS
  <2>4. f[p + c] = SplitChar(y, x[c]) /\ x[c] # Colon
    BY <1>0, <1>3, <2>1, <2>2, <2>3
  <2>5. SplitChar(y, x[c]) = [list |-> L, buffer |-> Append(SubSeq(x, 1, c - 1), x[c])]
    BY <2>3, <2>4 DEF SplitChar
  <2>6. f[p + c] = [list |-> L, buffer |-> SubSeq(x, 1, c)]
    BY <1>1, <2>4, <2>5, Zenon
  <2> QED
    BY <2>6
<1>4. Len(x) \in G
  <2> HIDE DEF G
  <2>1. \A c \in 0..Len(x) : c \in G
    BY <1>1, <1>2, <1>3, Upward, Zenon
  <2>2. Len(x) \in 0..Len(x)
    BY <1>1
  <2> QED
    BY <2>1, <2>2, Zenon
<1> QED
  BY <1>1, <1>4 DEF At

(* ... and at a colon the buffer goes to the list. *)
LEMMA Listed ==
  ASSUME NEW input, NEW f, Splits(input, f), NEW p \in 1..Len(input), input[p] = Colon,
         NEW L, NEW x, At(f, p - 1, L, x)
  PROVE  At(f, p, Append(L, x), <<>>)
<1>1. f[p] = SplitChar(f[p - 1], input[p])
  BY Zenon DEF Splits
<1>2. PICK y : y = [list |-> L, buffer |-> x]
  OBVIOUS
<1>3. f[p] = SplitChar(y, Colon)
  BY <1>1, <1>2, Zenon DEF At
<1> QED
  BY <1>2, <1>3 DEF SplitChar, At

JoinedPart(a, n) == IF n = 1 THEN a[n] ELSE <<Colon>> \o a[n]

PartLaid(z, x, off) ==
  /\ z \in Str /\ Len(z) = off + Len(x)
  /\ off # 0 => z[1] = Colon
  /\ \A j \in 1..Len(x) : z[off + j] = x[j]

LEMMA JoinedPartIs ==
  ASSUME NEW a, NEW n, a[n] \in Str
  PROVE  PartLaid(JoinedPart(a, n), a[n], Before(n))
<1>1. PICK x \in Str : x = a[n]
  OBVIOUS
<1>2. PICK z : z = <<Colon>> \o x
  OBVIOUS
<1>3. /\ z \in Str /\ Len(z) = 1 + Len(x) /\ z[1] = Colon
      /\ \A j \in 1..Len(x) : z[1 + j] = x[j]
  BY <1>2 DEF Str, Colon
<1>4. Len(x) = 0 + Len(x) /\ \A j \in 1..Len(x) : x[0 + j] = x[j]
  BY DEF Str
<1>5. CASE n = 1
  BY <1>1, <1>4, <1>5, Zenon DEF JoinedPart, PartLaid, Before
<1>6. CASE n # 1
  BY <1>1, <1>2, <1>3, <1>6, Zenon DEF JoinedPart, PartLaid, Before
<1> QED
  BY <1>5, <1>6

LEMMA SplitJoined ==
  ASSUME NEW a \in Addresses
  PROVE  string_split(Joined(a)) = a /\ Joined(a) \in Str
<1>1. a \in Seq(Str) /\ Len(a) >= 3 /\ \A n \in DOMAIN a : \A j \in DOMAIN a[n] : a[n][j] # Colon
  BY AddressAssumption, Zenon DEF Str
<1>2. /\ Len(a) \in Nat /\ DOMAIN a = 1..Len(a)
      /\ SubSeq(a, 1, 0) = <<>> /\ SubSeq(a, 1, Len(a)) = a
      /\ \A k \in 1..Len(a) : SubSeq(a, 1, k) = Append(SubSeq(a, 1, k - 1), a[k])
  BY <1>1, Longer
<1>3. ASSUME NEW n \in 1..Len(a)
      PROVE  a[n] \in Str /\ Len(a[n]) \in Nat /\ \A j \in 1..Len(a[n]) : a[n][j] # Colon
  <2>1. a[n] \in Str
    BY <1>1
  <2>2. PICK x \in Str : x = a[n]
    BY <2>1
  <2>3. Len(x) \in Nat /\ DOMAIN x = 1..Len(x)
    BY DEF Str
  <2>4. \A j \in DOMAIN a[n] : a[n][j] # Colon
    BY <1>1, <1>2, Zenon
  <2> QED
    BY <2>1, <2>2, <2>3, <2>4, Zenon
<1> DEFINE seqs == [n \in DOMAIN a |-> JoinedPart(a, n)]
<1>4. /\ seqs \in Seq(Str) /\ Len(seqs) = Len(a)
      /\ \A n \in 1..Len(a) : seqs[n] = JoinedPart(a, n)
  <2>1. \A n \in 1..Len(a) : JoinedPart(a, n) \in Str
    BY <1>3, JoinedPartIs, Zenon DEF PartLaid
  <2>2. seqs = [n \in 1..Len(a) |-> JoinedPart(a, n)]
    BY <1>2
  <2> QED
    BY <1>2, <2>1, <2>2
<1>5. Joined(a) = Seqs!FlattenSeq(seqs)
  BY Zenon DEF Joined, JoinedPart
<1> HIDE DEF seqs
<1>6. PICK at : LaidOut(seqs, at)
  BY <1>4, Layout
<1>7. PICK t : t = Joined(a)
  OBVIOUS
<1>8. /\ at \in [0..Len(a) -> Nat] /\ at[0] = 0 /\ t \in Str /\ Len(t) = at[Len(a)]
      /\ \A k \in 1..Len(a) :
           /\ at[k] = at[k - 1] + Len(seqs[k]) /\ at[k] <= Len(t)
           /\ \A j \in 1..Len(seqs[k]) : t[at[k - 1] + j] = seqs[k][j]
  BY <1>4, <1>5, <1>6, <1>7, Zenon DEF LaidOut
<1>9. PICK f : Splits(t, f) /\ string_split(t) = Append(f[Len(t)].list, f[Len(t)].buffer)
  BY <1>8, SplitRecurs, SplitIs, Zenon
<1>15. \A n \in 1..Len(a) : PartLaid(seqs[n], a[n], Before(n))
  BY <1>3, <1>4, JoinedPartIs, Zenon
<1> DEFINE Parted(k) == At(f, at[k], SubSeq(a, 1, k - 1), a[k])
<1>10. Parted(1)
  <2>1. 1 \in 1..Len(a) /\ 1 - 1 = 0 /\ Before(1) = 0
    BY <1>1, <1>2 DEF Before
  <2>2. PICK x, z : x = a[1] /\ z = seqs[1]
    OBVIOUS
  <2>3. /\ x \in Str /\ Len(x) \in Nat /\ \A j \in 1..Len(x) : x[j] # Colon
        /\ PartLaid(z, x, 0)
    BY <1>3, <1>15, <2>1, <2>2, Zenon
  <2>4. PICK p : p = at[0] /\ p = 0
    BY <1>8
  <2>5. /\ at[1] = p + Len(z) /\ at[1] <= Len(t)
        /\ \A j \in 1..Len(z) : t[p + j] = z[j]
    <3>1. PICK k : k = 1 /\ k \in 1..Len(a) /\ k - 1 = 0
      BY <2>1
    <3>2. /\ at[k] = at[k - 1] + Len(seqs[k]) /\ at[k] <= Len(t)
          /\ \A j \in 1..Len(seqs[k]) : t[at[k - 1] + j] = seqs[k][j]
      BY <1>8, <3>1, Zenon
    <3> QED
      BY <2>2, <2>4, <3>1, <3>2, Zenon
  <2>6. Len(z) = Len(x) /\ \A j \in 1..Len(x) : z[j] = x[j]
    BY <2>3 DEF PartLaid
  <2>7. LiesAt(t, p, x) /\ at[1] = p + Len(x)
    BY <2>3, <2>4, <2>5, <2>6 DEF LiesAt
  <2>8. At(f, p, <<>>, <<>>)
    BY <1>9, <2>4, Zenon DEF Splits, Unsplit, At
  <2>9. At(f, p + Len(x), <<>>, x)
    BY <1>8, <1>9, <2>7, <2>8, Buffered, Zenon
  <2>10. SubSeq(a, 1, 1 - 1) = <<>>
    BY <1>2, <2>1, Zenon
  <2> QED
    BY <2>2, <2>7, <2>9, <2>10, Zenon
<1>11. ASSUME NEW k \in 1..Len(a), k # 1, Parted(k - 1)
       PROVE  Parted(k)
  <2>1. k - 1 \in 1..Len(a) /\ k - 1 \in 0..Len(a) /\ k \in 0..Len(a) /\ Before(k) = 1
    BY <1>2, <1>11 DEF Before
  <2>2. PICK x, z, p : x = a[k] /\ z = seqs[k] /\ p = at[k - 1]
    OBVIOUS
  <2>3. /\ x \in Str /\ Len(x) \in Nat /\ \A j \in 1..Len(x) : x[j] # Colon
        /\ PartLaid(z, x, 1)
    BY <1>3, <1>15, <2>1, <2>2, Zenon
  <2>4. /\ at[k] = p + Len(z) /\ at[k] <= Len(t)
        /\ \A j \in 1..Len(z) : t[p + j] = z[j]
    BY <1>8, <2>2, Zenon
  <2>14. p \in Nat /\ Len(t) \in Nat
    <3>1. \A m \in 0..Len(a) : at[m] \in Nat
      BY <1>8
    <3>2. Len(a) \in 0..Len(a)
      BY <1>2
    <3> QED
      BY <1>8, <2>1, <2>2, <3>1, <3>2, Zenon
  <2>5. /\ Len(z) = 1 + Len(x) /\ z[1] = Colon
        /\ \A j \in 1..Len(x) : z[1 + j] = x[j]
    BY <2>3 DEF PartLaid
  <2>15. PICK q : q = p + 1
    OBVIOUS
  <2>6. q = p + 1 /\ q \in 1..Len(t) /\ q - 1 = p /\ q \in Nat /\ q + Len(x) = at[k]
    BY <2>3, <2>4, <2>5, <2>14, <2>15
  <2>7. t[q] = Colon
    <3>1. 1 \in 1..Len(z)
      BY <2>3, <2>5
    <3> QED
      BY <2>4, <2>5, <2>6, <3>1, Zenon
  <2>8. LiesAt(t, q, x)
    <3>1. ASSUME NEW j \in 1..Len(x)
          PROVE  t[q + j] = x[j]
      <4>1. 1 + j \in 1..Len(z) /\ p + (1 + j) = q + j
        BY <2>3, <2>5, <2>6, <2>14
      <4> QED
        BY <2>4, <2>5, <4>1, Zenon
    <3>2. q + Len(x) <= Len(t)
      BY <2>4, <2>6, Zenon
    <3> QED
      BY <2>3, <2>6, <3>1, <3>2, Zenon DEF LiesAt
  <2>9. PICK b, L : b = a[k - 1] /\ L = SubSeq(a, 1, k - 1 - 1)
    OBVIOUS
  <2>10. At(f, q - 1, L, b)
    BY <1>11, <2>2, <2>6, <2>9, Zenon
  <2>11. At(f, q, Append(L, b), <<>>)
    BY <1>9, <2>6, <2>7, <2>10, Listed, Zenon
  <2>12. Append(L, b) = SubSeq(a, 1, k - 1)
    BY <1>2, <2>1, <2>9, Zenon
  <2>13. At(f, q + Len(x), Append(L, b), x)
    BY <1>8, <1>9, <2>8, <2>11, Buffered, Zenon
  <2> QED
    BY <2>2, <2>6, <2>12, <2>13, Zenon
<1> HIDE DEF Parted
<1>12. Parted(Len(a))
  <2> DEFINE G == {k \in 0..Len(a) : k # 0 => Parted(k)}
  <2>1. 0 \in G
    BY <1>2
  <2>2. ASSUME NEW k \in 1..Len(a), k - 1 \in G
        PROVE  k \in G
    <3>1. k = 1 \/ (k # 1 /\ Parted(k - 1))
      BY <1>2, <2>2
    <3>2. Parted(k) /\ k \in 0..Len(a)
      BY <1>10, <1>11, <3>1
    <3> QED
      BY <3>2
  <2>3. \A k \in 0..Len(a) : k \in G
    <3> HIDE DEF G
    <3> QED
      BY <1>2, <2>1, <2>2, Upward, Zenon
  <2>4. Len(a) \in 0..Len(a) /\ Len(a) # 0
    BY <1>1, <1>2
  <2> QED
    BY <2>3, <2>4
<1>13. string_split(t) = Append(SubSeq(a, 1, Len(a) - 1), a[Len(a)])
  <2>1. PICK L, b : L = SubSeq(a, 1, Len(a) - 1) /\ b = a[Len(a)]
    OBVIOUS
  <2>2. f[Len(t)] = [list |-> L, buffer |-> b]
    BY <1>8, <1>12, <2>1, Zenon DEF Parted, At
  <2>3. f[Len(t)].list = L /\ f[Len(t)].buffer = b
    BY <2>2
  <2> QED
    BY <1>9, <2>1, <2>3, Zenon
<1>14. Len(a) \in 1..Len(a)
  BY <1>1, <1>2
<1> QED
  BY <1>2, <1>7, <1>8, <1>13, <1>14, Zenon

-----------------------------------------------------------------------------
(* string_urldecode of what is written as a link may write it *)

LEMMA BitRange == \A a, b \in Int : \A w \in {1, 2, 4, 8, 16, 32, 64, 128} : Bit(a, b, w) \in {0, w}
BY DEF Bit

LEMMA BitOrType ==
  ASSUME NEW a \in Int, NEW b \in Int
  PROVE  BitOr(a, b) \in Nat
<1>1. /\ Bit(a, b, 1) \in Nat /\ Bit(a, b, 2) \in Nat
      /\ Bit(a, b, 4) \in Nat /\ Bit(a, b, 8) \in Nat
      /\ Bit(a, b, 16) \in Nat /\ Bit(a, b, 32) \in Nat
      /\ Bit(a, b, 64) \in Nat /\ Bit(a, b, 128) \in Nat
  BY BitRange
<1> QED
  BY <1>1 DEF BitOr

LEMMA EscapedType ==
  ASSUME NEW c \in Nat, NEW d \in Nat
  PROVE  Escaped(c, d) \in Nat
<1>1. from_hex(c) \in Int /\ from_hex(d) \in Int
  BY DEF from_hex, tolower, isdigit
<1>2. (from_hex(c) * 16) % 256 \in Int /\ from_hex(d) % 256 \in Int
  BY <1>1
<1> QED
  BY <1>2, BitOrType DEF Escaped

(* The upper four bits come from one byte, the lower from the other. *)
LEMMA Nibbles ==
  ASSUME NEW m \in 0..15, NEW n \in 0..15
  PROVE  BitOr(m * 16, n) = 16 * m + n
<1>1. /\ Bit(m * 16, n, 1) = n % 2
      /\ Bit(m * 16, n, 2) = 2 * ((n \div 2) % 2)
      /\ Bit(m * 16, n, 4) = 4 * ((n \div 4) % 2)
      /\ Bit(m * 16, n, 8) = 8 * ((n \div 8) % 2)
  BY DEF Bit
<1>2. /\ Bit(m * 16, n, 16) = 16 * (m % 2)
      /\ Bit(m * 16, n, 32) = 16 * (2 * ((m \div 2) % 2))
      /\ Bit(m * 16, n, 64) = 16 * (4 * ((m \div 4) % 2))
      /\ Bit(m * 16, n, 128) = 16 * (8 * ((m \div 8) % 2))
  BY DEF Bit
<1>3. \A x \in 0..15 : x = (x % 2) + 2 * ((x \div 2) % 2) + 4 * ((x \div 4) % 2) + 8 * ((x \div 8) % 2)
  OBVIOUS
<1>4. PICK a, b, c, d \in Nat : /\ a = n % 2 /\ b = 2 * ((n \div 2) % 2)
                              /\ c = 4 * ((n \div 4) % 2) /\ d = 8 * ((n \div 8) % 2)
  OBVIOUS
<1>5. PICK e, f, g, h \in Nat : /\ e = m % 2 /\ f = 2 * ((m \div 2) % 2)
                              /\ g = 4 * ((m \div 4) % 2) /\ h = 8 * ((m \div 8) % 2)
  OBVIOUS
<1>6. n = a + b + c + d /\ m = e + f + g + h
  BY <1>3, <1>4, <1>5, Zenon
<1>7. BitOr(m * 16, n) = a + b + c + d + 16 * e + 16 * f + 16 * g + 16 * h
  BY <1>1, <1>2, <1>4, <1>5, Zenon DEF BitOr
<1> QED
  BY <1>6, <1>7

LEMMA HexDigitIs ==
  ASSUME NEW n \in 0..15, NEW c \in HexDigit(n)
  PROVE  c \in Nat /\ c # NUL /\ from_hex(c) = n
BY DEF HexDigit, NUL, from_hex, tolower, isdigit

LEMMA EscapedIs ==
  ASSUME NEW m \in 0..15, NEW n \in 0..15, NEW c \in HexDigit(m), NEW d \in HexDigit(n)
  PROVE  Escaped(c, d) = 16 * m + n
<1>1. from_hex(c) = m /\ from_hex(d) = n
  BY HexDigitIs
<1>2. (m * 16) % 256 = m * 16 /\ n % 256 = n
  OBVIOUS
<1> QED
  BY <1>1, <1>2, Nibbles DEF Escaped

ChAt(input, p) == IF p <= Len(input) THEN input[p] ELSE NUL

(* What is written from position p on: y from the next position on, z from the
   third.                                                                    *)
Decode(input, p, y, z) ==
  IF ChAt(input, p) = NUL THEN <<>>
  ELSE IF ChAt(input, p) # Percent
  THEN <<IF ChAt(input, p) = Plus THEN Blank ELSE ChAt(input, p)>> \o y
  ELSE IF ChAt(input, p + 1) # NUL /\ ChAt(input, p + 2) # NUL
  THEN <<Escaped(ChAt(input, p + 1), ChAt(input, p + 2))>> \o z
  ELSE y

Decodes(input, f) ==
  /\ f \in [1..(Len(input) + 3) -> Str]
  /\ \A p \in 1..(Len(input) + 3) : f[p] = Decode(input, p, f[p + 1], f[p + 3])

DecodedOf(input) ==
  CHOOSE f : f = [p \in 1..(Len(input) + 3) |-> Decode(input, p, f[p + 1], f[p + 3])]

LEMMA DecodedIs ==
  ASSUME NEW input
  PROVE  string_urldecode(input) = DecodedOf(input)[1]
BY Zenon DEF string_urldecode, DecodedOf, Decode, ChAt

LEMMA ChAtType ==
  ASSUME NEW input \in Str, NEW p \in Nat, p >= 1
  PROVE  ChAt(input, p) \in Nat /\ Len(input) \in Nat
BY DEF ChAt, NUL, Str

LEMMA DecodeType ==
  ASSUME NEW input \in Str, NEW p \in Nat, p >= 1, NEW y \in Str, NEW z \in Str
  PROVE  Decode(input, p, y, z) \in Str
<1>1. PICK c, d, e : c = ChAt(input, p) /\ d = ChAt(input, p + 1) /\ e = ChAt(input, p + 2)
  OBVIOUS
<1>2. c \in Nat /\ d \in Nat /\ e \in Nat
  BY <1>1, ChAtType
<1>3. PICK b, h \in Nat : b = (IF c = Plus THEN Blank ELSE c) /\ h = Escaped(d, e)
  BY <1>2, EscapedType DEF Blank
<1>4. <<b>> \o y \in Str /\ <<h>> \o z \in Str /\ <<>> \in Str
  BY DEF Str
<1>5. Decode(input, p, y, z) \in {<<>>, <<b>> \o y, <<h>> \o z, y}
  BY <1>1, <1>3, Zenon DEF Decode
<1> QED
  BY <1>4, <1>5, Zenon

LEMMA DecodedRecurs ==
  ASSUME NEW input \in Str
  PROVE  Decodes(input, DecodedOf(input))
<1> DEFINE l == Len(input)
           S == Str \X Str \X Str
           g == [kx \in (1..l) \X S |->
                   <<Decode(input, l + 1 - kx[1], kx[2][1], kx[2][3]), kx[2][1], kx[2][2]>>]
           a == <<<<>>, <<>>, <<>>>>
<1>1. l \in Nat
  BY DEF Str
<1>16. a \in S
  BY Empty
<1>2. g \in [(1..l) \X S -> S]
  <2> SUFFICES ASSUME NEW k \in 1..l, NEW x \in S
               PROVE  <<Decode(input, l + 1 - k, x[1], x[3]), x[1], x[2]>> \in S
    OBVIOUS
  <2>1. l + 1 - k \in Nat /\ l + 1 - k >= 1
    BY <1>1
  <2>2. x[1] \in Str /\ x[2] \in Str /\ x[3] \in Str
    OBVIOUS
  <2>3. Decode(input, l + 1 - k, x[1], x[3]) \in Str
    BY <2>1, <2>2, DecodeType
  <2> QED
    BY <2>2, <2>3
<1>3. PICK h : Recursion(S, l, a, g, h)
  <2> HIDE DEF g, l, S, a
  <2> QED
    BY <1>1, <1>2, <1>16, Recurs
<1>4. h \in [0..l -> S] /\ h[0] = a
  BY <1>3 DEF Recursion
<1>5. ASSUME NEW k \in 1..l
      PROVE  /\ k - 1 \in 0..l /\ h[k - 1] \in S
             /\ h[k] = <<Decode(input, l + 1 - k, h[k - 1][1], h[k - 1][3]), h[k - 1][1], h[k - 1][2]>>
  <2>1. k - 1 \in 0..l
    BY <1>1
  <2>2. h[k - 1] \in S
    BY <1>4, <2>1
  <2>3. h[k] = g[<<k, h[k - 1]>>]
    <3> HIDE DEF g, l, S, a
    <3> QED
      BY <1>3, Zenon DEF Recursion
  <2> QED
    BY <2>1, <2>2, <2>3
<1> HIDE DEF g
<1> DEFINE f == [p \in 1..(l + 3) |-> IF p > l THEN <<>> ELSE h[l + 1 - p][1]]
<1>6. ASSUME NEW p \in 1..(l + 3)
      PROVE  f[p] \in Str /\ (p > l => f[p] = <<>>) /\ (p <= l => f[p] = h[l + 1 - p][1])
  <2>1. p <= l => l + 1 - p \in 0..l
    BY <1>1
  <2> QED
    BY <1>4, <2>1, Empty
<1> HIDE DEF f
<1>7. ASSUME NEW p \in 1..(l + 3)
      PROVE  f[p] = Decode(input, p, f[p + 1], f[p + 3])
  <2>1. CASE p > l
    <3>1. ChAt(input, p) = NUL
      BY <1>1, <2>1 DEF ChAt
    <3> QED
      BY <1>6, <2>1, <3>1, Zenon DEF Decode
  <2>2. CASE p <= l
    <3>1. PICK k : k = l + 1 - p /\ k \in 1..l /\ l + 1 - k = p /\ k - 1 = l + 1 - (p + 1)
      <4>1. PICK k : k = l + 1 - p
        OBVIOUS
      <4>2. k \in 1..l /\ l + 1 - k = p /\ k - 1 = l + 1 - (p + 1)
        BY <1>1, <2>2, <4>1
      <4> QED
        BY <4>1, <4>2, Zenon
    <3>2. PICK x \in S : /\ x = h[k - 1]
                        /\ h[k] = <<Decode(input, p, x[1], x[3]), x[1], x[2]>>
      BY <1>5, <3>1, Zenon
    <3>3. f[p] = Decode(input, p, x[1], x[3])
      <4>1. f[p] = h[k][1]
        BY <1>6, <2>2, <3>1, Zenon
      <4> QED
        BY <3>2, <4>1
    <3>4. p + 1 \in 1..(l + 3) /\ p + 3 \in 1..(l + 3)
      BY <1>1, <2>2
    <3>5. x[1] = f[p + 1]
      <4>1. CASE p + 1 > l
        <5>1. k - 1 = 0
          BY <1>1, <2>2, <3>1, <4>1
        <5> QED
          BY <1>4, <1>6, <3>2, <3>4, <4>1, <5>1
      <4>2. CASE p + 1 <= l
        BY <1>6, <3>1, <3>2, <3>4, <4>2, Zenon
      <4> QED
        BY <1>1, <4>1, <4>2
    <3>6. x[3] = f[p + 3]
      <4>1. CASE k - 1 = 0
        <5>1. p + 3 > l
          BY <1>1, <3>1, <4>1
        <5> QED
          BY <1>4, <1>6, <3>2, <3>4, <4>1, <5>1
      <4>2. CASE k - 1 # 0
        <5>1. k - 1 \in 1..l
          BY <1>1, <3>1, <4>2
        <5>6. PICK j : j = k - 2
          OBVIOUS
        <5>2. j = k - 2 /\ k - 1 - 1 = j /\ j \in 0..l
          BY <1>1, <3>1, <5>1, <5>6
        <5>3. PICK y \in S : y = h[j] /\ x[3] = y[2]
          <6>1. /\ h[j] \in S
                /\ h[k - 1] = <<Decode(input, l + 1 - (k - 1), h[j][1], h[j][3]), h[j][1], h[j][2]>>
            BY <1>5, <5>1, <5>2, Zenon
          <6> QED
            BY <3>2, <6>1
        <5>4. CASE j = 0
          <6>1. p + 3 > l
            BY <1>1, <3>1, <5>2, <5>4
          <6> QED
            BY <1>4, <1>6, <3>4, <5>3, <5>4, <6>1
        <5>5. CASE j # 0
          <6>1. j \in 1..l
            BY <1>1, <3>1, <5>2, <5>5
          <6>6. PICK i0 : i0 = j - 1
            OBVIOUS
          <6>2. i0 = j - 1 /\ i0 = l + 1 - (p + 3) /\ p + 3 <= l + 1 /\ i0 \in Nat
            BY <1>1, <3>1, <5>2, <6>1, <6>6
          <6>3. y[2] = h[i0][1]
            <7>1. h[j] = <<Decode(input, l + 1 - j, h[i0][1], h[i0][3]), h[i0][1], h[i0][2]>>
              BY <1>5, <6>1, <6>2, Zenon
            <7> QED
              BY <5>3, <7>1
          <6>4. CASE p + 3 <= l
            BY <1>6, <3>4, <5>3, <6>2, <6>3, <6>4, Zenon
          <6>5. CASE p + 3 > l
            <7>1. i0 = 0
              BY <1>1, <3>1, <5>2, <6>2, <6>5
            <7> QED
              BY <1>4, <1>6, <3>4, <5>3, <6>3, <6>5, <7>1
          <6> QED
            BY <1>1, <6>4, <6>5
        <5> QED
          BY <5>4, <5>5
      <4> QED
        BY <4>1, <4>2
    <3> QED
      BY <3>3, <3>5, <3>6, Zenon
  <2> QED
    BY <1>1, <2>1, <2>2
<1>8. f = [p \in 1..(Len(input) + 3) |-> Decode(input, p, f[p + 1], f[p + 3])]
  <2>1. f = [p \in 1..(l + 3) |-> f[p]]
    BY Zenon DEF f
  <2> QED
    BY <1>7, <2>1, Zenon
<1>9. DecodedOf(input) = [p \in 1..(Len(input) + 3) |->
                            Decode(input, p, DecodedOf(input)[p + 1], DecodedOf(input)[p + 3])]
  BY <1>8, Zenon DEF DecodedOf
<1> DEFINE F == DecodedOf(input)
<1> HIDE DEF F, f
<1>10. /\ F = [p \in 1..(l + 3) |-> F[p]]
       /\ \A p \in 1..(l + 3) : F[p] = Decode(input, p, F[p + 1], F[p + 3])
  <2>1. F = [p \in 1..(l + 3) |-> Decode(input, p, F[p + 1], F[p + 3])]
    BY <1>9, Zenon DEF F
  <2> HIDE DEF l
  <2> QED
    BY <2>1, Zenon
<1> DEFINE Typed(k) == \A p \in 1..(l + 3) : p >= l + 1 - k => F[p] \in Str
           G == {k \in 0..l : Typed(k)}
<1>11. Typed(0)
  <2> SUFFICES ASSUME NEW p \in 1..(l + 3), p >= l + 1 - 0
               PROVE  F[p] \in Str
    OBVIOUS
  <2>1. ChAt(input, p) = NUL
    BY <1>1 DEF ChAt
  <2>2. F[p] = <<>>
    BY <1>10, <2>1, Zenon DEF Decode
  <2> QED
    BY <2>2, Empty
<1>12. ASSUME NEW k \in 1..l, Typed(k - 1)
       PROVE  Typed(k)
  <2> SUFFICES ASSUME NEW p \in 1..(l + 3), p >= l + 1 - k
               PROVE  F[p] \in Str
    OBVIOUS
  <2>1. CASE p >= l + 1 - (k - 1)
    BY <1>12, <2>1, Zenon
  <2>2. CASE ~(p >= l + 1 - (k - 1))
    <3>1. /\ p + 1 \in 1..(l + 3) /\ p + 1 >= l + 1 - (k - 1)
          /\ p + 3 \in 1..(l + 3) /\ p + 3 >= l + 1 - (k - 1)
          /\ p \in Nat /\ p >= 1
      BY <1>1, <2>2
    <3>2. F[p + 1] \in Str /\ F[p + 3] \in Str
      BY <1>12, <3>1, Zenon
    <3>3. PICK y, z \in Str : y = F[p + 1] /\ z = F[p + 3]
      BY <3>2
    <3>4. F[p] = Decode(input, p, y, z)
      BY <1>10, <3>3, Zenon
    <3> QED
      BY <3>1, <3>4, DecodeType
  <2> QED
    BY <2>1, <2>2, Zenon
<1>13. Typed(l)
  <2> HIDE DEF Typed
  <2>1. 0 \in G
    BY <1>1, <1>11
  <2>2. ASSUME NEW k \in 1..l, k - 1 \in G
        PROVE  k \in G
    BY <1>1, <1>12, <2>2
  <2>3. \A k \in 0..l : k \in G
    <3> HIDE DEF G, l
    <3> QED
      BY <1>1, <2>1, <2>2, Upward, Zenon
  <2>4. l \in 0..l
    BY <1>1
  <2> QED
    BY <2>3, <2>4
<1>14. \A p \in 1..(l + 3) : F[p] \in Str
  <2> SUFFICES ASSUME NEW p \in 1..(l + 3)
               PROVE  F[p] \in Str
    OBVIOUS
  <2>1. p >= l + 1 - l
    BY <1>1
  <2> QED
    BY <1>13, <2>1, Zenon
<1>15. F \in [1..(l + 3) -> Str]
  BY <1>10, <1>14
<1> QED
  BY <1>10, <1>15, Zenon DEF Decodes, F

(* A piece lies behind position q of a text. *)
PieceAt(t, q, piece) ==
  /\ t \in Str /\ q \in Nat /\ piece.chars \in Str /\ piece.means \in Str
  /\ q + Len(piece.chars) <= Len(t)
  /\ \A j \in 1..Len(piece.chars) : t[q + j] = piece.chars[j]

Means(t, F, q, piece) == F[q + 1] = piece.means \o F[q + Len(piece.chars) + 1]

LEMMA OneChar ==
  ASSUME NEW t, NEW F, Decodes(t, F), NEW q, NEW piece, PieceAt(t, q, piece),
         NEW c \in Nat, piece.chars = <<c>>, c \notin {NUL, Percent},
         piece.means = <<IF c = Plus THEN Blank ELSE c>>
  PROVE  Means(t, F, q, piece)
<1>1. Len(<<c>>) = 1 /\ <<c>>[1] = c
  OBVIOUS
<1>2. t \in Str /\ q \in Nat /\ q + 1 <= Len(t) /\ t[q + 1] = c
  <2>1. q + Len(<<c>>) <= Len(t) /\ \A j \in 1..Len(<<c>>) : t[q + j] = <<c>>[j]
    BY Zenon DEF PieceAt
  <2>2. 1 \in 1..Len(<<c>>)
    BY <1>1
  <2> QED
    BY <1>1, <2>1, <2>2, Zenon DEF PieceAt
<1>3. Len(t) \in Nat
  BY <1>2 DEF Str
<1>4. PICK p : p = q + 1
  OBVIOUS
<1>5. p \in 1..(Len(t) + 3) /\ p <= Len(t) /\ p + 1 = q + 1 + 1
  BY <1>2, <1>3, <1>4
<1>6. ChAt(t, p) = c
  BY <1>2, <1>4, <1>5, Zenon DEF ChAt
<1>7. F[p] = Decode(t, p, F[p + 1], F[p + 3])
  BY <1>5, Zenon DEF Decodes
<1>8. F[p] = <<IF c = Plus THEN Blank ELSE c>> \o F[p + 1]
  BY <1>6, <1>7, Zenon DEF Decode
<1> QED
  BY <1>1, <1>4, <1>5, <1>8, Zenon DEF Means

LEMMA ThreeChars ==
  ASSUME NEW t, NEW F, Decodes(t, F), NEW q, NEW piece, PieceAt(t, q, piece),
         NEW c \in Nat, NEW d \in Nat, piece.chars = <<Percent, c, d>>, c # NUL, d # NUL,
         piece.means = <<Escaped(c, d)>>
  PROVE  Means(t, F, q, piece)
<1>1. /\ Len(<<Percent, c, d>>) = 3 /\ <<Percent, c, d>>[1] = Percent
      /\ <<Percent, c, d>>[2] = c /\ <<Percent, c, d>>[3] = d
  OBVIOUS
<1>2. /\ t \in Str /\ q \in Nat /\ q + 3 <= Len(t) /\ t[q + 1] = Percent
      /\ t[q + 2] = c /\ t[q + 3] = d
  <2>1. /\ q + Len(<<Percent, c, d>>) <= Len(t)
        /\ \A j \in 1..Len(<<Percent, c, d>>) : t[q + j] = <<Percent, c, d>>[j]
    BY Zenon DEF PieceAt
  <2>2. 1 \in 1..3 /\ 2 \in 1..3 /\ 3 \in 1..3
    OBVIOUS
  <2> QED
    BY <1>1, <2>1, <2>2, Zenon DEF PieceAt
<1>3. Len(t) \in Nat
  BY <1>2 DEF Str
<1>4. PICK p : p = q + 1
  OBVIOUS
<1>5. /\ p \in 1..(Len(t) + 3) /\ p <= Len(t) /\ p + 1 <= Len(t) /\ p + 2 <= Len(t)
      /\ p + 1 = q + 2 /\ p + 2 = q + 3 /\ p + 3 = q + 3 + 1
  BY <1>2, <1>3, <1>4
<1>6. ChAt(t, p) = Percent /\ ChAt(t, p + 1) = c /\ ChAt(t, p + 2) = d
  BY <1>2, <1>4, <1>5, Zenon DEF ChAt
<1>7. F[p] = Decode(t, p, F[p + 1], F[p + 3])
  BY <1>5, Zenon DEF Decodes
<1>8. Percent # NUL
  BY DEF Percent, NUL
<1>9. F[p] = <<Escaped(c, d)>> \o F[p + 3]
  BY <1>6, <1>7, <1>8, Zenon DEF Decode
<1> QED
  BY <1>1, <1>4, <1>5, <1>9, Zenon DEF Means

LEMMA CutShort ==
  ASSUME NEW t, NEW F, Decodes(t, F), NEW q, PieceAt(t, q, Cut), q + 1 = Len(t) \/ q + 2 = Len(t)
  PROVE  Means(t, F, q, Cut)
<1>1. Cut.chars = <<Percent>> /\ Cut.means = <<>> /\ Len(<<Percent>>) = 1 /\ <<Percent>>[1] = Percent
  BY DEF Cut
<1>2. t \in Str /\ q \in Nat /\ q + 1 <= Len(t) /\ t[q + 1] = Percent
  <2>1. q + Len(<<Percent>>) <= Len(t) /\ \A j \in 1..Len(<<Percent>>) : t[q + j] = <<Percent>>[j]
    BY <1>1, Zenon DEF PieceAt
  <2>2. 1 \in 1..Len(<<Percent>>)
    BY <1>1
  <2> QED
    BY <1>1, <2>1, <2>2, Zenon DEF PieceAt
<1>3. Len(t) \in Nat
  BY <1>2 DEF Str
<1>4. PICK p : p = q + 1
  OBVIOUS
<1>5. /\ p \in 1..(Len(t) + 3) /\ p <= Len(t) /\ p + 1 = q + 1 + 1
      /\ p + 1 \in 1..(Len(t) + 3)
      /\ ~(p + 1 <= Len(t)) \/ ~(p + 2 <= Len(t))
  BY <1>2, <1>3, <1>4
<1>6. ChAt(t, p) = Percent /\ (ChAt(t, p + 1) = NUL \/ ChAt(t, p + 2) = NUL)
  BY <1>2, <1>4, <1>5, Zenon DEF ChAt
<1>7. F[p] = Decode(t, p, F[p + 1], F[p + 3])
  BY <1>5, Zenon DEF Decodes
<1>8. Percent # NUL
  BY DEF Percent, NUL
<1>9. F[p] = F[p + 1]
  BY <1>6, <1>7, <1>8, Zenon DEF Decode
<1>10. F[p + 1] \in Str
  BY <1>5, Zenon DEF Decodes
<1>11. <<>> \o F[p + 1] = F[p + 1]
  BY <1>10, Empty, Zenon
<1> QED
  BY <1>1, <1>4, <1>5, <1>9, <1>11, Zenon DEF Means

LEMMA SpelledMeans ==
  ASSUME NEW t, NEW F, Decodes(t, F), NEW q, NEW piece, PieceAt(t, q, piece), Spells(piece)
  PROVE  Means(t, F, q, piece)
<1>1. CASE \E c \in {piece.chars[n] : n \in DOMAIN piece.chars} :
             /\ piece.chars = <<c>> /\ c \notin {NUL, Percent}
             /\ piece.means = <<IF c = Plus THEN Blank ELSE c>>
  <2>1. PICK c : /\ piece.chars = <<c>> /\ c \notin {NUL, Percent}
                 /\ piece.means = <<IF c = Plus THEN Blank ELSE c>>
    BY <1>1, Zenon
  <2>2. c \in Nat
    <3>1. PICK x \in Str : x = <<c>>
      BY <2>1, Zenon DEF PieceAt
    <3> QED
      BY <3>1 DEF Str
  <2> QED
    BY <2>1, <2>2, OneChar, Zenon
<1>2. CASE \E m, n \in 0..15 : \E c \in HexDigit(m), d \in HexDigit(n) :
             /\ m + n > 0
             /\ piece.chars = <<Percent, c, d>> /\ piece.means = <<16 * m + n>>
  <2>1. PICK m, n \in 0..15 : \E c \in HexDigit(m), d \in HexDigit(n) :
               piece.chars = <<Percent, c, d>> /\ piece.means = <<16 * m + n>>
    BY <1>2, Zenon
  <2>2. PICK c \in HexDigit(m), d \in HexDigit(n) :
               piece.chars = <<Percent, c, d>> /\ piece.means = <<16 * m + n>>
    BY <2>1, Zenon
  <2>3. c \in Nat /\ d \in Nat /\ c # NUL /\ d # NUL
    BY HexDigitIs
  <2>4. piece.means = <<Escaped(c, d)>>
    BY <2>2, EscapedIs, Zenon
  <2> QED
    BY <2>2, <2>3, <2>4, ThreeChars, Zenon
<1> QED
  BY <1>1, <1>2, Zenon DEF Spells

LEMMA DictionaryDecodes ==
  ASSUME NEW d \in Dictionary
  PROVE  string_urldecode(d.chars) = d.means
<1>1. PICK w \in Writings :
        d = [chars |-> Seqs!FlattenSeq([n \in DOMAIN w |-> w[n].chars]),
             means |-> Seqs!FlattenSeq([n \in DOMAIN w |-> w[n].means])]
  BY Zenon DEF Dictionary
<1>2. /\ w \in Seq([chars : Str, means : Str])
      /\ \A n \in DOMAIN w :
           \/ Spells(w[n])
           \/ w[n] = Cut /\ n + 1 >= Len(w) /\ Len(w[Len(w)].chars) = 1
  BY WritingsAssumption, Zenon DEF Str
<1>3. PICK l \in Nat : l = Len(w) /\ DOMAIN w = 1..l
  BY <1>2
<1>4. \A n \in 1..l : w[n].chars \in Str /\ w[n].means \in Str
  <2>1. \A n \in 1..l : w[n] \in [chars : Str, means : Str]
    <3>1. \A S : w \in Seq(S) => \A n \in 1..l : w[n] \in S
      BY <1>3
    <3> QED
      BY <1>2, <3>1, Zenon
  <2> QED
    BY <2>1
<1> DEFINE C == [n \in DOMAIN w |-> w[n].chars]
           M == [n \in DOMAIN w |-> w[n].means]
<1>5. /\ C \in Seq(Str) /\ Len(C) = l /\ \A n \in 1..l : C[n] = w[n].chars
      /\ M \in Seq(Str) /\ Len(M) = l /\ \A n \in 1..l : M[n] = w[n].means
  BY <1>3, <1>4
<1>6. d.chars = Seqs!FlattenSeq(C) /\ d.means = Seqs!FlattenSeq(M)
  BY <1>1, Zenon
<1> HIDE DEF C, M
<1>7. PICK at : LaidOut(C, at)
  BY <1>5, Layout
<1>8. PICK P : Prefixes(M, P) /\ Seqs!FlattenSeq(M) = P[Len(M)]
  BY <1>5, Flattened
<1>9. PICK t : t = d.chars
  OBVIOUS
<1>10. /\ at \in [0..l -> Nat] /\ at[0] = 0 /\ t \in Str /\ Len(t) = at[l]
       /\ \A k \in 1..l :
            /\ at[k] = at[k - 1] + Len(w[k].chars) /\ at[k] <= Len(t)
            /\ \A j \in 1..Len(w[k].chars) : t[at[k - 1] + j] = w[k].chars[j]
  <2>1. /\ at \in [0..l -> Nat] /\ at[0] = 0 /\ t \in Str /\ Len(t) = at[l]
        /\ \A k \in 1..l :
             /\ at[k] = at[k - 1] + Len(C[k]) /\ at[k] <= Len(t)
             /\ \A j \in 1..Len(C[k]) : t[at[k - 1] + j] = C[k][j]
    BY <1>5, <1>6, <1>7, <1>9, Zenon DEF LaidOut
  <2> SUFFICES ASSUME NEW k \in 1..l
               PROVE  /\ at[k] = at[k - 1] + Len(w[k].chars) /\ at[k] <= Len(t)
                      /\ \A j \in 1..Len(w[k].chars) : t[at[k - 1] + j] = w[k].chars[j]
    BY <2>1, Zenon
  <2>2. C[k] = w[k].chars
    BY <1>5
  <2>3. at[k] = at[k - 1] + Len(C[k]) /\ at[k] <= Len(t)
    BY <2>1, Zenon
  <2>4. \A j \in 1..Len(C[k]) : t[at[k - 1] + j] = C[k][j]
    BY <2>1, Zenon
  <2> QED
    BY <2>2, <2>3, <2>4, Zenon
<1>11. PICK F : Decodes(t, F) /\ string_urldecode(t) = F[1]
  BY <1>10, DecodedRecurs, DecodedIs, Zenon
<1>12. /\ P \in [0..l -> Str] /\ P[0] = <<>> /\ d.means = P[l]
       /\ \A k \in 1..l : P[k] = P[k - 1] \o w[k].means
  BY <1>5, <1>6, <1>8, Zenon DEF Prefixes
<1>13. /\ Len(t) \in Nat /\ \A k \in 0..l : at[k] \in Nat /\ P[k] \in Str
       /\ \A k \in 1..l : k - 1 \in 0..l /\ k \in 0..l
  <2>1. Len(t) \in Nat
    <3>1. t \in Str
      BY <1>10, Zenon
    <3> QED
      BY <3>1 DEF Str
  <2>2. \A k \in 0..l : at[k] \in Nat /\ P[k] \in Str
    BY <1>10, <1>12, Zenon
  <2>3. \A k \in 1..l : k - 1 \in 0..l /\ k \in 0..l
    OBVIOUS
  <2> QED
    BY <2>1, <2>2, <2>3
<1>14. ASSUME NEW k \in 1..l
       PROVE  Means(t, F, at[k - 1], w[k])
  <2>1. PieceAt(t, at[k - 1], w[k])
    <3>1. at[k - 1] + Len(w[k].chars) <= Len(t)
      BY <1>10, Zenon
    <3> QED
      BY <1>4, <1>10, <1>13, <3>1, Zenon DEF PieceAt
  <2>2. CASE Spells(w[k])
    BY <1>11, <2>1, <2>2, SpelledMeans, Zenon
  <2>3. CASE w[k] = Cut /\ k + 1 >= Len(w) /\ Len(w[Len(w)].chars) = 1
    <3>1. at[k] = at[k - 1] + 1
      <4>1. Len(Cut.chars) = 1
        BY DEF Cut
      <4> QED
        BY <1>10, <2>3, <4>1, Zenon
    <3>2. at[k - 1] + 1 = Len(t) \/ at[k - 1] + 2 = Len(t)
      <4>1. CASE k = l
        BY <1>10, <3>1, <4>1, Zenon
      <4>2. CASE k # l
        <5>1. PICK m : m = k + 1
          OBVIOUS
        <5>2. m = l /\ m \in 1..l /\ m - 1 = k
          BY <1>3, <2>3, <4>2, <5>1
        <5>3. at[m] = at[k] + 1
          BY <1>3, <1>10, <2>3, <5>2, Zenon
        <5>4. Len(t) = at[k] + 1 /\ at[k - 1] \in Nat
          BY <1>10, <1>13, <5>2, <5>3, Zenon
        <5> QED
          BY <3>1, <5>4
      <4> QED
        BY <4>1, <4>2
    <3> QED
      BY <1>11, <2>1, <2>3, <3>2, CutShort, Zenon
  <2> QED
    BY <1>2, <1>3, <2>2, <2>3, Zenon
<1>15. ASSUME NEW k \in 0..l
       PROVE  at[k] + 1 \in 1..(Len(t) + 3) /\ F[at[k] + 1] \in Str
  <2>1. at[k] <= Len(t)
    <3>1. k # 0 => k \in 1..l
      OBVIOUS
    <3>2. 0 <= Len(t)
      BY <1>13
    <3> QED
      BY <1>10, <3>1, <3>2, Zenon
  <2>2. at[k] + 1 \in 1..(Len(t) + 3)
    BY <1>13, <2>1
  <2> QED
    BY <1>11, <2>2, Zenon DEF Decodes
<1> DEFINE Holds(k) == P[k] \o F[at[k] + 1] = F[1]
           G == {k \in 0..l : Holds(k)}
<1>16. Holds(0)
  <2>1. at[0] + 1 = 1 /\ 0 \in 0..l
    BY <1>10
  <2>2. F[1] \in Str
    BY <1>15, <2>1
  <2>3. <<>> \o F[1] = F[1]
    BY <2>2, Empty, Zenon
  <2> QED
    BY <1>12, <2>1, <2>3
<1>17. ASSUME NEW k \in 1..l, Holds(k - 1)
       PROVE  Holds(k)
  <2>1. PICK x, y, z, v : /\ x = P[k - 1] /\ y = w[k].means /\ z = F[at[k] + 1]
                          /\ v = F[at[k - 1] + 1]
    OBVIOUS
  <2>2. x \in Str /\ y \in Str /\ z \in Str
    BY <1>4, <1>13, <1>15, <2>1, Zenon
  <2>3. v = y \o z
    BY <1>10, <1>14, <2>1, Zenon DEF Means
  <2>4. (x \o y) \o z = x \o (y \o z)
    BY <2>2, Regrouped, Zenon
  <2>5. P[k] = x \o y
    BY <1>12, <2>1, Zenon
  <2>6. x \o v = F[1]
    BY <1>17, <2>1, Zenon
  <2> QED
    BY <2>1, <2>3, <2>4, <2>5, <2>6, Zenon
<1>18. Holds(l)
  <2> HIDE DEF Holds
  <2>1. 0 \in G
    BY <1>16
  <2>2. ASSUME NEW k \in 1..l, k - 1 \in G
        PROVE  k \in G
    BY <1>13, <1>17, <2>2
  <2>3. \A k \in 0..l : k \in G
    <3> HIDE DEF G
    <3> QED
      BY <2>1, <2>2, Upward, Zenon
  <2>4. l \in 0..l
    OBVIOUS
  <2> QED
    BY <2>3, <2>4
<1>19. F[at[l] + 1] = <<>>
  <2>1. PICK p : p = at[l] + 1
    OBVIOUS
  <2>2. p \in 1..(Len(t) + 3) /\ ~(p <= Len(t))
    BY <1>10, <1>13, <2>1
  <2>3. ChAt(t, p) = NUL
    BY <2>2, Zenon DEF ChAt
  <2>4. F[p] = Decode(t, p, F[p + 1], F[p + 3])
    BY <1>11, <2>2, Zenon DEF Decodes
  <2> QED
    BY <2>1, <2>3, <2>4, Zenon DEF Decode
<1>20. P[l] \o <<>> = P[l]
  <2>1. P[l] \in Str
    BY <1>12
  <2> QED
    BY <2>1, Empty, Zenon
<1> QED
  BY <1>9, <1>11, <1>12, <1>18, <1>19, <1>20, Zenon

-----------------------------------------------------------------------------
(* The trackers of a link *)

NextTrackers(l, n, x) == IF l[n].name = <<tr>> THEN Append(x, l[n].value) ELSE x

Trackered(l) ==
  /\ TrackersTo(l)[0] = <<>>
  /\ \A n \in 1..Len(l) : TrackersTo(l)[n] = NextTrackers(l, n, TrackersTo(l)[n - 1])
  /\ \A n \in 0..Len(l) : TrackersTo(l)[n] \in Seq(Str)

LEMMA NextTrackersType ==
  ASSUME NEW l, NEW n, l[n].value \in Str, NEW x \in Seq(Str)
  PROVE  NextTrackers(l, n, x) \in Seq(Str)
<1>1. Append(x, l[n].value) \in Seq(Str)
  OBVIOUS
<1> QED
  BY <1>1, Zenon DEF NextTrackers

LEMMA TrackersRecur ==
  ASSUME NEW l \in Links, Written(l)
  PROVE  Trackered(l)
<1>1. PICK m \in Nat : m = Len(l) /\ \A n \in 1..m : l[n].value \in Str
  <2>1. Len(l) \in Nat /\ \A n \in 1..Len(l) : Proper(l[n])
    BY ProperParams
  <2> QED
    BY <2>1, Zenon DEF Proper
<1> DEFINE S == Seq(Str)
           g == [nx \in (1..m) \X S |-> NextTrackers(l, nx[1], nx[2])]
<1>2. g \in [(1..m) \X S -> S]
  <2> SUFFICES ASSUME NEW n \in 1..m, NEW x \in S
               PROVE  NextTrackers(l, n, x) \in S
    OBVIOUS
  <2> QED
    BY <1>1, NextTrackersType, Zenon
<1>3. <<>> \in S
  OBVIOUS
<1>4. PICK f : Recursion(S, m, <<>>, g, f)
  <2> HIDE DEF g, S
  <2> QED
    BY <1>2, <1>3, Recurs
<1>5. f \in [0..m -> S] /\ f[0] = <<>>
  BY <1>4, Zenon DEF Recursion
<1>6. ASSUME NEW n \in 1..m
      PROVE  f[n] = NextTrackers(l, n, f[n - 1])
  <2>1. n - 1 \in 0..m
    OBVIOUS
  <2>2. PICK x \in S : x = f[n - 1]
    BY <1>5, <2>1, Zenon
  <2>3. f[n] = g[<<n, x>>]
    <3> HIDE DEF g, S
    <3> QED
      BY <1>4, <2>2, Zenon DEF Recursion
  <2>4. g[<<n, x>>] = NextTrackers(l, n, x)
    <3> HIDE DEF S
    <3> QED
      OBVIOUS
  <2> QED
    BY <2>2, <2>3, <2>4, Zenon
<1> HIDE DEF g
<1>7. f = [n \in 0..Len(l) |->
             IF n = 0 THEN <<>>
             ELSE IF l[n].name = <<tr>> THEN Append(f[n - 1], l[n].value)
             ELSE f[n - 1]]
  <2>1. ASSUME NEW n \in 0..m
        PROVE  f[n] = IF n = 0 THEN <<>> ELSE NextTrackers(l, n, f[n - 1])
    <3>1. n # 0 => n \in 1..m
      OBVIOUS
    <3> QED
      BY <1>5, <1>6, <3>1, Zenon
  <2>2. f = [n \in 0..m |-> f[n]]
    BY <1>5, Zenon
  <2> QED
    BY <1>1, <2>1, <2>2, Zenon DEF NextTrackers
<1> DEFINE T == TrackersTo(l)
<1>8. T = [n \in 0..m |-> IF n = 0 THEN <<>> ELSE NextTrackers(l, n, T[n - 1])]
  BY <1>1, <1>7, Zenon DEF TrackersTo, NextTrackers
<1> HIDE DEF T
<1>9. T[0] = <<>>
  BY <1>8
<1>10. ASSUME NEW n \in 1..m
       PROVE  T[n] = NextTrackers(l, n, T[n - 1])
  <2>1. n \in 0..m /\ n # 0
    OBVIOUS
  <2> QED
    BY <1>8, <2>1, Zenon
<1>11. \A n \in 0..m : T[n] \in S
  <2> DEFINE G == {n \in 0..m : T[n] \in S}
  <2>1. 0 \in G
    <3>1. T[0] \in S
      BY <1>3, <1>9, Zenon
    <3>2. 0 \in 0..m
      OBVIOUS
    <3> QED
      BY <3>1, <3>2, Zenon
  <2>2. ASSUME NEW n \in 1..m, n - 1 \in G
        PROVE  n \in G
    <3>1. T[n] \in S
      BY <1>1, <1>10, <2>2, NextTrackersType
    <3> QED
      BY <3>1
  <2>3. \A n \in 0..m : n \in G
    <3> HIDE DEF G
    <3> QED
      BY <2>1, <2>2, Upward, Zenon
  <2> QED
    BY <2>3
<1> QED
  BY <1>1, <1>9, <1>10, <1>11, Zenon DEF Trackered, T

TrackerOf(address) == [host |-> Part(address, 1), port |-> Part(address, 2)]

(* The list holds a tracker for each "tr" of the first n parameters. *)
TrackersAre(ts, l, n) ==
  ts = [j \in DOMAIN TrackersTo(l)[n] |-> TrackerOf(TrackersTo(l)[n][j])]

Longs(s, e, z) ==
  /\ Len(s) \in Nat /\ DOMAIN s = 1..Len(s) /\ DOMAIN z = 1..(Len(s) + 1)
  /\ z = [j \in 1..(Len(s) + 1) |-> z[j]]
  /\ z[Len(s) + 1] = e /\ \A j \in 1..Len(s) : z[j] = s[j]

LEMMA AppendIs ==
  ASSUME NEW S, NEW s \in Seq(S), NEW e
  PROVE  Longs(s, e, Append(s, e)) /\ Append(s, e) \in Seq(S \cup {e})
<1>1. PICK R : R = S \cup {e}
  OBVIOUS
<1>2. s \in Seq(R) /\ e \in R
  BY <1>1
<1>3. PICK z : z = Append(s, e)
  OBVIOUS
<1>4. /\ Len(s) \in Nat /\ DOMAIN s = 1..Len(s) /\ z \in Seq(R) /\ Len(z) = Len(s) + 1
      /\ z[Len(s) + 1] = e /\ \A j \in 1..Len(s) : z[j] = s[j]
  BY <1>2, <1>3
<1>5. DOMAIN z = 1..(Len(s) + 1) /\ z = [j \in 1..(Len(s) + 1) |-> z[j]]
  BY <1>4
<1> QED
  BY <1>1, <1>3, <1>4, <1>5, Zenon DEF Longs

LEMMA OneMoreTracker ==
  ASSUME NEW l, NEW n \in 1..Len(l), Len(l) \in Nat, Trackered(l), NEW ts, TrackersAre(ts, l, n - 1)
  PROVE  /\ l[n].name # <<tr>> => TrackersAre(ts, l, n)
         /\ l[n].name = <<tr>> => TrackersAre(Append(ts, TrackerOf(l[n].value)), l, n)
<1>1. PICK x, y, v : x = TrackersTo(l)[n - 1] /\ y = TrackersTo(l)[n] /\ v = l[n].value
  OBVIOUS
<1>2. n - 1 \in 0..Len(l) /\ n \in 0..Len(l)
  OBVIOUS
<1>3. x \in Seq(Str) /\ y \in Seq(Str) /\ y = NextTrackers(l, n, x)
  BY <1>1, <1>2, Zenon DEF Trackered
<1>4. ts = [j \in DOMAIN x |-> TrackerOf(x[j])]
  BY <1>1, Zenon DEF TrackersAre
<1>5. CASE l[n].name # <<tr>>
  BY <1>1, <1>3, <1>4, <1>5, Zenon DEF TrackersAre, NextTrackers
<1>6. CASE l[n].name = <<tr>>
  <2>1. y = Append(x, v)
    BY <1>1, <1>3, <1>6, Zenon DEF NextTrackers
  <2>2. PICK S : \A j \in DOMAIN y : TrackerOf(y[j]) \in S
    <3>1. \A j \in DOMAIN y : TrackerOf(y[j]) \in {TrackerOf(y[k]) : k \in DOMAIN y}
      OBVIOUS
    <3> QED
      BY <3>1, Zenon
  <2>3. PICK m \in Nat : /\ m = Len(x) /\ DOMAIN x = 1..m /\ DOMAIN y = 1..(m + 1) /\ y[m + 1] = v
                       /\ \A j \in 1..m : y[j] = x[j]
    <3>1. Longs(x, v, y)
      BY <1>3, <2>1, AppendIs, Zenon
    <3> QED
      BY <3>1, Zenon DEF Longs
  <2>4. \A j \in 1..m : j \in 1..(m + 1)
    OBVIOUS
  <2>5. \A j \in 1..m : TrackerOf(x[j]) \in S
    BY <2>2, <2>3, <2>4, Zenon
  <2>6. ts = [j \in 1..m |-> TrackerOf(x[j])]
    BY <1>4, <2>3, Zenon
  <2>7. ts \in Seq(S) /\ Len(ts) = m
    BY <2>5, <2>6
  <2>8. PICK e \in S : e = TrackerOf(v)
    <3>1. m + 1 \in 1..(m + 1)
      OBVIOUS
    <3> QED
      BY <2>2, <2>3, <3>1, Zenon
  <2>9. PICK z : z = Append(ts, e)
    OBVIOUS
  <2>10. /\ z = [j \in 1..(m + 1) |-> z[j]] /\ z[m + 1] = e
         /\ \A j \in 1..m : z[j] = ts[j]
    <3>1. Longs(ts, e, z)
      BY <2>7, <2>9, AppendIs, Zenon
    <3> QED
      BY <2>7, <3>1, Zenon DEF Longs
  <2>11. ASSUME NEW j \in 1..(m + 1)
         PROVE  z[j] = TrackerOf(y[j])
    <3>1. j = m + 1 \/ j \in 1..m
      OBVIOUS
    <3>2. CASE j = m + 1
      BY <2>3, <2>8, <2>10, <3>2, Zenon
    <3>3. CASE j \in 1..m
      BY <2>3, <2>6, <2>10, <3>3, Zenon
    <3> QED
      BY <3>1, <3>2, <3>3
  <2>12. z = [j \in DOMAIN y |-> TrackerOf(y[j])]
    BY <2>3, <2>10, <2>11, Zenon
  <2> QED
    BY <1>1, <1>6, <2>8, <2>9, <2>12, Zenon DEF TrackersAre
<1> QED
  BY <1>5, <1>6, Zenon

-----------------------------------------------------------------------------
(* Where the scan is *)

(* At character c, from 0, of the name of parameter n, ... *)
InName(l, n, c, k, kb, vb, j) ==
  /\ n \in 1..Len(l) /\ c \in 0..Len(l[n].name)
  /\ k = 1 /\ j = From(l)[n] + c
  /\ kb = SubSeq(l[n].name, 1, c) /\ vb = <<>>

(* ... of its value, the end of the last value excepted, ... *)
InValue(l, n, c, k, kb, vb, j) ==
  /\ n \in 1..Len(l) /\ c \in 0..Len(l[n].value)
  /\ n = Len(l) => c # Len(l[n].value)
  /\ k = 0 /\ j = From(l)[n] + Len(l[n].name) + 1 + c
  /\ kb = l[n].name /\ vb = SubSeq(l[n].value, 1, c)

(* ... or behind the last one. *)
AtEnd(l, n, k, kb, vb, j) ==
  n = Len(l) + 1 /\ k = 1 /\ j = Len(Text(l)) /\ kb = <<>> /\ vb = <<>>

InParam(l, n, k, kb, vb, j) ==
  \/ AtEnd(l, n, k, kb, vb, j)
  \/ \E c : InName(l, n, c, k, kb, vb, j) \/ InValue(l, n, c, k, kb, vb, j)

Here(n) == InParam(link, n, key, key_buffer, value_buffer, i)

LEMMA Begins ==
  ASSUME NEW l \in Links, Written(l)
  PROVE  InParam(l, 1, 1, <<>>, <<>>, 0)
<1>1. Laid(l, From(l)) /\ Len(l) \in Nat /\ \A n \in 1..Len(l) : Proper(l[n])
  BY TextLaid, ProperParams
<1>2. CASE l = <<>>
  <2>1. Len(l) = 0 /\ Len(Text(l)) = 0
    BY <1>1, <1>2 DEF Laid
  <2> QED
    BY <2>1 DEF InParam, AtEnd
<1>3. CASE l # <<>>
  <2>1. 1 \in 1..Len(l)
    <3>1. Len(l) # 0
      <4>1. l \in Seq([name : Seq(Nat), value : Seq(Nat) \cup {BareName}])
        BY LinksAssumption, Zenon
      <4>2. \A S : \A s \in Seq(S) : Len(s) = 0 => s = <<>>
        OBVIOUS
      <4> QED
        BY <1>3, <4>1, <4>2, Zenon
    <3> QED
      BY <1>1, <3>1
  <2>2. PICK x \in Str : x = l[1].name /\ Len(x) \in Nat
    BY <1>1, <2>1, Zenon DEF Proper
  <2>3. SubSeq(x, 1, 0) = <<>> /\ 0 \in 0..Len(x)
    BY <2>2, Longer DEF Str
  <2>4. From(l)[1] + 0 = 0
    <3>1. From(l)[1] = 0
      BY <1>1, Zenon DEF Laid
    <3> QED
      BY <3>1
  <2>5. InName(l, 1, 0, 1, <<>>, <<>>, 0)
    BY <2>1, <2>2, <2>3, <2>4, Zenon DEF InName
  <2> QED
    BY <2>5, Zenon DEF InParam
<1> QED
  BY <1>2, <1>3

(* What the scan finds in a parameter, all in numbers. *)
Stretch(l, n, x, y, f, len) ==
  /\ x = l[n].name /\ y = l[n].value /\ f = From(l)[n] /\ len = Len(Text(l))
  /\ x \in Str /\ y \in Str /\ Len(x) \in Nat /\ Len(y) \in Nat /\ f \in Nat /\ len \in Nat
  /\ Len(x) < BufLen /\ Len(y) < BufLen
  /\ (n = Len(l) => Len(y) # 0)
  /\ From(l)[n + 1] = f + Len(x) + Len(y) + 2
  /\ f + Len(x) + Len(y) + 1 <= len
  /\ n = Len(l) => f + Len(x) + Len(y) + 1 = len
  /\ n # Len(l) => f + Len(x) + Len(y) + 3 <= len /\ Text(l)[f + Len(x) + Len(y) + 2] = Ampersand
  /\ \A j \in 1..Len(x) : Text(l)[f + j] = x[j] /\ x[j] # Equals
  /\ Text(l)[f + Len(x) + 1] = Equals
  /\ \A j \in 1..Len(y) : Text(l)[f + Len(x) + 1 + j] = y[j] /\ y[j] # Ampersand

LEMMA Stretches ==
  ASSUME NEW l \in Links, Written(l), NEW n \in 1..Len(l)
  PROVE  \E x, y, f, len : Stretch(l, n, x, y, f, len)
<1>1. /\ Laid(l, From(l)) /\ Len(l) \in Nat /\ Proper(l[n])
      /\ (n = Len(l) => Len(l[n].value) # 0)
  BY TextLaid, ProperParams
<1>2. PICK x, y, f, t : x = l[n].name /\ y = l[n].value /\ f = From(l)[n] /\ t = Text(l)
  OBVIOUS
<1>3. /\ x \in Str /\ y \in Str /\ Len(x) \in Nat /\ Len(y) \in Nat
      /\ Len(x) < BufLen /\ Len(y) < BufLen
      /\ (n = Len(l) => Len(y) # 0)
      /\ \A j \in 1..Len(x) : x[j] # Equals
      /\ \A j \in 1..Len(y) : y[j] # Ampersand
  BY <1>1, <1>2, Zenon DEF Proper
<1>4. LaidAt(l, From(l), n) /\ Len(t) \in Nat
  BY <1>1, <1>2, Zenon DEF Laid
<1>5. /\ f \in Nat
      /\ From(l)[n + 1] = f + (Len(x) + Len(y)) + 2
      /\ From(l)[n + 1] <= Len(t) + 1
      /\ n = Len(l) => From(l)[n + 1] = Len(t) + 1
      /\ \A j \in 1..Len(x) : t[f + j] = x[j]
      /\ t[f + Len(x) + 1] = Equals
      /\ \A j \in 1..Len(y) : t[f + Len(x) + 1 + j] = y[j]
      /\ n # Len(l) => t[From(l)[n + 1]] = Ampersand
  BY <1>2, <1>4, Zenon DEF LaidAt, Length
<1>6. From(l)[n + 1] = f + Len(x) + Len(y) + 2 /\ f + Len(x) + Len(y) + 1 <= Len(t)
  BY <1>3, <1>4, <1>5
<1>7. n = Len(l) => f + Len(x) + Len(y) + 1 = Len(t)
  BY <1>3, <1>4, <1>5
<1>8. ASSUME n # Len(l)
      PROVE  f + Len(x) + Len(y) + 3 <= Len(t)
  <2>1. PICK m : m = n + 1
    OBVIOUS
  <2>2. m \in 1..Len(l)
    BY <1>1, <1>8, <2>1
  <2>3. LaidAt(l, From(l), m) /\ Proper(l[m])
    BY <1>1, <2>2, ProperParams, Zenon DEF Laid
  <2>4. From(l)[m] \in Nat /\ From(l)[m + 1] = From(l)[m] + Length(l[m]) + 2 /\ From(l)[m + 1] <= Len(t) + 1
    BY <1>2, <2>3, Zenon DEF LaidAt
  <2>5. Length(l[m]) \in Nat
    <3>1. \A x1, y1 \in Nat : x1 + y1 \in Nat
      OBVIOUS
    <3> QED
      BY <2>3, <3>1, Zenon DEF Proper, Length
  <2>6. From(l)[m] + 1 <= Len(t)
    <3>1. PICK f1, f2, g, len : f1 = From(l)[m] /\ f2 = From(l)[m + 1] /\ g = Length(l[m]) /\ len = Len(t)
      OBVIOUS
    <3>2. f1 \in Nat /\ f2 = f1 + g + 2 /\ f2 <= len + 1 /\ g \in Nat /\ len \in Nat
      BY <1>4, <2>4, <2>5, <3>1, Zenon
    <3>3. f1 + 1 <= len
      BY <3>2
    <3> QED
      BY <3>1, <3>3, Zenon
  <2>7. From(l)[m] = f + Len(x) + Len(y) + 2
    BY <1>6, <2>1, Zenon
  <2> QED
    BY <1>3, <1>4, <1>5, <2>6, <2>7
<1>9. Stretch(l, n, x, y, f, Len(t))
  BY <1>2, <1>3, <1>4, <1>5, <1>6, <1>7, <1>8, Zenon DEF Stretch
<1> QED
  BY <1>9, Zenon

(* What is at the place the scan has come to. *)
LEMMA NameHere ==
  ASSUME link \in Links, Written(link), Scanning, NEW n, NEW c,
         InName(link, n, c, key, key_buffer, value_buffer, i)
  PROVE  /\ Len(key_buffer) < BufLen
         /\ IF c = Len(link[n].name)
            THEN /\ key_buffer = link[n].name /\ WithLast(key_buffer) = key_buffer
                 /\ ~Fits(key_buffer, Equals)
                 /\ InValue(link, n, 0, 0, key_buffer, value_buffer, i + 1)
            ELSE /\ Fits(key_buffer, Equals)
                 /\ InName(link, n, c + 1, key, Append(key_buffer, Char), value_buffer, i + 1)
<1>1. n \in 1..Len(link)
  BY DEF InName
<1>2. PICK x, y, f, len : Stretch(link, n, x, y, f, len)
  BY <1>1, Stretches, Zenon
<1>3. /\ c \in 0..Len(x) /\ key = 1 /\ i = f + c
      /\ key_buffer = SubSeq(x, 1, c) /\ value_buffer = <<>>
  BY <1>2, Zenon DEF InName, Stretch
<1>4. /\ x \in Str /\ y \in Str /\ Len(x) \in Nat /\ Len(y) \in Nat /\ f \in Nat /\ len \in Nat
      /\ Len(x) < BufLen
      /\ (n = Len(link) => Len(y) # 0)
      /\ f + Len(x) + Len(y) + 1 <= len
      /\ n # Len(link) => f + Len(x) + Len(y) + 3 <= len
  BY <1>2, Zenon DEF Stretch
<1>5. /\ SubSeq(x, 1, Len(x)) = x /\ SubSeq(y, 1, 0) = <<>>
      /\ \A d \in 1..Len(x) : SubSeq(x, 1, d) = Append(SubSeq(x, 1, d - 1), x[d])
      /\ Len(SubSeq(x, 1, c)) = c
  BY <1>3, <1>4, Longer DEF Str
<1>6. BufLen \in Nat /\ Len(key_buffer) < BufLen
  BY <1>3, <1>4, <1>5, MagnetAssumption
<1>7. ~AtLastChar
  <2>1. n = Len(link) \/ f + Len(x) + 2 <= len
    BY <1>4
  <2>2. i + 1 < len
    BY <1>3, <1>4
  <2>3. i # len - 1
    BY <1>3, <1>4, <2>2
  <2> QED
    BY <1>2, <2>3, Zenon DEF AtLastChar, sub_string, Stretch
<1>8. CASE c = Len(x)
  <2>1. Char = Equals
    <3>1. i + 1 = f + Len(x) + 1
      BY <1>3, <1>4, <1>8
    <3> QED
      BY <1>2, <3>1, Zenon DEF Stretch, Char, sub_string
  <2>2. key_buffer = x /\ ~Fits(key_buffer, Equals)
    BY <1>3, <1>5, <1>8, <2>1, Zenon DEF Fits
  <2>3. WithLast(key_buffer) = key_buffer
    BY <1>7, Zenon DEF WithLast
  <2>4. /\ 0 \in 0..Len(y) /\ (n = Len(link) => 0 # Len(y))
        /\ i + 1 = f + Len(x) + 1 + 0
    BY <1>3, <1>4, <1>8
  <2>5. InValue(link, n, 0, 0, key_buffer, value_buffer, i + 1)
    BY <1>1, <1>2, <1>3, <1>5, <2>2, <2>4, Zenon DEF InValue, Stretch
  <2> QED
    BY <1>2, <1>6, <1>8, <2>2, <2>3, <2>5, Zenon DEF Stretch
<1>9. CASE c # Len(x)
  <2>1. PICK d : d = c + 1
    OBVIOUS
  <2>2. d \in 1..Len(x) /\ d \in 0..Len(x) /\ d - 1 = c /\ i + 1 = f + d
    BY <1>3, <1>4, <1>9, <2>1
  <2>3. Char = x[d] /\ x[d] # Equals
    BY <1>2, <2>2, Zenon DEF Stretch, Char, sub_string
  <2>4. Fits(key_buffer, Equals)
    BY <1>6, <1>7, <2>3, Zenon DEF Fits
  <2>5. Append(key_buffer, Char) = SubSeq(x, 1, d)
    BY <1>3, <1>5, <2>2, <2>3, Zenon
  <2>6. InName(link, n, d, key, Append(key_buffer, Char), value_buffer, i + 1)
    BY <1>1, <1>2, <1>3, <2>2, <2>5, Zenon DEF InName, Stretch
  <2> QED
    BY <1>2, <1>6, <1>9, <2>1, <2>4, <2>6, Zenon DEF Stretch
<1> QED
  BY <1>8, <1>9

LEMMA NextStarts ==
  ASSUME NEW l \in Links, Written(l), NEW n \in 1..Len(l)
  PROVE  InParam(l, n + 1, 1, <<>>, <<>>, From(l)[n] + Len(l[n].name) + Len(l[n].value)
                                            + (IF n = Len(l) THEN 1 ELSE 2))
<1>1. PICK x, y, f, len : Stretch(l, n, x, y, f, len)
  BY Stretches, Zenon
<1>2. PICK j : j = f + Len(x) + Len(y) + (IF n = Len(l) THEN 1 ELSE 2)
  OBVIOUS
<1>3. Len(l) \in Nat
  BY ProperParams
<1>4. CASE n = Len(l)
  <2>1. j = len
    BY <1>1, <1>2, <1>4, Zenon DEF Stretch
  <2>2. AtEnd(l, n + 1, 1, <<>>, <<>>, j)
    BY <1>1, <1>4, <2>1, Zenon DEF AtEnd, Stretch
  <2> QED
    BY <1>1, <1>2, <2>2, Zenon DEF InParam, Stretch
<1>5. CASE n # Len(l)
  <2>1. PICK m : m = n + 1
    OBVIOUS
  <2>2. m \in 1..Len(l)
    BY <1>3, <1>5, <2>1
  <2>3. PICK u \in Str : u = l[m].name /\ Len(u) \in Nat
    BY <2>2, ProperParams, Zenon DEF Proper
  <2>4. SubSeq(u, 1, 0) = <<>> /\ 0 \in 0..Len(u)
    BY <2>3, Longer DEF Str
  <2>5. j = From(l)[m] + 0
    <3>1. PICK g : g = From(l)[m]
      OBVIOUS
    <3>2. /\ j = f + Len(x) + Len(y) + 2 /\ g = f + Len(x) + Len(y) + 2
          /\ f \in Nat /\ Len(x) \in Nat /\ Len(y) \in Nat
      BY <1>1, <1>2, <1>5, <2>1, <3>1, Zenon DEF Stretch
    <3>3. j = g + 0
      BY <3>2
    <3> QED
      BY <3>1, <3>3, Zenon
  <2>6. InName(l, m, 0, 1, <<>>, <<>>, j)
    BY <2>2, <2>3, <2>4, <2>5, Zenon DEF InName
  <2> QED
    BY <1>1, <1>2, <2>1, <2>6, Zenon DEF InParam, Stretch
<1> QED
  BY <1>4, <1>5

LEMMA ValueHere ==
  ASSUME link \in Links, Written(link), Scanning, NEW n, NEW c,
         InValue(link, n, c, key, key_buffer, value_buffer, i)
  PROVE  /\ n \in 1..Len(link) /\ key_buffer = link[n].name
         /\ Len(key_buffer) < BufLen /\ Len(value_buffer) < BufLen
         /\ \/ /\ Fits(value_buffer, Ampersand)
               /\ InValue(link, n, c + 1, key, key_buffer, Append(value_buffer, Char), i + 1)
            \/ /\ ~Fits(value_buffer, Ampersand)
               /\ WithLast(value_buffer) = link[n].value /\ Len(link[n].value) < BufLen
               /\ InParam(link, n + 1, 1, <<>>, <<>>, i + 1)
<1>1. n \in 1..Len(link)
  BY DEF InValue
<1>2. PICK x, y, f, len : Stretch(link, n, x, y, f, len)
  BY <1>1, Stretches, Zenon
<1>3. /\ c \in 0..Len(y) /\ (n = Len(link) => c # Len(y)) /\ key = 0 /\ i = f + Len(x) + 1 + c
      /\ key_buffer = x /\ value_buffer = SubSeq(y, 1, c)
  BY <1>2, Zenon DEF InValue, Stretch
<1>4. /\ x \in Str /\ y \in Str /\ Len(x) \in Nat /\ Len(y) \in Nat /\ f \in Nat /\ len \in Nat
      /\ Len(x) < BufLen /\ Len(y) < BufLen
      /\ n = Len(link) => f + Len(x) + Len(y) + 1 = len
      /\ n # Len(link) => f + Len(x) + Len(y) + 3 <= len
  BY <1>2, Zenon DEF Stretch
<1>5. /\ SubSeq(y, 1, Len(y)) = y
      /\ \A d \in 1..Len(y) : SubSeq(y, 1, d) = Append(SubSeq(y, 1, d - 1), y[d])
      /\ Len(SubSeq(y, 1, c)) = c
  BY <1>3, <1>4, Longer DEF Str
<1>6. BufLen \in Nat /\ Len(key_buffer) < BufLen /\ Len(value_buffer) < BufLen
  <2>1. BufLen \in Nat
    BY MagnetAssumption
  <2>2. c < BufLen
    BY <1>3, <1>4, <2>1
  <2> QED
    BY <1>3, <1>4, <1>5, <2>1, <2>2, Zenon
<1>7. AtLastChar <=> i = len - 1
  BY <1>2, Zenon DEF AtLastChar, sub_string, Stretch
<1>8. InParam(link, n + 1, 1, <<>>, <<>>, f + Len(x) + Len(y) + (IF n = Len(link) THEN 1 ELSE 2))
  BY <1>1, <1>2, NextStarts, Zenon DEF Stretch
<1>9. PICK d : d = c + 1
  OBVIOUS
<1>10. i + 1 = f + Len(x) + 1 + d /\ d - 1 = c /\ (c # Len(y) => d \in 1..Len(y) /\ d \in 0..Len(y))
  BY <1>3, <1>4, <1>9
<1>14. c # Len(y) => Char = y[d] /\ y[d] # Ampersand
  BY <1>2, <1>10, Zenon DEF Stretch, Char, sub_string
<1>15. /\ c = Len(y) => i + 1 = f + Len(x) + Len(y) + 2
       /\ c + 1 = Len(y) => i + 1 = f + Len(x) + Len(y) + 1
       /\ i = len - 1 <=> i + 1 = len
  <2>1. PICK a, b, j : a = Len(x) /\ b = Len(y) /\ j = i
    OBVIOUS
  <2>2. /\ j = f + a + 1 + c /\ c \in 0..b /\ a \in Nat /\ b \in Nat /\ f \in Nat /\ len \in Nat
    BY <1>3, <1>4, <2>1, Zenon
  <2>3. /\ c = b => j + 1 = f + a + b + 2
        /\ c + 1 = b => j + 1 = f + a + b + 1
        /\ j = len - 1 <=> j + 1 = len
    BY <2>2
  <2> QED
    BY <2>1, <2>3, Zenon
<1>11. CASE c = Len(y)
  <2>1. n # Len(link)
    BY <1>3, <1>11
  <2>8. f + Len(x) + Len(y) + 2 # len
    BY <1>4, <2>1
  <2>7. i + 1 = f + Len(x) + Len(y) + 2 /\ i # len - 1
    BY <1>11, <1>15, <2>8, Zenon
  <2>2. i + 1 = f + Len(x) + Len(y) + 2 /\ ~AtLastChar
    BY <1>7, <2>7, Zenon
  <2>3. Char = Ampersand
    BY <1>2, <2>1, <2>2, Zenon DEF Stretch, Char, sub_string
  <2>4. ~Fits(value_buffer, Ampersand)
    BY <2>3, Zenon DEF Fits
  <2>5. WithLast(value_buffer) = y
    BY <1>3, <1>5, <1>11, <2>2, Zenon DEF WithLast
  <2>6. InParam(link, n + 1, 1, <<>>, <<>>, i + 1)
    BY <1>8, <2>1, <2>2, Zenon
  <2> QED
    BY <1>1, <1>2, <1>3, <1>4, <1>6, <2>4, <2>5, <2>6, Zenon DEF Stretch
<1>12. CASE c # Len(y) /\ n = Len(link) /\ d = Len(y)
  <2>6. i + 1 = f + Len(x) + Len(y) + 1 /\ i = len - 1
    BY <1>4, <1>9, <1>12, <1>15, Zenon
  <2>1. i + 1 = f + Len(x) + Len(y) + 1 /\ AtLastChar
    BY <1>7, <2>6, Zenon
  <2>2. Char = y[d]
    BY <1>12, <1>14, Zenon
  <2>3. ~Fits(value_buffer, Ampersand)
    BY <2>1, Zenon DEF Fits
  <2>4. WithLast(value_buffer) = y
    BY <1>3, <1>5, <1>6, <1>10, <1>12, <2>1, <2>2, Zenon DEF WithLast
  <2>5. InParam(link, n + 1, 1, <<>>, <<>>, i + 1)
    BY <1>8, <1>12, <2>1, Zenon
  <2> QED
    BY <1>1, <1>2, <1>3, <1>4, <1>6, <2>3, <2>4, <2>5, Zenon DEF Stretch
<1>13. CASE c # Len(y) /\ ~(n = Len(link) /\ d = Len(y))
  <2>6. i # len - 1
    BY <1>3, <1>4, <1>9, <1>13
  <2>1. ~AtLastChar
    BY <1>7, <2>6, Zenon
  <2>2. Char = y[d] /\ y[d] # Ampersand
    BY <1>13, <1>14, Zenon
  <2>3. Fits(value_buffer, Ampersand)
    BY <1>6, <2>1, <2>2, Zenon DEF Fits
  <2>4. Append(value_buffer, Char) = SubSeq(y, 1, d)
    BY <1>3, <1>5, <1>10, <1>13, <2>2, Zenon
  <2>5. InValue(link, n, d, key, key_buffer, Append(value_buffer, Char), i + 1)
    BY <1>1, <1>2, <1>3, <1>10, <1>13, <2>4, Zenon DEF InValue, Stretch
  <2> QED
    BY <1>1, <1>2, <1>3, <1>6, <1>9, <2>3, <2>5, Zenon DEF Stretch
<1> QED
  BY <1>11, <1>12, <1>13, Zenon

-----------------------------------------------------------------------------
(* What the parse finds in the map *)

LEMMA FirstIs ==
  ASSUME NEW l \in Links, Written(l), NEW k, NEW m \in 1..Len(l), l[m].name = k,
         \A j \in 1..(m - 1) : l[j].name # k
  PROVE  First(l, k) = l[m].value
<1>1. Len(l) \in Nat /\ DOMAIN l = 1..Len(l)
  BY ProperParams
<1> DEFINE Q(n) == l[n].name = k /\ \A j \in 1..(n - 1) : l[j].name # k
<1>2. Q(m) /\ m \in DOMAIN l
  BY <1>1
<1>3. ASSUME NEW n \in DOMAIN l, Q(n)
      PROVE  n = m
  <2>1. n \in 1..Len(l)
    BY <1>1
  <2>2. CASE n < m
    <3>1. n \in 1..(m - 1)
      BY <2>1, <2>2
    <3> QED
      BY <1>3, <3>1, Zenon
  <2>3. CASE m < n
    <3>1. m \in 1..(n - 1)
      BY <2>1, <2>3
    <3> QED
      BY <1>3, <3>1, Zenon
  <2> QED
    BY <2>1, <2>2, <2>3
<1>4. FirstAt(l, k) = CHOOSE n \in DOMAIN l : Q(n)
  BY Zenon DEF FirstAt
<1> HIDE DEF Q
<1>5. FirstAt(l, k) = m
  BY <1>2, <1>3, <1>4
<1> QED
  BY <1>5, Zenon DEF First

(* The head of a key's slot: if it has the key, it has the key's first value;
   if the slots are apart, it has the key and nothing is behind it.           *)
FindsFirst(l, k, chain) ==
  /\ Map!HeadValue(chain, k) # NULL => Map!HeadValue(chain, k) = First(l, k)
  /\ SlotsApart(l) /\ Has(l, k) => Map!HeadValue(chain, k) # NULL /\ ~Map!AsksItself(chain, k)

LEMMA HeadIs ==
  ASSUME NEW l \in Links, Written(l), NEW bs, NEW count, MapIs(bs, count, l, Len(l)),
         NEW k, k # <<tr>>, get_hash[k] \in Nat
  PROVE  FindsFirst(l, k, bs[Map!Slot(k)])
<1>1. /\ Len(l) \in Nat /\ DOMAIN l = 1..Len(l)
      /\ \A n \in 1..Len(l) : Proper(l[n])
  BY ProperParams
<1>2. PICK s, chain : s = Map!Slot(k) /\ chain = bs[s]
  OBVIOUS
<1>3. s \in Map!Slots /\ SlotHolds(l, Len(l), s, chain)
  BY <1>2, SlotIs, Zenon DEF MapIs
<1>4. \A n : l[n].name = k => Puts(l, n, s)
  BY <1>2, Zenon DEF Puts
<1>5. CASE chain = <<>> /\ \A m \in 1..Len(l) : ~Puts(l, m, s)
  <2>1. Map!HeadValue(chain, k) = NULL
    BY <1>5, Zenon DEF Map!HeadValue
  <2>2. ~Has(l, k)
    BY <1>1, <1>4, <1>5, Zenon DEF Has
  <2> QED
    BY <1>2, <2>1, <2>2, Zenon DEF FindsFirst
<1>6. ASSUME NEW m \in 1..Len(l), Puts(l, m, s), \A j \in 1..(m - 1) : ~Puts(l, j, s),
             chain # <<>>, chain[1] = [key |-> l[m].name, value |-> l[m].value],
             SlotsApart(l) => Len(chain) = 1
      PROVE  FindsFirst(l, k, chain)
  <2>1. chain[1].key = l[m].name /\ chain[1].value = l[m].value
    BY <1>6
  <2>2. CASE l[m].name = k
    <3>1. First(l, k) = l[m].value
      BY <1>4, <1>6, <2>2, FirstIs, Zenon
    <3>2. Map!HeadValue(chain, k) = l[m].value
      BY <1>6, <2>1, <2>2, Zenon DEF Map!HeadValue
    <3>3. l[m].value # NULL
      <4>1. l[m].value \in Seq(Nat)
        BY <1>1, Zenon DEF Proper, Str
      <4> QED
        BY <4>1, LinksAssumption, Zenon
    <3>4. ~Map!AsksItself(chain, k)
      BY <2>1, <2>2, Zenon DEF Map!AsksItself
    <3> QED
      BY <3>1, <3>2, <3>3, <3>4, Zenon DEF FindsFirst
  <2>3. CASE l[m].name # k
    <3>1. Map!HeadValue(chain, k) = NULL
      BY <2>1, <2>3, Zenon DEF Map!HeadValue
    <3>2. ASSUME SlotsApart(l), Has(l, k)
          PROVE  FALSE
      <4>1. PICK n \in 1..Len(l) : l[n].name = k
        BY <1>1, <3>2, Zenon DEF Has
      <4>2. Puts(l, n, s) /\ n # m
        BY <1>4, <2>3, <4>1, Zenon
      <4> QED
        BY <1>1, <1>6, <3>2, <4>2, Zenon DEF SlotsApart, Puts
    <3> QED
      BY <3>1, <3>2, Zenon DEF FindsFirst
  <2> QED
    BY <2>2, <2>3
<1> QED
  BY <1>2, <1>3, <1>5, <1>6, Zenon DEF SlotHolds

LEMMA KeysDiffer == <<dn>> # <<tr>> /\ <<xt>> # <<tr>> /\ get_hash[<<dn>>] \in Nat /\ get_hash[<<xt>>] \in Nat
<1>1. <<dn>>[1] # <<tr>>[1] /\ <<xt>>[1] # <<tr>>[1]
  BY DEF dn, xt, tr
<1> QED
  BY <1>1, LinksAssumption, Zenon

(* A chain of a map whose slots are apart *)
LEMMA ChainsShort ==
  ASSUME NEW l, SlotsApart(l), NEW n, NEW bs, NEW count, MapIs(bs, count, l, n), NEW s \in Map!Slots
  PROVE  Len(bs[s]) <= 1
<1>1. SlotHolds(l, n, s, bs[s])
  BY Zenon DEF MapIs
<1>2. bs[s] = <<>> \/ Len(bs[s]) = 1
  BY <1>1, Zenon DEF SlotHolds
<1>3. Len(<<>>) <= 1 /\ 1 <= 1
  OBVIOUS
<1> QED
  BY <1>2, <1>3, Zenon
-----------------------------------------------------------------------------
(* The inductive invariant *)

(* The scan is in parameter n: those before it are in the list and the map. *)
InScan(n) ==
  /\ Here(n) /\ TrackersAre(trackers, link, n - 1)
  /\ alive /\ MapIs(buckets, bucket_count, link, n - 1)

Opening ==
  pc = "open" =>
    /\ alive /\ trackers = NULL
    /\ i = 0 /\ key = 1 /\ key_buffer = <<>> /\ value_buffer = <<>>
    /\ bucket_count = 0 /\ buckets = [s \in Map!Slots |-> <<>>]

Scanned == pc = "scan" => \E n \in 1..(Len(link) + 1) : InScan(n)

Whole ==
  pc \in {"dn", "name", "xt", "hash"} => alive /\ MapIs(buckets, bucket_count, link, Len(link))

Listing ==
  pc \in {"dn", "name", "xt", "hash", "cleanup", "parsed"} => TrackersAre(trackers, link, Len(link))

HeadOf(k) == Map!HeadValue(buckets[Map!Slot(k)], k)

Answered ==
  /\ pc = "name" => answer = HeadOf(<<dn>>)
  /\ pc = "hash" => answer = HeadOf(<<xt>>)

Copied ==
  /\ pc \in {"xt", "hash", "cleanup", "parsed"} => name = string_urldecode(First(link, <<dn>>))
  /\ pc \in {"cleanup", "parsed"} => hash = First(link, <<xt>>)

(* What is so as long as the process runs *)
Reads == Opening /\ Scanned /\ Whole /\ Listing /\ Answered /\ Copied

(* What the parse needs of a link *)
Suits(l) ==
  /\ SlotsApart(l) /\ Has(l, <<dn>>) /\ Has(l, <<xt>>)
  /\ \A n \in DOMAIN l : l[n].name = <<tr>> => HasPort(l[n].value)

Safe ==
  Suits(link) =>
    /\ proc = "running" /\ pc # "fail" /\ (pc = "failed" => trackers = NULL)
    /\ \A s \in Map!Slots : Len(buckets[s]) <= 1

Slotted == buckets = [s \in Map!Slots |-> buckets[s]] /\ turn \in 0..NumSlots

Parses == Slotted /\ (proc = "running" => Reads) /\ Safe

ParseInv == link \in Links /\ (Written(link) => Parses)

(* Nothing but the process changes for what these say. *)
Ending == <<parser, buckets, bucket_count, alive, turn, frees, answer, last>>

Good == link \in Links /\ Written(link) /\ Parses

-----------------------------------------------------------------------------
(* Before the scan *)

LEMMA StartsGood ==
  ASSUME Init, Written(link)
  PROVE  Parses
<1>1. /\ pc = "open" /\ i = 0 /\ key = 1 /\ key_buffer = <<>> /\ value_buffer = <<>>
      /\ trackers = NULL /\ alive = TRUE /\ bucket_count = 0 /\ turn = 0 /\ proc = "running"
      /\ buckets = [s \in Map!Slots |-> <<>>]
  BY DEF Init, Map!Init
<1>2. \A s \in Map!Slots : buckets[s] = <<>>
  BY <1>1
<1>3. Slotted
  <2>1. 0 \in 0..NumSlots
    BY MagnetAssumption
  <2>2. buckets = [s \in Map!Slots |-> buckets[s]]
    BY <1>1
  <2> QED
    BY <1>1, <2>1, <2>2, Zenon DEF Slotted
<1>4. Safe
  <2>1. Len(<<>>) <= 1
    OBVIOUS
  <2> QED
    BY <1>1, <1>2, <2>1 DEF Safe
<1>5. Reads
  BY <1>1 DEF Reads, Opening, Scanned, Whole, Listing, Answered, Copied
<1> QED
  BY <1>3, <1>4, <1>5 DEF Parses

LEMMA OpenFailsStep ==
  ASSUME Good, OpenFails
  PROVE  Parses'
<1> USE DEF OpenFails, mapvars
<1>1. pc = "open" /\ pc' = "failed" /\ link' = link
  OBVIOUS
<1>2. Slotted'
  BY DEF Good, Parses, Slotted
<1>3. Reads'
  BY DEF Reads, Opening, Scanned, Whole, Listing, Answered, Copied
<1>4. Safe'
  BY DEF Good, Parses, Safe, Reads, Opening
<1> QED
  BY <1>2, <1>3, <1>4 DEF Parses

LEMMA OpenStep ==
  ASSUME Good, Open
  PROVE  Parses'
<1>1. /\ pc = "open" /\ pc' = "scan" /\ trackers' = <<>>
      /\ link' = link /\ i' = i /\ key' = key
      /\ key_buffer' = key_buffer /\ value_buffer' = value_buffer
      /\ buckets' = buckets /\ bucket_count' = bucket_count /\ alive' = alive
      /\ turn' = turn /\ proc' = proc
  BY DEF Open, mapvars
<1>2. Slotted'
  BY <1>1 DEF Good, Parses, Slotted
<1>3. ASSUME proc = "running"
      PROVE  Reads'
  <2>1. /\ alive /\ i = 0 /\ key = 1 /\ key_buffer = <<>> /\ value_buffer = <<>>
        /\ bucket_count = 0 /\ buckets = [s \in Map!Slots |-> <<>>]
    BY <1>1, <1>3 DEF Good, Parses, Reads, Opening
  <2>2. Here(1)'
    <3>1. InParam(link, 1, 1, <<>>, <<>>, 0)
      BY Begins DEF Good
    <3> QED
      BY <1>1, <2>1, <3>1, Zenon DEF Here
  <2>3. TrackersAre(<<>>, link, 0)
    <3>1. TrackersTo(link)[0] = <<>>
      BY TrackersRecur DEF Good, Trackered
    <3>2. <<>> = [j \in DOMAIN <<>> |-> TrackerOf(<<>>[j])]
      OBVIOUS
    <3> QED
      BY <3>1, <3>2, Zenon DEF TrackersAre
  <2>4. MapIs(buckets, 0, link, 0)
    BY <2>1, EmptyMap, Zenon
  <2>5. 1 - 1 = 0
    OBVIOUS
  <2>6. InScan(1)'
    BY <1>1, <2>1, <2>2, <2>3, <2>4, <2>5, Zenon DEF InScan
  <2>7. 1 \in 1..(Len(link) + 1)
    BY ProperParams DEF Good
  <2>8. Scanned'
    BY <1>1, <2>6, <2>7, Zenon DEF Scanned
  <2> QED
    BY <1>1, <2>8 DEF Reads, Opening, Whole, Listing, Answered, Copied
<1>4. Safe'
  BY <1>1 DEF Good, Parses, Safe
<1> QED
  BY <1>1, <1>2, <1>3, <1>4 DEF Parses
-----------------------------------------------------------------------------
(* The scan *)

LEMMA ScanOn ==
  ASSUME Good, pc' = "scan", proc = "running", proc' = proc, link' = link, turn' = turn,
         NEW n \in 1..(Len(link) + 1), InScan(n)'
  PROVE  Parses'
<1>1. MapIs(buckets', bucket_count', link, n - 1)
  BY Zenon DEF InScan
<1>2. Slotted'
  BY <1>1, Zenon DEF MapIs, Slotted, Good, Parses
<1>3. Scanned'
  BY Zenon DEF Scanned
<1>4. Reads'
  BY <1>3 DEF Reads, Opening, Whole, Listing, Answered, Copied
<1>5. Safe'
  <2>1. Suits(link) => \A s \in Map!Slots : Len(buckets'[s]) <= 1
    BY <1>1, ChainsShort, Zenon DEF Suits
  <2> QED
    BY <2>1 DEF Safe
<1> QED
  BY <1>2, <1>4, <1>5 DEF Parses

(* Where the scan is while there are characters left. *)
LEMMA Place ==
  ASSUME Good, Scanning
  PROVE  \E n, c :
           /\ n \in 1..Len(link) /\ InScan(n)
           /\ \/ key = 1 /\ InName(link, n, c, key, key_buffer, value_buffer, i)
              \/ key = 0 /\ InValue(link, n, c, key, key_buffer, value_buffer, i)
<1>1. PICK n : InScan(n)
  BY Zenon DEF Good, Parses, Reads, Scanned, Scanning
<1>2. ~AtEnd(link, n, key, key_buffer, value_buffer, i)
  <2>1. Len(Text(link)) \in Nat
    BY TextLaid, Zenon DEF Good, Laid
  <2>2. i < Len(Text(link))
    BY Zenon DEF Scanning, sub_string
  <2>3. i # Len(Text(link))
    BY <2>1, <2>2
  <2> QED
    BY <2>3, Zenon DEF AtEnd
<1>3. PICK c : \/ InName(link, n, c, key, key_buffer, value_buffer, i)
               \/ InValue(link, n, c, key, key_buffer, value_buffer, i)
  BY <1>1, <1>2, Zenon DEF InScan, Here, InParam
<1> QED
  BY <1>1, <1>3, Zenon DEF InName, InValue

(* The next parameter's number *)
LEMMA Numbers ==
  ASSUME Good, NEW n \in 1..Len(link)
  PROVE  n \in 1..(Len(link) + 1) /\ n + 1 \in 1..(Len(link) + 1) /\ (n + 1) - 1 = n
<1>1. Len(link) \in Nat
  BY ProperParams DEF Good
<1> QED
  BY <1>1

LEMMA SameParam ==
  ASSUME Good, pc = "scan", proc = "running", pc' = pc, UNCHANGED <<link, trackers, mapvars>>,
         NEW n \in 1..Len(link), InScan(n), Here(n)'
  PROVE  Parses'
<1>1. /\ link' = link /\ trackers' = trackers /\ buckets' = buckets /\ turn' = turn
      /\ bucket_count' = bucket_count /\ alive' = alive /\ proc' = proc
  BY DEF mapvars
<1>2. InScan(n)'
  BY <1>1, Zenon DEF InScan
<1>3. n \in 1..(Len(link) + 1)
  BY Numbers
<1> QED
  BY <1>1, <1>2, <1>3, ScanOn

LEMMA ScanKeyStep ==
  ASSUME Good, ScanKey
  PROVE  Parses'
<1>1. PICK n, c : n \in 1..Len(link) /\ InScan(n) /\ InName(link, n, c, key, key_buffer, value_buffer, i)
  <2>1. Scanning /\ key # 0
    BY DEF ScanKey
  <2> QED
    BY <2>1, Place, Zenon
<1>2. InName(link, n, c + 1, key, Append(key_buffer, Char), value_buffer, i + 1)
  BY <1>1, NameHere, Zenon DEF ScanKey, Good
<1>3. Here(n)'
  BY <1>2, Zenon DEF Here, InParam, ScanKey
<1> QED
  BY <1>1, <1>3, SameParam, Zenon DEF ScanKey, Scanning

LEMMA KeyEndsStep ==
  ASSUME Good, KeyEnds
  PROVE  Parses'
<1>1. PICK n, c : n \in 1..Len(link) /\ InScan(n) /\ InName(link, n, c, key, key_buffer, value_buffer, i)
  <2>1. Scanning /\ key # 0
    BY DEF KeyEnds
  <2> QED
    BY <2>1, Place, Zenon
<1>2. /\ WithLast(key_buffer) = key_buffer
      /\ InValue(link, n, 0, 0, key_buffer, value_buffer, i + 1)
  BY <1>1, NameHere, Zenon DEF KeyEnds, Good
<1>3. Here(n)'
  BY <1>2, Zenon DEF Here, InParam, KeyEnds
<1> QED
  BY <1>1, <1>3, SameParam, Zenon DEF KeyEnds, Scanning

LEMMA ScanValueStep ==
  ASSUME Good, ScanValue
  PROVE  Parses'
<1>1. PICK n, c : n \in 1..Len(link) /\ InScan(n) /\ InValue(link, n, c, key, key_buffer, value_buffer, i)
  <2>1. Scanning /\ key # 1
    BY DEF ScanValue
  <2> QED
    BY <2>1, Place, Zenon
<1>2. InValue(link, n, c + 1, key, key_buffer, Append(value_buffer, Char), i + 1)
  BY <1>1, ValueHere, Zenon DEF ScanValue, Good
<1>3. Here(n)'
  BY <1>2, Zenon DEF Here, InParam, ScanValue
<1> QED
  BY <1>1, <1>3, SameParam, Zenon DEF ScanValue, Scanning

(* At the end of a value, the buffers hold the parameter. *)
LEMMA PairHere ==
  ASSUME Good, ValueEnds
  PROVE  \E n \in 1..Len(link) :
           /\ InScan(n)
           /\ ReadsAs(key_buffer) = {link[n].name}
           /\ ReadsAs(WithLast(value_buffer)) = {link[n].value}
           /\ InParam(link, n + 1, 1, <<>>, <<>>, i + 1)
<1>1. PICK n, c : n \in 1..Len(link) /\ InScan(n) /\ InValue(link, n, c, key, key_buffer, value_buffer, i)
  <2>1. Scanning /\ key # 1
    BY DEF ValueEnds
  <2> QED
    BY <2>1, Place, Zenon
<1>2. /\ key_buffer = link[n].name /\ Len(key_buffer) < BufLen
      /\ WithLast(value_buffer) = link[n].value /\ Len(link[n].value) < BufLen
      /\ InParam(link, n + 1, 1, <<>>, <<>>, i + 1)
  BY <1>1, ValueHere, Zenon DEF ValueEnds, Good
<1>3. ReadsAs(key_buffer) = {link[n].name} /\ ReadsAs(WithLast(value_buffer)) = {link[n].value}
  BY <1>2, Zenon DEF ReadsAs
<1> QED
  BY <1>1, <1>2, <1>3, Zenon

LEMMA NextHere ==
  ASSUME NextPair, NEW n, InParam(link, n + 1, 1, <<>>, <<>>, i + 1)
  PROVE  Here(n + 1)'
BY Zenon DEF NextPair, ClearBuffers, Here

LEMMA StorePairStep ==
  ASSUME Good, StorePair
  PROVE  Parses'
<1>1. PICK n \in 1..Len(link) :
        /\ InScan(n)
        /\ ReadsAs(key_buffer) = {link[n].name}
        /\ ReadsAs(WithLast(value_buffer)) = {link[n].value}
        /\ InParam(link, n + 1, 1, <<>>, <<>>, i + 1)
  BY PairHere, Zenon DEF StorePair
<1>2. PICK k, v : /\ k \in ReadsAs(key_buffer) /\ v \in ReadsAs(WithLast(value_buffer))
                  /\ k # <<tr>> /\ Map!Set(k, v)
  BY Zenon DEF StorePair
<1>3. k = link[n].name /\ v = link[n].value
  BY <1>1, <1>2
<1>4. PICK s : s = Map!Slot(link[n].name)
  OBVIOUS
<1>5. /\ buckets' = [buckets EXCEPT ![s] = Map!Chained(@, link[n].name, link[n].value)]
      /\ bucket_count' = bucket_count + Map!NewSlots(buckets[s])
      /\ alive' = alive /\ turn' = turn /\ proc' = proc
  BY <1>2, <1>3, <1>4 DEF Map!Set
<1>6. MapIs(buckets', bucket_count', link, n)
  <2>1. MapIs(buckets, bucket_count, link, n - 1)
    BY <1>1, Zenon DEF InScan
  <2>2. MapIs([buckets EXCEPT ![s] = Map!Chained(@, link[n].name, link[n].value)],
              bucket_count + Map!NewSlots(buckets[s]), link, n)
    BY <1>2, <1>3, <1>4, <2>1, MapAfterPair DEF Good
  <2> QED
    BY <1>5, <2>2
<1>7. TrackersAre(trackers, link, n)
  BY <1>1, <1>2, <1>3, OneMoreTracker, TrackersRecur, ProperParams, Zenon DEF InScan, Good
<1>8. pc' = "scan" /\ link' = link /\ trackers' = trackers /\ proc = "running" /\ NextPair
  BY DEF StorePair, NextPair, ValueEnds, Scanning
<1>9. InScan(n + 1)'
  <2>1. Here(n + 1)'
    BY <1>1, <1>8, NextHere
  <2> QED
    BY <1>1, <1>5, <1>6, <1>7, <1>8, <2>1, Numbers, Zenon DEF InScan
<1> QED
  BY <1>5, <1>8, <1>9, Numbers, ScanOn

(* Of a link that suits, no pair is refused. *)
LEMMA StoreFailsStep ==
  ASSUME Good, StoreFails
  PROVE  Parses'
<1>1. PICK n \in 1..Len(link) : InScan(n) /\ ReadsAs(key_buffer) = {link[n].name}
  BY PairHere, Zenon DEF StoreFails
<1>2. link[n].name # <<tr>> /\ MapIs(buckets, bucket_count, link, n - 1)
  BY <1>1 DEF StoreFails, InScan
<1>3. ~Suits(link)
  <2>1. ~(bucket_count < NumSlots)
    BY DEF StoreFails, Map!Full
  <2>2. SlotsApart(link) => bucket_count < NumSlots
    BY <1>2, MapAfterPair DEF Good
  <2> QED
    BY <2>1, <2>2, Zenon DEF Suits
<1>4. pc' = "fail" /\ link' = link /\ buckets' = buckets /\ turn' = turn
  BY DEF StoreFails, Map!BeginDestroy
<1>5. Slotted'
  BY <1>4 DEF Good, Parses, Slotted
<1>6. Reads'
  BY <1>4 DEF Reads, Opening, Scanned, Whole, Listing, Answered, Copied
<1>7. Safe'
  BY <1>3, <1>4 DEF Safe
<1> QED
  BY <1>5, <1>6, <1>7 DEF Parses

(* A process that ends in a step that a link which suits never takes *)
LEMMA Ends ==
  ASSUME Good, proc' = "crashed", link' = link, buckets' = [s \in Map!Slots |-> buckets'[s]],
         turn' = turn, ~Suits(link)
  PROVE  Parses'
<1>1. Slotted'
  BY Zenon DEF Good, Parses, Slotted
<1>2. Safe'
  BY Zenon DEF Safe
<1> QED
  BY <1>1, <1>2 DEF Parses

LEMMA AppendTrackerStep ==
  ASSUME Good, AppendTracker
  PROVE  Parses'
<1>1. PICK n \in 1..Len(link) :
        /\ InScan(n)
        /\ ReadsAs(key_buffer) = {link[n].name}
        /\ ReadsAs(WithLast(value_buffer)) = {link[n].value}
        /\ InParam(link, n + 1, 1, <<>>, <<>>, i + 1)
  BY PairHere, Zenon DEF AppendTracker
<1>2. link[n].name = <<tr>>
  BY <1>1 DEF AppendTracker
<1>3. PICK v : v = link[n].value
  OBVIOUS
<1>4. CASE /\ HasPort(v)
           /\ trackers' = Append(trackers, TrackerOf(v))
           /\ NextPair
           /\ UNCHANGED <<pc, mapvars>>
  <2>1. /\ buckets' = buckets /\ bucket_count' = bucket_count
        /\ alive' = alive /\ turn' = turn /\ proc' = proc
    BY <1>4 DEF mapvars
  <2>2. pc' = "scan" /\ link' = link /\ proc = "running"
    BY <1>4 DEF AppendTracker, NextPair, ValueEnds, Scanning
  <2>3. TrackersAre(trackers', link, n)
    BY <1>1, <1>2, <1>3, <1>4, OneMoreTracker, TrackersRecur, ProperParams, Zenon DEF InScan, Good
  <2>4. MapIs(buckets, bucket_count, link, n)
    <3>1. n \in Nat /\ n >= 1
      OBVIOUS
    <3> QED
      BY <1>1, <1>2, <3>1, MapAfterTracker, Zenon DEF InScan
  <2>5. Here(n + 1)'
    BY <1>1, <1>4, NextHere
  <2>6. InScan(n + 1)'
    BY <1>1, <2>1, <2>2, <2>3, <2>4, <2>5, Numbers, Zenon DEF InScan
  <2> QED
    BY <2>1, <2>2, <2>6, Numbers, ScanOn
<1>5. CASE /\ ~HasPort(v)
           /\ proc' = "crashed"
           /\ UNCHANGED Ending
  <2>1. ~Suits(link)
    <3>1. n \in DOMAIN link
      BY ProperParams DEF Good
    <3> QED
      BY <1>2, <1>3, <1>5, <3>1, Zenon DEF Suits
  <2>2. link' = link /\ buckets' = buckets /\ turn' = turn
    BY <1>5 DEF Ending, parser
  <2>3. buckets' = [s \in Map!Slots |-> buckets'[s]]
    BY <2>2, Zenon DEF Good, Parses, Slotted
  <2> QED
    BY <1>5, <2>1, <2>2, <2>3, Ends, Zenon
<1> QED
  BY <1>1, <1>3, <1>4, <1>5, Zenon DEF AppendTracker, TrackerOf, Ending

(* No buffer is full. *)
LEMMA OverwriteCrashesStep ==
  ASSUME Good, OverwriteCrashes
  PROVE  Parses'
<1>1. Scanning /\ ((key = 1 /\ Overwrites(key_buffer)) \/ (key = 0 /\ Overwrites(value_buffer)))
  BY DEF OverwriteCrashes
<1>2. PICK n, c :
           \/ key = 1 /\ InName(link, n, c, key, key_buffer, value_buffer, i)
           \/ key = 0 /\ InValue(link, n, c, key, key_buffer, value_buffer, i)
  BY <1>1, Place, Zenon
<1>3. ~(BufLen < BufLen)
  BY MagnetAssumption
<1>4. CASE key = 1 /\ InName(link, n, c, key, key_buffer, value_buffer, i)
  <2>1. Len(key_buffer) < BufLen
    BY <1>1, <1>4, NameHere, Zenon DEF Good
  <2> QED
    BY <1>1, <1>3, <1>4, <2>1 DEF Overwrites
<1>5. CASE key = 0 /\ InValue(link, n, c, key, key_buffer, value_buffer, i)
  <2>1. Len(value_buffer) < BufLen
    BY <1>1, <1>5, ValueHere, Zenon DEF Good
  <2> QED
    BY <1>1, <1>3, <1>5, <2>1 DEF Overwrites
<1> QED
  BY <1>2, <1>4, <1>5

LEMMA ScanEndsStep ==
  ASSUME Good, ScanEnds
  PROVE  Parses'
<1>1. /\ pc = "scan" /\ pc' = "dn" /\ i >= Len(Text(link)) /\ link' = link /\ trackers' = trackers
      /\ buckets' = buckets /\ bucket_count' = bucket_count /\ alive' = alive
      /\ turn' = turn /\ proc' = proc
  BY DEF ScanEnds, mapvars, sub_string
<1>2. Slotted'
  BY <1>1 DEF Good, Parses, Slotted
<1>3. Safe'
  BY <1>1 DEF Good, Parses, Safe
<1>4. ASSUME proc = "running"
      PROVE  Reads'
  <2>1. PICK n \in 1..(Len(link) + 1) : InScan(n)
    BY <1>1, <1>4, Zenon DEF Good, Parses, Reads, Scanned
  <2>2. n = Len(link) + 1
    <3>1. ASSUME n # Len(link) + 1
          PROVE  FALSE
      <4>1. n \in 1..Len(link)
        BY <3>1, ProperParams DEF Good
      <4>2. PICK x, y, f, len : Stretch(link, n, x, y, f, len)
        BY <4>1, Stretches DEF Good
      <4>3. PICK c : \/ InName(link, n, c, key, key_buffer, value_buffer, i)
                     \/ InValue(link, n, c, key, key_buffer, value_buffer, i)
        BY <2>1, <3>1, Zenon DEF InScan, Here, InParam, AtEnd
      <4>4. /\ Len(x) \in Nat /\ Len(y) \in Nat /\ f \in Nat /\ len \in Nat /\ i >= len
            /\ f + Len(x) + Len(y) + 1 <= len
            /\ n = Len(link) => f + Len(x) + Len(y) + 1 = len
            /\ n # Len(link) => f + Len(x) + Len(y) + 3 <= len
        BY <1>1, <4>2, Zenon DEF Stretch
      <4>5. CASE InName(link, n, c, key, key_buffer, value_buffer, i)
        <5>1. c \in 0..Len(x) /\ i = f + c
          BY <4>2, <4>5, Zenon DEF InName, Stretch
        <5> QED
          BY <4>4, <5>1
      <4>6. CASE InValue(link, n, c, key, key_buffer, value_buffer, i)
        <5>1. c \in 0..Len(y) /\ i = f + Len(x) + 1 + c /\ (n = Len(link) => c # Len(y))
          BY <4>2, <4>6, Zenon DEF InValue, Stretch
        <5> QED
          BY <4>4, <5>1
      <4> QED
        BY <4>3, <4>5, <4>6
    <3> QED
      BY <3>1
  <2>3. n - 1 = Len(link)
    <3>1. Len(link) \in Nat
      BY ProperParams DEF Good
    <3> QED
      BY <2>2, <3>1
  <2>4. alive /\ MapIs(buckets, bucket_count, link, Len(link)) /\ TrackersAre(trackers, link, Len(link))
    BY <2>1, <2>3, Zenon DEF InScan
  <2>5. Whole' /\ Listing'
    BY <1>1, <2>4, Zenon DEF Whole, Listing
  <2> QED
    BY <1>1, <2>5 DEF Reads, Opening, Scanned, Answered, Copied
<1> QED
  BY <1>1, <1>2, <1>3, <1>4 DEF Parses

-----------------------------------------------------------------------------
(* Behind the scan *)

LEMMA Looked ==
  ASSUME Good, pc \in {"dn", "name", "xt", "hash"}, proc = "running"
  PROVE  /\ FindsFirst(link, <<dn>>, buckets[Map!Slot(<<dn>>)])
         /\ FindsFirst(link, <<xt>>, buckets[Map!Slot(<<xt>>)])
<1>1. MapIs(buckets, bucket_count, link, Len(link))
  BY Zenon DEF Good, Parses, Reads, Whole
<1> QED
  BY <1>1, HeadIs, KeysDiffer, Zenon DEF Good

LEMMA LookUpStep ==
  ASSUME Good, LookUp
  PROVE  Parses'
<1>1. PICK k : k = IF pc = "dn" THEN <<dn>> ELSE <<xt>>
  OBVIOUS
<1>2. PICK chain : chain = buckets[Map!Slot(k)]
  OBVIOUS
<1>3. /\ pc \in {"dn", "xt"} /\ pc' = IF pc = "dn" THEN "name" ELSE "hash"
      /\ link' = link /\ trackers' = trackers /\ name' = name /\ hash' = hash
      /\ buckets' = buckets /\ bucket_count' = bucket_count /\ alive' = alive /\ turn' = turn
      /\ proc = "running"
      /\ \/ answer' = Map!HeadValue(chain, k) /\ proc' = proc
         \/ Map!AsksItself(chain, k) /\ proc' = "crashed"
  BY <1>1, <1>2 DEF LookUp, Map!Get, Map!Ready
<1>4. Slotted'
  BY <1>3 DEF Good, Parses, Slotted
<1>5. Suits(link) => ~Map!AsksItself(chain, k)
  BY <1>1, <1>2, <1>3, Looked, Zenon DEF FindsFirst, Suits
<1>6. Safe'
  BY <1>3, <1>5 DEF Good, Parses, Safe
<1>7. ASSUME proc' = "running"
      PROVE  Reads'
  <2>1. Reads /\ answer' = Map!HeadValue(chain, k)
    BY <1>3, <1>7 DEF Good, Parses
  <2>2. Whole'
    BY <1>3, <2>1 DEF Reads, Whole
  <2>3. Listing'
    BY <1>3, <2>1 DEF Reads, Listing
  <2>4. Answered'
    BY <1>1, <1>2, <1>3, <2>1 DEF Answered, HeadOf
  <2>5. Copied'
    BY <1>3, <2>1 DEF Reads, Copied
  <2> QED
    BY <1>3, <2>2, <2>3, <2>4, <2>5 DEF Reads, Opening, Scanned
<1> QED
  BY <1>4, <1>6, <1>7 DEF Parses

LEMMA CopyNameStep ==
  ASSUME Good, CopyName
  PROVE  Parses'
<1>1. /\ pc = "name" /\ pc' = "xt" /\ proc = "running" /\ answer # NULL
      /\ link' = link /\ trackers' = trackers /\ name' = string_urldecode(answer)
      /\ buckets' = buckets /\ bucket_count' = bucket_count /\ alive' = alive
      /\ turn' = turn /\ proc' = proc
  BY DEF CopyName, mapvars
<1>2. Reads
  BY <1>1 DEF Good, Parses
<1>3. answer = First(link, <<dn>>)
  <2>1. answer = Map!HeadValue(buckets[Map!Slot(<<dn>>)], <<dn>>)
    BY <1>1, <1>2 DEF Reads, Answered, HeadOf
  <2> QED
    BY <1>1, <2>1, Looked DEF FindsFirst
<1>4. Slotted' /\ Safe'
  BY <1>1 DEF Good, Parses, Slotted, Safe
<1>5. Whole' /\ Listing'
  BY <1>1, <1>2 DEF Reads, Whole, Listing
<1>6. Copied'
  BY <1>1, <1>3 DEF Copied
<1> QED
  BY <1>1, <1>4, <1>5, <1>6 DEF Parses, Reads, Opening, Scanned, Answered

LEMMA CopyHashStep ==
  ASSUME Good, CopyHash
  PROVE  Parses'
<1>1. /\ pc = "hash" /\ pc' = "cleanup" /\ proc = "running" /\ answer # NULL
      /\ link' = link /\ trackers' = trackers /\ name' = name /\ hash' = answer
      /\ buckets' = buckets /\ turn' = turn /\ proc' = proc
  BY DEF CopyHash, Map!BeginDestroy
<1>2. Reads
  BY <1>1 DEF Good, Parses
<1>3. answer = First(link, <<xt>>)
  <2>1. answer = Map!HeadValue(buckets[Map!Slot(<<xt>>)], <<xt>>)
    BY <1>1, <1>2 DEF Reads, Answered, HeadOf
  <2> QED
    BY <1>1, <2>1, Looked DEF FindsFirst
<1>4. Slotted' /\ Safe'
  BY <1>1 DEF Good, Parses, Slotted, Safe
<1>5. Whole' /\ Listing'
  BY <1>1, <1>2 DEF Reads, Whole, Listing
<1>6. Copied'
  BY <1>1, <1>2, <1>3 DEF Reads, Copied
<1> QED
  BY <1>1, <1>4, <1>5, <1>6 DEF Parses, Reads, Opening, Scanned, Answered

(* A link that suits has both. *)
LEMMA NothingToCopyStep ==
  ASSUME Good, NothingToCopy
  PROVE  Parses'
<1>1. /\ pc \in {"name", "hash"} /\ proc = "running" /\ answer = NULL /\ proc' = "crashed"
      /\ link' = link /\ buckets' = buckets /\ turn' = turn
  BY DEF NothingToCopy, parser
<1>2. ~Suits(link)
  <2>1. \/ answer = Map!HeadValue(buckets[Map!Slot(<<dn>>)], <<dn>>)
        \/ answer = Map!HeadValue(buckets[Map!Slot(<<xt>>)], <<xt>>)
    BY <1>1 DEF Good, Parses, Reads, Answered, HeadOf
  <2>2. pc \in {"dn", "name", "xt", "hash"}
    BY <1>1
  <2> QED
    BY <1>1, <2>1, <2>2, Looked, Zenon DEF FindsFirst, Suits
<1>3. buckets' = [s \in Map!Slots |-> buckets'[s]]
  BY <1>1, Zenon DEF Good, Parses, Slotted
<1> QED
  BY <1>1, <1>2, <1>3, Ends, Zenon

LEMMA CleanupStep ==
  ASSUME Good, Cleanup
  PROVE  Parses'
<1>1. /\ pc \in {"cleanup", "fail"} /\ pc' = pc /\ link' = link /\ trackers' = trackers
      /\ name' = name /\ hash' = hash /\ proc = "running" /\ turn < NumSlots
      /\ buckets' = [buckets EXCEPT ![turn] = <<>>]
      /\ \/ proc' = "running" /\ turn' = turn + 1
         \/ Len(buckets[turn]) > 1 /\ proc' = "crashed" /\ turn' = turn
  BY DEF Cleanup, Map!DestroySlot, parser
<1>2. /\ NumSlots \in Nat /\ turn \in 0..NumSlots /\ Map!Slots = 0..(NumSlots - 1)
      /\ buckets = [s \in Map!Slots |-> buckets[s]]
  BY SlotsAre DEF Good, Parses, Slotted
<1>3. turn \in Map!Slots /\ turn + 1 \in 0..NumSlots
  BY <1>1, <1>2
<1>4. /\ buckets' = [s \in Map!Slots |-> buckets'[s]]
      /\ \A s \in Map!Slots : buckets'[s] = <<>> \/ buckets'[s] = buckets[s]
  BY <1>1, <1>2
<1>5. Slotted'
  BY <1>1, <1>2, <1>3, <1>4, Zenon DEF Slotted
<1>6. ASSUME Suits(link)
      PROVE  /\ proc' = "running" /\ pc' # "fail"
             /\ \A s \in Map!Slots : Len(buckets'[s]) <= 1
  <2>1. pc # "fail" /\ \A s \in Map!Slots : Len(buckets[s]) <= 1
    BY <1>6 DEF Good, Parses, Safe
  <2>2. ~(Len(buckets[turn]) > 1)
    <3>1. PICK len : len = Len(buckets[turn])
      OBVIOUS
    <3>2. ~(1 < len) \/ len > 1
      OBVIOUS
    <3>3. Len(buckets[turn]) <= 1
      BY <1>3, <2>1
    <3>4. buckets[turn] = <<>> \/ Len(buckets[turn]) <= 1
      BY <3>3
    <3> QED
      BY <3>3
  <2>3. Len(<<>>) <= 1
    OBVIOUS
  <2>4. \A s \in Map!Slots : Len(buckets'[s]) <= 1
    BY <1>4, <2>1, <2>3, Zenon
  <2> QED
    BY <1>1, <2>1, <2>2, <2>4, Zenon
<1>7. Safe'
  BY <1>1, <1>6 DEF Safe
<1>8. Reads'
  BY <1>1 DEF Good, Parses, Reads, Opening, Scanned, Whole, Listing, Answered, Copied
<1> QED
  BY <1>5, <1>7, <1>8 DEF Parses

LEMMA ReturnsStep ==
  ASSUME Good, Returns
  PROVE  Parses'
<1>1. /\ pc \in {"cleanup", "fail"} /\ proc = "running"
      /\ pc' = IF pc = "cleanup" THEN "parsed" ELSE "failed"
      /\ link' = link /\ trackers' = trackers /\ name' = name /\ hash' = hash
      /\ buckets' = buckets /\ turn' = turn /\ proc' = proc
  BY DEF Returns, mapvars
<1>2. Slotted' /\ Safe'
  BY <1>1 DEF Good, Parses, Slotted, Safe
<1>3. Listing' /\ Copied'
  BY <1>1 DEF Good, Parses, Reads, Listing, Copied
<1> QED
  BY <1>1, <1>2, <1>3 DEF Parses, Reads, Opening, Scanned, Whole, Answered

LEMMA StillGood ==
  ASSUME Good, UNCHANGED vars
  PROVE  Parses'
<1>1. /\ link' = link /\ pc' = pc /\ i' = i /\ key' = key /\ key_buffer' = key_buffer
      /\ value_buffer' = value_buffer /\ trackers' = trackers /\ name' = name /\ hash' = hash
      /\ buckets' = buckets /\ bucket_count' = bucket_count /\ alive' = alive
      /\ turn' = turn /\ proc' = proc /\ answer' = answer
  BY DEF vars, parser, mapvars
<1>2. Slotted' <=> Slotted
  BY <1>1, Zenon DEF Slotted
<1>3. Safe' <=> Safe
  BY <1>1, Zenon DEF Safe
<1>4. Scanned' <=> Scanned
  BY <1>1, Zenon DEF Scanned, InScan, Here
<1>5. Opening' <=> Opening
  BY <1>1, Zenon DEF Opening
<1>6. (Whole' <=> Whole) /\ (Listing' <=> Listing)
  BY <1>1, Zenon DEF Whole, Listing
<1>7. (Answered' <=> Answered) /\ (Copied' <=> Copied)
  BY <1>1, Zenon DEF Answered, HeadOf, Copied
<1> QED
  BY <1>1, <1>2, <1>3, <1>4, <1>5, <1>6, <1>7, Zenon DEF Good, Parses, Reads

-----------------------------------------------------------------------------
(* The theorems *)

LEMMA ParseInvInit == Init => ParseInv
<1> SUFFICES ASSUME Init
             PROVE  ParseInv
  OBVIOUS
<1>1. link \in Links
  BY DEF Init
<1> QED
  BY <1>1, StartsGood, Zenon DEF ParseInv

LEMMA LinkStays ==
  ASSUME [Next]_vars
  PROVE  link' = link
BY DEF Next, vars, parser, OpenFails, Open, ScanKey, KeyEnds, ScanValue, StorePair, StoreFails,
       AppendTracker, NextPair, OverwriteCrashes, ScanEnds, LookUp, CopyName, CopyHash,
       NothingToCopy, Cleanup, Returns

LEMMA ParseInvStep == ParseInv /\ [Next]_vars => ParseInv'
<1> SUFFICES ASSUME ParseInv, [Next]_vars
             PROVE  ParseInv'
  OBVIOUS
<1>1. link' = link /\ link \in Links
  BY LinkStays DEF ParseInv
<1>2. ASSUME Written(link)
      PROVE  Parses'
  <2>1. Good
    BY <1>2, Zenon DEF ParseInv, Good
  <2>2. CASE UNCHANGED vars
    BY <2>1, <2>2, StillGood
  <2>3. CASE OpenFails
    BY <2>1, <2>3, OpenFailsStep
  <2>4. CASE Open
    BY <2>1, <2>4, OpenStep
  <2>5. CASE ScanKey
    BY <2>1, <2>5, ScanKeyStep
  <2>6. CASE KeyEnds
    BY <2>1, <2>6, KeyEndsStep
  <2>7. CASE ScanValue
    BY <2>1, <2>7, ScanValueStep
  <2>8. CASE StorePair
    BY <2>1, <2>8, StorePairStep
  <2>9. CASE StoreFails
    BY <2>1, <2>9, StoreFailsStep
  <2>10. CASE AppendTracker
    BY <2>1, <2>10, AppendTrackerStep
  <2>11. CASE OverwriteCrashes
    BY <2>1, <2>11, OverwriteCrashesStep
  <2>12. CASE ScanEnds
    BY <2>1, <2>12, ScanEndsStep
  <2>13. CASE LookUp
    BY <2>1, <2>13, LookUpStep
  <2>14. CASE CopyName
    BY <2>1, <2>14, CopyNameStep
  <2>15. CASE CopyHash
    BY <2>1, <2>15, CopyHashStep
  <2>16. CASE NothingToCopy
    BY <2>1, <2>16, NothingToCopyStep
  <2>17. CASE Cleanup
    BY <2>1, <2>17, CleanupStep
  <2>18. CASE Returns
    BY <2>1, <2>18, ReturnsStep
  <2> QED
    BY <2>2, <2>3, <2>4, <2>5, <2>6, <2>7, <2>8, <2>9, <2>10, <2>11, <2>12, <2>13, <2>14,
       <2>15, <2>16, <2>17, <2>18, Zenon DEF Next
<1> QED
  BY <1>1, <1>2, Zenon DEF ParseInv

LEMMA GoodFromInv == ParseInv => GoodLinkParses
<1> SUFFICES ASSUME ParseInv, Written(link), Suits(link)
             PROVE  proc = "running" /\ (pc = "failed" => trackers = NULL)
  BY Zenon DEF GoodLinkParses, Suits
<1> QED
  BY Zenon DEF ParseInv, Parses, Safe

(* A tracker's address that is written as one of the dictionary *)
LEMMA TrackerWritten ==
  ASSUME NEW v, NEW d \in Dictionary, NEW a \in Addresses, v = d.chars, Joined(a) = d.means
  PROVE  TrackerOf(v) = [host |-> a[2], port |-> a[3]]
<1>1. string_urldecode(v) = Joined(a)
  BY DictionaryDecodes, Zenon
<1>2. string_split(string_urldecode(v)) = a
  BY <1>1, SplitJoined, Zenon
<1>3. 1 + 1 = 2 /\ 2 + 1 = 3
  OBVIOUS
<1>4. Part(v, 1) = a[2] /\ Part(v, 2) = a[3]
  BY <1>2, <1>3, Zenon DEF Part
<1> QED
  BY <1>4, Zenon DEF TrackerOf

LEMMA WrittenFromInv == ParseInv => ParsedAsWritten
<1> SUFFICES ASSUME ParseInv, pc = "parsed", proc = "running", Written(link)
             PROVE  /\ \A d \in Dictionary : First(link, <<dn>>) = d.chars => name = d.means
                    /\ hash = First(link, <<xt>>)
                    /\ Len(trackers) = Len(Trackers(link))
                    /\ \A n \in DOMAIN trackers : \A d \in Dictionary, a \in Addresses :
                         Trackers(link)[n] = d.chars /\ Joined(a) = d.means =>
                           trackers[n] = [host |-> a[2], port |-> a[3]]
  BY Zenon DEF ParsedAsWritten
<1>1. /\ name = string_urldecode(First(link, <<dn>>)) /\ hash = First(link, <<xt>>)
      /\ TrackersAre(trackers, link, Len(link))
  BY DEF ParseInv, Parses, Reads, Listing, Copied
<1>2. \A d \in Dictionary : First(link, <<dn>>) = d.chars => name = d.means
  BY <1>1, DictionaryDecodes, Zenon
<1>3. PICK t \in Seq(Str) : t = Trackers(link)
  <2>1. Trackered(link) /\ Len(link) \in Nat
    BY TrackersRecur, ProperParams DEF ParseInv
  <2>2. Len(link) \in 0..Len(link)
    BY <2>1
  <2> QED
    BY <2>1, <2>2, Zenon DEF Trackered, Trackers
<1>4. trackers = [j \in DOMAIN t |-> TrackerOf(t[j])]
  BY <1>1, <1>3, Zenon DEF TrackersAre, Trackers
<1>5. Len(trackers) = Len(t) /\ DOMAIN trackers = DOMAIN t
  BY <1>4
<1>6. \A n \in DOMAIN trackers : trackers[n] = TrackerOf(t[n])
  BY <1>4
<1>7. \A n \in DOMAIN trackers : \A d \in Dictionary, a \in Addresses :
         t[n] = d.chars /\ Joined(a) = d.means => trackers[n] = [host |-> a[2], port |-> a[3]]
  BY <1>6, TrackerWritten, Zenon
<1> QED
  BY <1>1, <1>2, <1>3, <1>5, <1>7, Zenon

(* A link that is written as it should be, with a name, a hash, complete
   addresses and a slot of the map for each other parameter, never ends the
   process, however long it is and whatever the hash function
   (torrent.c:117-260): no buffer overflows, no pair is refused, no lookup
   walks in circles or finds nothing.                                       *)
THEOREM GoodLinksParse == Spec => []GoodLinkParses
<1> QED
  BY ParseInvInit, ParseInvStep, GoodFromInv, PTL DEF Spec

(* A link that was parsed gave its first name and hash and a tracker for each
   "tr", in order, decoded from whatever writing of them (string_utils.c:48-90)
   and taken apart at the colons (tracker.c:72-77).                          *)
THEOREM LinksAreRead == Spec => []ParsedAsWritten
<1> QED
  BY ParseInvInit, ParseInvStep, WrittenFromInv, PTL DEF Spec

-----------------------------------------------------------------------------
(* Types, whatever the link *)

LEMMA TextType ==
  ASSUME NEW l \in Links
  PROVE  Text(l) \in Str /\ Len(Text(l)) \in Nat /\ \A j \in 1..Len(Text(l)) : Text(l)[j] \in Nat
<1>1. l \in Seq([name : Str, value : Str \cup {BareName}])
  BY LinksAssumption DEF Str
<1>2. Len(l) \in Nat /\ DOMAIN l = 1..Len(l)
  BY <1>1
<1>3. ASSUME NEW n \in 1..Len(l)
      PROVE  Piece(l, n) \in Str
  <2>1. l[n] \in [name : Str, value : Str \cup {BareName}]
    <3>1. \A S : l \in Seq(S) => l[n] \in S
      OBVIOUS
    <3> QED
      BY <1>1, <3>1, Zenon
  <2>2. PICK x, y : x = l[n].name /\ y = l[n].value /\ x \in Str /\ y \in Str \cup {BareName}
    BY <2>1
  <2>3. <<Equals>> \in Str /\ <<Ampersand>> \in Str
    BY DEF Str, Equals, Ampersand
  <2>4. y \in Str => x \o <<Equals>> \o y \in Str
    BY <2>2, <2>3, Concat, Zenon
  <2>5. ParamText(l[n]) \in Str
    BY <2>2, <2>4, Zenon DEF ParamText
  <2> QED
    BY <2>3, <2>5, Concat, Zenon DEF Piece
<1> DEFINE seqs == [n \in DOMAIN l |-> Piece(l, n)]
<1>4. seqs \in Seq(Str)
  BY <1>2, <1>3
<1>5. Text(l) = Seqs!FlattenSeq(seqs)
  BY Zenon DEF Text, Piece
<1> HIDE DEF seqs
<1>6. Text(l) \in Str
  BY <1>4, <1>5, Layout, Zenon DEF LaidOut
<1> QED
  BY <1>6 DEF Str

LEMMA DecodeIsText ==
  ASSUME NEW v \in Str
  PROVE  string_urldecode(v) \in Str
<1>1. Decodes(v, DecodedOf(v)) /\ Len(v) \in Nat
  BY DecodedRecurs DEF Str
<1>2. 1 \in 1..(Len(v) + 3)
  BY <1>1
<1> QED
  BY <1>1, <1>2, DecodedIs, Zenon DEF Decodes

LEMMA SplitIsList ==
  ASSUME NEW x \in Str
  PROVE  string_split(x) \in Seq(Str)
<1>1. Splits(x, SplitOf(x)) /\ Len(x) \in Nat
  BY SplitRecurs DEF Str
<1>2. Len(x) \in 0..Len(x)
  BY <1>1
<1>3. PICK s \in Split : s = SplitOf(x)[Len(x)]
  BY <1>1, <1>2, Zenon DEF Splits
<1>4. Append(s.list, s.buffer) \in Seq(Str)
  BY DEF Split
<1> QED
  BY <1>3, <1>4, SplitIs, Zenon

Address == [host : Str, port : Str]

LEMMA TrackerType ==
  ASSUME NEW v \in Str, HasPort(v)
  PROVE  TrackerOf(v) \in Address
<1>1. PICK s \in Seq(Str) : s = string_split(string_urldecode(v))
  BY DecodeIsText, SplitIsList
<1>2. Len(s) >= 3
  BY <1>1 DEF HasPort
<1>3. s[1 + 1] \in Str /\ s[2 + 1] \in Str
  BY <1>2
<1>4. Part(v, 1) \in Str /\ Part(v, 2) \in Str
  BY <1>1, <1>3, Zenon DEF Part
<1> QED
  BY <1>4, Zenon DEF TrackerOf, Address

Texts ==
  /\ link \in Links /\ i \in Nat
  /\ key_buffer \in Str /\ value_buffer \in Str
  /\ trackers # NULL => trackers \in Seq(Address)
  /\ TypeOK

LEMMA NoNull ==
  ASSUME NEW ts \in Seq(Address)
  PROVE  ts # NULL
BY LinksAssumption, Zenon DEF Address, Str

LEMMA TextsInit == Init => Texts
<1> SUFFICES ASSUME Init
             PROVE  Texts
  OBVIOUS
<1>1. Len(Text(link)) \in Nat
  BY TextType DEF Init
<1>2. BufLen \in Nat
  BY MagnetAssumption
<1>3. <<>> \in Str /\ Len(<<>>) = 0
  BY DEF Str
<1> QED
  BY <1>1, <1>2, <1>3 DEF Init, Texts, TypeOK, sub_string

(* The character that is read *)
LEMMA CharType ==
  ASSUME Texts, Scanning
  PROVE  Char \in Nat /\ i + 1 \in 0..Len(sub_string)
<1>1. Len(Text(link)) \in Nat /\ \A j \in 1..Len(Text(link)) : Text(link)[j] \in Nat
  BY TextType DEF Texts
<1>2. i + 1 \in 1..Len(Text(link))
  BY <1>1 DEF Scanning, sub_string, Texts
<1> QED
  BY <1>1, <1>2 DEF Char, sub_string

(* A buffer with the character behind it, if there is room *)
LEMMA Grown ==
  ASSUME NEW b \in Str, NEW c \in Nat, Len(b) < BufLen
  PROVE  Append(b, c) \in Str /\ Len(Append(b, c)) <= BufLen
BY MagnetAssumption DEF Str

LEMMA WithLastType ==
  ASSUME Texts, Scanning, NEW b \in Str, Len(b) <= BufLen
  PROVE  WithLast(b) \in Str /\ Len(WithLast(b)) <= BufLen
<1>1. CASE AtLastChar /\ Len(b) < BufLen
  BY <1>1, CharType, Grown DEF WithLast
<1>2. CASE ~(AtLastChar /\ Len(b) < BufLen)
  BY <1>2, Zenon DEF WithLast
<1> QED
  BY <1>1, <1>2

LEMMA ReadsType ==
  ASSUME NEW b \in Str
  PROVE  ReadsAs(b) \subseteq Str
<1>1. Append(b, Junk) \in Str
  BY MagnetAssumption DEF Str
<1> QED
  BY <1>1 DEF ReadsAs

LEMMA TextsStep == Texts /\ [Next]_vars => Texts'
<1> SUFFICES ASSUME Texts, [Next]_vars
             PROVE  Texts'
  OBVIOUS
<1>0. <<>> \in Str /\ Len(<<>>) = 0 /\ BufLen \in Nat
  BY MagnetAssumption DEF Str
<1>1. CASE OpenFails
  BY <1>1 DEF OpenFails, Texts, TypeOK, sub_string
<1>2. CASE Open
  <2>1. <<>> \in Seq(Address) /\ <<>> # NULL
    <3>1. <<>> \in Seq(Address)
      OBVIOUS
    <3> QED
      BY <3>1, NoNull, Zenon
  <2> QED
    BY <1>2, <2>1 DEF Open, Texts, TypeOK, sub_string
<1>3. CASE ScanKey
  <2>1. Append(key_buffer, Char) \in Str /\ Len(Append(key_buffer, Char)) <= BufLen
    BY <1>3, CharType, Grown DEF ScanKey, Fits, Texts
  <2>2. i + 1 \in 0..Len(sub_string)
    BY <1>3, CharType DEF ScanKey
  <2> QED
    BY <1>3, <2>1, <2>2 DEF ScanKey, Texts, TypeOK, sub_string
<1>4. CASE KeyEnds
  <2>1. WithLast(key_buffer) \in Str /\ Len(WithLast(key_buffer)) <= BufLen
    BY <1>4, WithLastType DEF KeyEnds, Texts, TypeOK
  <2>2. i + 1 \in 0..Len(sub_string)
    BY <1>4, CharType DEF KeyEnds
  <2> QED
    BY <1>4, <2>1, <2>2 DEF KeyEnds, Texts, TypeOK, sub_string
<1>5. CASE ScanValue
  <2>1. Append(value_buffer, Char) \in Str /\ Len(Append(value_buffer, Char)) <= BufLen
    BY <1>5, CharType, Grown DEF ScanValue, Fits, Texts
  <2>2. i + 1 \in 0..Len(sub_string)
    BY <1>5, CharType DEF ScanValue
  <2> QED
    BY <1>5, <2>1, <2>2 DEF ScanValue, Texts, TypeOK, sub_string
<1>6. CASE StorePair
  <2>1. i + 1 \in 0..Len(sub_string)
    BY <1>6, CharType DEF StorePair, ValueEnds
  <2> QED
    BY <1>0, <1>6, <2>1 DEF StorePair, NextPair, ClearBuffers, Texts, TypeOK, sub_string
<1>7. CASE StoreFails
  <2>1. pc = "scan"
    BY <1>7 DEF StoreFails, ValueEnds, Scanning
  <2> QED
    BY <1>7, <2>1 DEF StoreFails, Texts, TypeOK, sub_string
<1>8. CASE AppendTracker
  <2>1. Scanning /\ pc = "scan"
    BY <1>8 DEF AppendTracker, ValueEnds, Scanning
  <2>2. trackers \in Seq(Address)
    BY <2>1 DEF Texts, TypeOK
  <2>3. PICK v \in ReadsAs(WithLast(value_buffer)) :
          \/ /\ HasPort(v)
             /\ trackers' = Append(trackers, TrackerOf(v))
             /\ NextPair
             /\ UNCHANGED <<pc, mapvars>>
          \/ UNCHANGED parser
    BY <1>8, Zenon DEF AppendTracker, TrackerOf
  <2>4. CASE UNCHANGED parser
    BY <2>4 DEF parser, Texts, TypeOK, sub_string
  <2>5. CASE HasPort(v) /\ trackers' = Append(trackers, TrackerOf(v)) /\ NextPair /\ pc' = pc
    <3>1. v \in Str
      BY <2>1, WithLastType, ReadsType DEF Texts, TypeOK
    <3>2. TrackerOf(v) \in Address
      BY <2>5, <3>1, TrackerType
    <3>3. trackers' \in Seq(Address)
      BY <2>2, <2>5, <3>2
    <3>4. trackers' # NULL
      BY <3>3, NoNull
    <3>5. i + 1 \in 0..Len(sub_string)
      BY <2>1, CharType
    <3> QED
      BY <1>0, <2>5, <3>3, <3>4, <3>5 DEF NextPair, ClearBuffers, Texts, TypeOK, sub_string
  <2> QED
    BY <2>3, <2>4, <2>5
<1>9. CASE OverwriteCrashes
  BY <1>9 DEF OverwriteCrashes, parser, Texts, TypeOK, sub_string
<1>10. CASE ScanEnds
  BY <1>10 DEF ScanEnds, Texts, TypeOK, sub_string
<1>11. CASE LookUp
  BY <1>11 DEF LookUp, Texts, TypeOK, sub_string
<1>12. CASE CopyName
  BY <1>12 DEF CopyName, Texts, TypeOK, sub_string
<1>13. CASE CopyHash
  BY <1>13 DEF CopyHash, Texts, TypeOK, sub_string
<1>14. CASE NothingToCopy
  BY <1>14 DEF NothingToCopy, parser, Texts, TypeOK, sub_string
<1>15. CASE Cleanup
  BY <1>15 DEF Cleanup, parser, Texts, TypeOK, sub_string
<1>16. CASE Returns
  BY <1>16 DEF Returns, Texts, TypeOK, sub_string
<1>17. CASE UNCHANGED vars
  BY <1>17 DEF vars, parser, Texts, TypeOK, sub_string
<1> QED
  BY <1>1, <1>2, <1>3, <1>4, <1>5, <1>6, <1>7, <1>8, <1>9, <1>10, <1>11, <1>12, <1>13,
     <1>14, <1>15, <1>16, <1>17, Zenon DEF Next

(* Whatever the link, the scan stays inside its text, what either buffer holds
   fits its array (torrent.c:172, 182), and once the parse is under way there
   is a list of trackers (torrent.c:154).                                    *)
THEOREM BuffersHold == Spec => []TypeOK
<1>1. Texts => TypeOK
  BY DEF Texts
<1> QED
  BY <1>1, TextsInit, TextsStep, PTL DEF Spec

=============================================================================
