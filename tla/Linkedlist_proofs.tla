------------------------- MODULE Linkedlist_proofs -------------------------
(***************************************************************************)
(* Proofs about the linked list, for any number of nodes and values: its   *)
(* pointers spell out the sequence of the nodes appended and not popped    *)
(* since, every node has one owner, and a caller sees a sequence of values *)
(* (module SeqList).                                                       *)
(***************************************************************************)
EXTENDS Linkedlist, TLAPS

Cells(q) == {q[k] : k \in DOMAIN q}
Distinct(q) == \A j, k \in DOMAIN q : q[j] = q[k] => j = k
FirstOf(q) == IF q = <<>> THEN NULL ELSE q[1]

(* The pointers nx lead from each node of q to the one after it. *)
Linked(q, nx) ==
  \A k \in DOMAIN q : nx[q[k]] = IF k = Len(q) THEN NULL ELSE q[k + 1]

-----------------------------------------------------------------------------
(* Chains of nodes *)

LEMMA ChainAppend ==
  ASSUME NEW q \in Seq(Nodes), NEW n \in Nodes \ Cells(q), Distinct(q),
         NEW nx \in [Nodes -> Nodes \cup {NULL}], Linked(q, nx),
         NEW last, last = IF q = <<>> THEN n ELSE q[Len(q)]
  PROVE  LET r == Append(q, n)
         IN /\ r \in Seq(Nodes) /\ Len(r) = Len(q) + 1 /\ r # <<>>
            /\ Distinct(r) /\ Cells(r) = Cells(q) \cup {n}
            /\ Linked(r, [nx EXCEPT ![last] = n, ![n] = NULL])
            /\ FirstOf(r) = (IF q = <<>> THEN n ELSE q[1]) /\ r[Len(r)] = n
<1> DEFINE r == Append(q, n)
           ny == [nx EXCEPT ![last] = n, ![n] = NULL]
<1>1. /\ Len(q) \in Nat /\ DOMAIN q = 1..Len(q)
      /\ q = <<>> <=> Len(q) = 0
      /\ \A k \in 1..Len(q) : q[k] \in Nodes /\ q[k] # n
  BY DEF Cells
<1>2. /\ r \in Seq(Nodes) /\ Len(r) = Len(q) + 1 /\ DOMAIN r = 1..(Len(q) + 1)
      /\ \A k \in 1..Len(q) : r[k] = q[k]
      /\ r[Len(q) + 1] = n
  BY <1>1
<1> HIDE DEF r
<1>3. \A k \in 1..(Len(q) + 1) : k \in 1..Len(q) \/ k = Len(q) + 1
  BY <1>1
<1>4. Distinct(r)
  BY <1>1, <1>2, <1>3 DEF Distinct
<1>5. Cells(r) = Cells(q) \cup {n}
  BY <1>1, <1>2, <1>3 DEF Cells
<1>6. Linked(r, ny)
  <2>1. ny[n] = NULL
    OBVIOUS
  <2>2. ASSUME NEW k \in 1..Len(q)
        PROVE  ny[q[k]] = r[k + 1]
    <3>1. CASE k = Len(q)
      <4>1. last = q[k] /\ last # n /\ last \in Nodes
        BY <1>1, <3>1
      <4>2. ny[last] = n
        BY <4>1
      <4> QED
        BY <1>2, <3>1, <4>1, <4>2
    <3>2. CASE k # Len(q)
      <4>1. q[k] # q[Len(q)] /\ Len(q) \in 1..Len(q) /\ q # <<>> /\ k + 1 \in 1..Len(q)
        <5>1. Len(q) \in 1..Len(q) /\ q # <<>> /\ k + 1 \in 1..Len(q)
          <6>1. Len(q) \in Nat /\ k <= Len(q) /\ k >= 1 /\ k \in Nat
            BY <1>1
          <6>2. Len(q) \in 1..Len(q) /\ k + 1 \in 1..Len(q) /\ Len(q) # 0
            BY <3>2, <6>1
          <6> QED
            BY <1>1, <6>2
        <5>2. k \in DOMAIN q /\ Len(q) \in DOMAIN q
          BY <1>1, <5>1
        <5> QED
          BY <3>2, <5>1, <5>2 DEF Distinct
      <4>2. nx[q[k]] = q[k + 1]
        BY <1>1, <3>2 DEF Linked
      <4>3. ny[q[k]] = nx[q[k]]
        BY <1>1, <4>1
      <4> QED
        BY <1>2, <4>1, <4>2, <4>3
    <3> QED
      BY <3>1, <3>2
  <2> HIDE DEF ny
  <2>3. \A k \in 1..Len(q) : k # Len(r)
    BY <1>1, <1>2
  <2> QED
    BY <1>2, <1>3, <2>1, <2>2, <2>3 DEF Linked
<1>7. r # <<>> /\ FirstOf(r) = (IF q = <<>> THEN n ELSE q[1]) /\ r[Len(r)] = n
  <2>1. r # <<>>
    BY <1>1, <1>2
  <2> QED
    BY <1>1, <1>2, <2>1 DEF FirstOf
<1> QED
  BY <1>2, <1>4, <1>5, <1>6, <1>7 DEF r

LEMMA ChainTail ==
  ASSUME NEW q \in Seq(Nodes), q # <<>>, Distinct(q), NEW nx, Linked(q, nx)
  PROVE  /\ Tail(q) \in Seq(Nodes) /\ Len(Tail(q)) = Len(q) - 1 /\ Len(q) \in Nat \ {0}
         /\ \A k \in 1..(Len(q) - 1) : Tail(q)[k] = q[k + 1]
         /\ Distinct(Tail(q)) /\ Cells(Tail(q)) = Cells(q) \ {q[1]}
         /\ q[1] \in Nodes /\ q[1] \in Cells(q)
         /\ Linked(Tail(q), nx) /\ FirstOf(Tail(q)) = nx[q[1]]
         /\ Tail(q) # <<>> => Tail(q)[Len(Tail(q))] = q[Len(q)]
<1> DEFINE t == Tail(q)
<1>1. Len(q) \in Nat \ {0} /\ DOMAIN q = 1..Len(q) /\ q[1] \in Nodes /\ 1 \in DOMAIN q
  OBVIOUS
<1>2. /\ t \in Seq(Nodes) /\ Len(t) = Len(q) - 1 /\ DOMAIN t = 1..(Len(q) - 1)
      /\ \A k \in 1..(Len(q) - 1) : t[k] = q[k + 1]
  BY <1>1
<1> HIDE DEF t
<1>3. Distinct(t)
  <2>1. ASSUME NEW j \in 1..(Len(q) - 1), NEW k \in 1..(Len(q) - 1), t[j] = t[k]
        PROVE  j = k
    <3>1. j + 1 \in DOMAIN q /\ k + 1 \in DOMAIN q /\ q[j + 1] = q[k + 1]
      BY <1>1, <1>2, <2>1
    <3>2. j + 1 = k + 1
      BY <3>1 DEF Distinct
    <3> QED
      BY <3>2
  <2> QED
    BY <1>2, <2>1 DEF Distinct
<1>4. Cells(t) = Cells(q) \ {q[1]}
  <2>1. \A k \in 1..(Len(q) - 1) : k + 1 \in 1..Len(q) /\ k + 1 # 1
    BY <1>1
  <2>2. \A k \in 1..Len(q) : k = 1 \/ (k - 1 \in 1..(Len(q) - 1) /\ (k - 1) + 1 = k)
    BY <1>1
  <2>3. \A k \in 1..(Len(q) - 1) : t[k] \in Cells(q) \ {q[1]}
    BY <1>1, <1>2, <2>1 DEF Cells, Distinct
  <2>4. \A k \in 1..Len(q) : k # 1 => q[k] \in Cells(t)
    <3>1. ASSUME NEW k \in 1..Len(q), k # 1
          PROVE  k - 1 \in DOMAIN t /\ t[k - 1] = q[k]
      <4>1. k - 1 \in 1..(Len(q) - 1) /\ (k - 1) + 1 = k
        BY <2>2, <3>1
      <4>2. t[k - 1] = q[(k - 1) + 1]
        BY <1>2, <4>1
      <4> QED
        BY <1>2, <4>1, <4>2
    <3> QED
      BY <3>1 DEF Cells
  <2> QED
    BY <1>1, <1>2, <2>3, <2>4 DEF Cells
<1>5. Linked(t, nx)
  <2>1. ASSUME NEW k \in 1..(Len(q) - 1)
        PROVE  nx[t[k]] = IF k = Len(t) THEN NULL ELSE t[k + 1]
    <3>1. k + 1 \in DOMAIN q /\ (k + 1 = Len(q) <=> k = Len(t))
      BY <1>1, <1>2
    <3>2. k # Len(t) => t[k + 1] = q[(k + 1) + 1]
      <4>1. k # Len(t) => k + 1 \in 1..(Len(q) - 1)
        <5>1. Len(q) \in Nat /\ Len(t) = Len(q) - 1 /\ k \in Nat /\ k <= Len(q) - 1
          BY <1>1, <1>2
        <5> QED
          BY <5>1
      <4> QED
        BY <1>2, <4>1
    <3> QED
      BY <1>2, <3>1, <3>2 DEF Linked
  <2> QED
    BY <1>2, <2>1 DEF Linked
<1>6. FirstOf(t) = nx[q[1]]
  <2>1. nx[q[1]] = IF 1 = Len(q) THEN NULL ELSE q[1 + 1]
    BY <1>1 DEF Linked
  <2>2. t = <<>> <=> Len(q) = 1
    BY <1>1, <1>2
  <2>3. Len(q) # 1 => t[1] = q[1 + 1]
    BY <1>1, <1>2
  <2> QED
    BY <2>1, <2>2, <2>3 DEF FirstOf
<1>7. t # <<>> => t[Len(t)] = q[Len(q)]
  <2>1. t # <<>> => Len(q) - 1 \in 1..(Len(q) - 1) /\ (Len(q) - 1) + 1 = Len(q)
    BY <1>1, <1>2
  <2> QED
    BY <1>2, <2>1
<1>8. q[1] \in Cells(q)
  BY <1>1 DEF Cells
<1> QED
  BY <1>1, <1>2, <1>3, <1>4, <1>5, <1>6, <1>7, <1>8 DEF t

LEMMA ChainOther ==
  ASSUME NEW q \in Seq(Nodes), NEW nx \in [Nodes -> Nodes \cup {NULL}], Linked(q, nx),
         NEW n, n \notin Cells(q), NEW v
  PROVE  Linked(q, [nx EXCEPT ![n] = v])
BY DEF Linked, Cells

LEMMA ChainNone ==
  /\ <<>> \in Seq(Nodes) /\ Distinct(<<>>) /\ Cells(<<>>) = {} /\ FirstOf(<<>>) = NULL
  /\ \A nx : Linked(<<>>, nx)
BY DEF Distinct, Cells, Linked, FirstOf

LEMMA ChainOne ==
  ASSUME NEW n \in Nodes, NEW nx, nx[n] = NULL
  PROVE  /\ <<n>> \in Seq(Nodes) /\ Distinct(<<n>>) /\ Cells(<<n>>) = {n}
         /\ FirstOf(<<n>>) = n /\ Linked(<<n>>, nx)
BY DEF Distinct, Cells, Linked, FirstOf

LEMMA ChainFirst ==
  ASSUME NEW q \in Seq(Nodes)
  PROVE  /\ FirstOf(q) = NULL <=> q = <<>>
         /\ q # <<>> => FirstOf(q) = q[1] /\ q[1] \in Cells(q) /\ q[1] \in Nodes
         /\ Cells(q) \subseteq Nodes
<1>1. q # <<>> => 1 \in DOMAIN q /\ q[1] \in Nodes
  OBVIOUS
<1>2. NULL \notin Nodes
  BY ListAssumption
<1> QED
  BY <1>1, <1>2 DEF FirstOf, Cells

-----------------------------------------------------------------------------
(* The inductive invariant.  What a destruction has still to free is a chain
   of its own; a popped node points nowhere, or freeing it would run on into
   the list.                                                                 *)
Freeing(q) ==
  /\ q \in Seq(Nodes) /\ Distinct(q) /\ Linked(q, next) /\ curr = FirstOf(q)
  /\ Cells(q) \cap (Cells(order) \cup popped) = {}
  /\ allocated = Cells(order) \cup popped \cup Cells(q)

WalkInv ==
  op \in {"get", "set"} =>
    /\ alive /\ curr = IF i < Len(order) THEN order[i + 1] ELSE NULL
    /\ pos \in Positions /\ (op = "set" => arg \in Values)

(* The order and the pointers. *)
ChainInv ==
  /\ Distinct(order) /\ Linked(order, next)
  /\ alive => /\ count = Len(order) /\ head = FirstOf(order)
              /\ order # <<>> => end = order[Len(order)]
  /\ ~alive => order = <<>>

OwnerInv ==
  /\ Cells(order) \cap popped = {}
  /\ \A n \in popped : next[n] = NULL
  /\ op # "free" => allocated = Cells(order) \cup popped
  /\ op = "free" => \E q : Freeing(q)

ListInv == TypeOK /\ WalkInv /\ ChainInv /\ OwnerInv

LEMMA ListInit == Init => ListInv
<1> SUFFICES ASSUME Init
             PROVE  ListInv
  OBVIOUS
<1>1. /\ order \in Seq(Nodes) /\ Distinct(order) /\ Cells(order) = {}
      /\ FirstOf(order) = NULL /\ Linked(order, next) /\ Len(order) = 0
  BY ChainNone DEF Init
<1> QED
  BY <1>1 DEF Init, ListInv, TypeOK, WalkInv, ChainInv, OwnerInv

LEMMA InvAppend ==
  ASSUME ListInv, NEW n \in Nodes, NEW v \in Values, ListAppend(n, v)
  PROVE  ListInv'
<1> USE DEF Idle, loop
<1>1. /\ op = "idle" /\ alive /\ n \notin Cells(order) /\ n \notin popped
      /\ Distinct(order) /\ Linked(order, next) /\ order \in Seq(Nodes)
      /\ next \in [Nodes -> Nodes \cup {NULL}]
      /\ head = FirstOf(order) /\ count = Len(order)
      /\ order # <<>> => end = order[Len(order)]
  BY DEF ListAppend, ListInv, ChainInv, OwnerInv, TypeOK
<1>2. head = NULL <=> order = <<>>
  BY <1>1, ChainFirst
<1>3. LastNode(n) = IF order = <<>> THEN n ELSE order[Len(order)]
  BY <1>1, <1>2 DEF LastNode
<1>4. /\ order' \in Seq(Nodes) /\ Len(order') = Len(order) + 1 /\ order' # <<>>
      /\ Distinct(order') /\ Cells(order') = Cells(order) \cup {n}
      /\ Linked(order', next')
      /\ FirstOf(order') = (IF order = <<>> THEN n ELSE order[1])
      /\ order'[Len(order')] = n
  <2>1. /\ order' = Append(order, n)
        /\ next' = [next EXCEPT ![LastNode(n)] = n, ![n] = NULL]
    BY DEF ListAppend
  <2> HIDE DEF LastNode
  <2> QED
    BY <1>1, <1>3, <2>1, ChainAppend
<1>5. LastNode(n) \in Nodes \ popped
  <2>1. order # <<>> => order[Len(order)] \in Cells(order)
    BY <1>1 DEF Cells
  <2>2. Cells(order) \subseteq Nodes /\ Cells(order) \cap popped = {}
    BY <1>1, ChainFirst DEF ListInv, OwnerInv
  <2> QED
    BY <1>1, <1>3, <2>1, <2>2
<1>6. TypeOK'
  <2>1. next' \in [Nodes -> Nodes \cup {NULL}] /\ value' \in [Nodes -> Values \cup {NULL}]
    BY <1>1 DEF ListAppend, ListInv, TypeOK
  <2>2. head' \in Nodes \cup {NULL} /\ end' \in Nodes \cup {NULL} /\ count' \in Nat
    BY DEF ListAppend, ListInv, TypeOK
  <2> QED
    BY <1>4, <2>1, <2>2 DEF ListAppend, ListInv, TypeOK
<1>7. ChainInv'
  <2>1. head' = FirstOf(order')
    BY <1>1, <1>2, <1>4 DEF ListAppend, FirstOf
  <2> QED
    BY <1>1, <1>4, <2>1 DEF ListAppend, ChainInv
<1>8. OwnerInv'
  <2>1. \A x \in popped : next'[x] = NULL
    <3>1. \A x \in popped : next[x] = NULL /\ x \in Nodes
      BY DEF ListInv, OwnerInv, TypeOK
    <3>2. next' = [next EXCEPT ![LastNode(n)] = n, ![n] = NULL]
      BY DEF ListAppend
    <3> HIDE DEF LastNode
    <3> QED
      BY <1>1, <1>5, <3>1, <3>2
  <2> QED
    BY <1>1, <1>4, <2>1 DEF ListAppend, ListInv, OwnerInv
<1>9. WalkInv'
  BY <1>1 DEF ListAppend, WalkInv
<1> QED
  BY <1>6, <1>7, <1>8, <1>9 DEF ListInv

LEMMA InvPop ==
  ASSUME ListInv, Pop
  PROVE  ListInv'
<1> USE DEF Idle, loop
<1>1. /\ op = "idle" /\ alive /\ order \in Seq(Nodes)
      /\ Distinct(order) /\ Linked(order, next)
      /\ next \in [Nodes -> Nodes \cup {NULL}]
      /\ head = FirstOf(order) /\ count = Len(order)
      /\ order # <<>> => end = order[Len(order)]
      /\ allocated = Cells(order) \cup popped
  BY DEF Pop, ListInv, ChainInv, OwnerInv, TypeOK
<1>2. order # <<>> /\ head = order[1] /\ head # NULL
  BY <1>1, ChainFirst DEF Pop
<1>3. /\ order' \in Seq(Nodes) /\ Len(order') = Len(order) - 1 /\ Len(order) \in Nat \ {0}
      /\ Distinct(order') /\ Cells(order') = Cells(order) \ {head}
      /\ head \in Nodes /\ head \in Cells(order)
      /\ Linked(order', next) /\ FirstOf(order') = next[head]
      /\ order' # <<>> => order'[Len(order')] = order[Len(order)]
  BY <1>1, <1>2, ChainTail DEF Pop
<1>4. /\ next' = [next EXCEPT ![head] = NULL] /\ head' = next[head]
      /\ popped' = popped \cup {head} /\ UNCHANGED <<end, value, allocated, alive, loop>>
  BY DEF Pop, Unlinked
<1>5. Linked(order', next')
  BY <1>1, <1>3, <1>4, ChainOther
<1>6. TypeOK'
  <2>1. next' \in [Nodes -> Nodes \cup {NULL}] /\ head' \in Nodes \cup {NULL}
        /\ count' \in Nat /\ popped' \subseteq Nodes
    BY <1>1, <1>3, <1>4 DEF Pop, ListInv, TypeOK
  <2>2. answer' \in [at : Positions \cup {0}, value : Values \cup {NULL}]
    BY <1>3 DEF Pop, ListInv, TypeOK
  <2> QED
    BY <1>3, <1>4, <2>1, <2>2 DEF ListInv, TypeOK
<1>7. ChainInv'
  <2>1. order' # <<>> => end' = order'[Len(order')]
    BY <1>1, <1>2, <1>3, <1>4
  <2>2. count' = Len(order')
    BY <1>1, <1>3 DEF Pop
  <2> QED
    BY <1>1, <1>3, <1>4, <1>5, <2>1, <2>2 DEF ChainInv
<1>8. OwnerInv'
  <2>1. \A x \in popped' : next'[x] = NULL
    BY <1>1, <1>3, <1>4 DEF ListInv, OwnerInv, TypeOK
  <2> QED
    BY <1>1, <1>3, <1>4, <2>1 DEF ListInv, OwnerInv
<1>9. WalkInv'
  BY <1>1, <1>4 DEF WalkInv
<1> QED
  BY <1>6, <1>7, <1>8, <1>9 DEF ListInv

(* Calls that leave nodes and pointers alone. *)
LEMMA InvCalls ==
  ASSUME ListInv,
         \/ PopEmpty \/ WalkCrashes
         \/ \E p \in Positions : GetBegin(p) \/ GetNothing(p)
         \/ \E p \in Positions, v \in Values : SetBegin(p, v)
  PROVE  ListInv'
<1> USE DEF Idle, loop, memory, fields
<1>1. UNCHANGED <<next, value, allocated, head, end, count, popped, alive, order>>
      /\ op # "free" /\ op' # "free"
  BY DEF PopEmpty, WalkCrashes, GetBegin, GetNothing, SetBegin, Begin
<1>2. ChainInv' /\ OwnerInv'
  BY <1>1 DEF ListInv, ChainInv, OwnerInv, Linked
<1>3. TypeOK'
  <2>1. CASE PopEmpty
    BY <2>1 DEF PopEmpty, ListInv, TypeOK
  <2>2. CASE WalkCrashes
    BY <2>2 DEF WalkCrashes, ListInv, TypeOK
  <2>3. ASSUME NEW p \in Positions, GetBegin(p)
        PROVE  TypeOK'
    <3>1. p \in Nat
      BY ListAssumption
    <3> QED
      BY <2>3, <3>1 DEF GetBegin, Begin, ListInv, TypeOK
  <2>4. ASSUME NEW p \in Positions, GetNothing(p)
        PROVE  TypeOK'
    BY <2>4 DEF GetNothing, ListInv, TypeOK
  <2>5. ASSUME NEW p \in Positions, NEW v \in Values, SetBegin(p, v)
        PROVE  TypeOK'
    <3>1. p \in Nat
      BY ListAssumption
    <3> QED
      BY <2>5, <3>1 DEF SetBegin, Begin, ListInv, TypeOK
  <2> QED
    BY <2>1, <2>2, <2>3, <2>4, <2>5
<1>4. WalkInv'
  <2>1. CASE /\ op' \in {"get", "set"} /\ curr' = head /\ i' = 0 /\ alive /\ head # NULL
             /\ pos' \in Positions /\ (op' = "set" => arg' \in Values)
    <3>1. order # <<>> /\ head = order[1] /\ order \in Seq(Nodes)
      BY <2>1, ChainFirst DEF ListInv, ChainInv, TypeOK
    <3>2. 0 < Len(order)
      BY <3>1
    <3> QED
      BY <1>1, <2>1, <3>1, <3>2 DEF WalkInv
  <2>2. CASE op' \notin {"get", "set"}
    BY <2>2 DEF WalkInv
  <2> QED
    BY <2>1, <2>2 DEF PopEmpty, WalkCrashes, GetBegin, GetNothing, SetBegin, Begin
<1> QED
  BY <1>2, <1>3, <1>4 DEF ListInv

LEMMA InvWalk ==
  ASSUME ListInv, Walk \/ GetEnd \/ SetEnd
  PROVE  ListInv'
<1> USE DEF Idle, loop, memory, fields
<1>1. /\ UNCHANGED <<next, allocated, head, end, count, popped, alive, order>>
      /\ op \in {"get", "set"} /\ op' # "free" /\ curr # NULL
  BY DEF Walk, GetEnd, SetEnd, Done
<1>2. ChainInv' /\ OwnerInv'
  BY <1>1 DEF ListInv, ChainInv, OwnerInv, Linked
<1>3. /\ alive /\ i < Len(order) /\ curr = order[i + 1] /\ i \in Nat
      /\ order \in Seq(Nodes) /\ curr \in Nodes
  <2>1. alive /\ i < Len(order) /\ curr = order[i + 1]
    BY <1>1 DEF ListInv, WalkInv
  <2>2. pos \in Nat
    BY ListAssumption DEF ListInv, TypeOK
  <2> QED
    BY <1>1, <2>1, <2>2 DEF ListInv, TypeOK
<1>4. CASE Walk
  <2>1. next[curr] = IF i + 1 = Len(order) THEN NULL ELSE order[(i + 1) + 1]
    <3>1. i + 1 \in DOMAIN order
      BY <1>3
    <3> QED
      BY <1>3, <3>1 DEF ListInv, ChainInv, Linked
  <2>2. WalkInv'
    <3>1. i' = i + 1 /\ curr' = next[curr] /\ Len(order) \in Nat
          /\ UNCHANGED <<op, pos, arg>>
      BY <1>3, <1>4 DEF Walk
    <3>3. pos \in Positions /\ (op = "set" => arg \in Values)
      BY <1>1 DEF ListInv, WalkInv
    <3>2. i + 1 < Len(order) <=> i + 1 # Len(order)
      BY <1>3, <3>1
    <3> QED
      BY <1>1, <1>3, <2>1, <3>1, <3>2, <3>3 DEF WalkInv
  <2>3. TypeOK'
    <3>1. pos \in Nat /\ i + 1 \in 0..pos
      BY <1>4, ListAssumption DEF Walk, MoreTurns, ListInv, TypeOK
    <3>2. next[curr] \in Nodes \cup {NULL}
      BY <1>3 DEF ListInv, TypeOK
    <3> QED
      BY <1>4, <3>1, <3>2 DEF Walk, ListInv, TypeOK
  <2> QED
    BY <1>2, <2>2, <2>3 DEF ListInv
<1>5. CASE GetEnd
  BY <1>2, <1>3, <1>5 DEF GetEnd, Done, ListInv, TypeOK, WalkInv
<1>6. CASE SetEnd
  BY <1>2, <1>3, <1>6 DEF SetEnd, Done, ListInv, TypeOK, WalkInv
<1> QED
  BY <1>4, <1>5, <1>6

LEMMA InvFree ==
  ASSUME ListInv,
         \/ \E n \in popped : FreePopped(n)
         \/ Destroy \/ FreeNode \/ FreeEnds
  PROVE  ListInv'
<1> USE DEF Idle, loop, memory, fields
<1>1. ASSUME NEW n \in popped, FreePopped(n)
      PROVE  ListInv'
  <2>1. n \in Nodes /\ next[n] = NULL /\ n \notin Cells(order)
        /\ allocated = Cells(order) \cup popped /\ 0 \in 0..0
    BY <1>1 DEF FreePopped, ListInv, TypeOK, OwnerInv
  <2>2. Freeing(<<n>>)'
    BY <1>1, <2>1, ChainOne DEF FreePopped, Begin, Freeing
  <2>3. TypeOK'
    BY <1>1, <2>1 DEF FreePopped, Begin, ListInv, TypeOK
  <2> QED
    BY <1>1, <2>2, <2>3
    DEF FreePopped, Begin, ListInv, WalkInv, ChainInv, OwnerInv, Linked
<1>2. CASE Destroy
  <2>1. /\ order' = <<>> /\ alive' = FALSE /\ UNCHANGED <<memory, fields, popped, answer>>
        /\ op = "idle" /\ alive /\ order \in Seq(Nodes)
    BY <1>2 DEF Destroy, ListInv, TypeOK
  <2>2. ChainInv'
    BY <2>1, ChainNone DEF ChainInv
  <2>3. CASE head = NULL
    <3>1. order = <<>> /\ UNCHANGED loop
      BY <1>2, <2>1, <2>3, ChainFirst DEF Destroy, ListInv, ChainInv
    <3>2. order' = order
      BY <2>1, <3>1
    <3>3. TypeOK' /\ WalkInv' /\ OwnerInv'
      BY <2>1, <3>1, <3>2 DEF ListInv, TypeOK, WalkInv, OwnerInv
    <3> QED
      BY <2>2, <3>3 DEF ListInv
  <2>4. CASE head # NULL
    <3>1. Begin("free", head, 0, NULL)
      BY <1>2, <2>4 DEF Destroy
    <3>2. PICK q : q = order
      OBVIOUS
    <3>3. Freeing(q)'
      <4>1. /\ q \in Seq(Nodes) /\ Distinct(q) /\ Linked(q, next) /\ curr' = FirstOf(q)
            /\ Cells(q) \cap popped = {} /\ allocated = popped \cup Cells(q)
        BY <2>1, <3>1, <3>2 DEF Begin, ListInv, ChainInv, OwnerInv
      <4> QED
        BY <2>1, <4>1, ChainNone DEF Freeing
    <3>4. TypeOK'
      <4>0. 0 \in 0..0
        OBVIOUS
      <4>1. order' \in Seq(Nodes) /\ 0 \in 0..0
        BY <2>1, <4>0, ChainNone, Zenon
      <4>2. /\ op' = "free" /\ curr' = head /\ pos' = 0 /\ i' = 0 /\ arg' = NULL
            /\ UNCHANGED <<next, value, allocated, head, end, count, popped, answer>>
            /\ alive' = FALSE
        BY <1>2, <2>1, <3>1 DEF Begin, Destroy
      <4> QED
        BY <4>1, <4>2 DEF ListInv, TypeOK
    <3> QED
      BY <2>1, <2>2, <3>1, <3>3, <3>4, ChainNone DEF Begin, ListInv, WalkInv, OwnerInv
  <2> QED
    BY <2>3, <2>4
<1>3. CASE FreeNode
  <2>1. PICK q : Freeing(q)
    BY <1>3 DEF FreeNode, ListInv, OwnerInv
  <2>2. /\ q \in Seq(Nodes) /\ q # <<>> /\ curr = q[1]
        /\ Distinct(q) /\ Linked(q, next)
        /\ Cells(q) \cap (Cells(order) \cup popped) = {}
        /\ allocated = Cells(order) \cup popped \cup Cells(q)
    BY <1>3, <2>1, ChainFirst DEF FreeNode, Freeing
  <2>3. /\ Tail(q) \in Seq(Nodes) /\ Distinct(Tail(q)) /\ Cells(Tail(q)) = Cells(q) \ {curr}
        /\ curr \in Nodes /\ curr \in Cells(q)
        /\ Linked(Tail(q), next) /\ FirstOf(Tail(q)) = next[curr]
    BY <2>2, ChainTail
  <2>4. UNCHANGED <<next, value, fields, popped, alive, op, pos, i, arg, answer, order>>
        /\ curr' = next[curr] /\ allocated' = allocated \ {curr} /\ op = "free"
    BY <1>3 DEF FreeNode
  <2>5. PICK r : r = Tail(q)
    OBVIOUS
  <2>6. Freeing(r)'
    BY <2>2, <2>3, <2>4, <2>5 DEF Freeing
  <2>7. TypeOK'
    BY <2>3, <2>4 DEF ListInv, TypeOK
  <2> QED
    BY <2>4, <2>6, <2>7 DEF ListInv, WalkInv, ChainInv, OwnerInv, Linked
<1>4. CASE FreeEnds
  <2>1. PICK q : Freeing(q)
    BY <1>4 DEF FreeEnds, ListInv, OwnerInv
  <2>2. Cells(q) = {} /\ allocated = Cells(order) \cup popped
    BY <1>4, <2>1, ChainFirst, ChainNone DEF FreeEnds, Freeing
  <2>3. TypeOK'
    BY <1>4 DEF FreeEnds, Done, ListInv, TypeOK
  <2> QED
    BY <1>4, <2>2, <2>3
    DEF FreeEnds, Done, ListInv, WalkInv, ChainInv, OwnerInv, Linked
<1> QED
  BY <1>1, <1>2, <1>3, <1>4

LEMMA InvNext == ListInv /\ [Next]_vars => ListInv'
<1> SUFFICES ASSUME ListInv, [Next]_vars
             PROVE  ListInv'
  OBVIOUS
<1>1. CASE UNCHANGED vars
  BY <1>1 DEF vars, memory, fields, loop, ListInv, TypeOK, WalkInv, ChainInv, OwnerInv,
              Linked, Freeing
<1>2. CASE Next
  BY <1>2, InvAppend, InvPop, InvCalls, InvWalk, InvFree DEF Next
<1> QED
  BY <1>1, <1>2

LEMMA ListInvariant == Spec => []ListInv
  BY ListInit, InvNext, PTL DEF Spec

(* Every variable of the list has its type, whatever its callers do. *)
THEOREM ListTypes == Spec => []TypeOK
<1>1. ListInv => TypeOK
  BY DEF ListInv
<1> QED
  BY <1>1, ListInvariant, PTL

(* While the list lives, its pointers spell out the nodes in the order they were
   appended, and its counter is their number (linkedlist.c:112-139, 159-181).    *)
THEOREM PointersSpellOrder == Spec => []WellFormed
<1>1. ListInv => WellFormed
  BY DEF ListInv, ChainInv, WellFormed, Linked, FirstOf
<1> QED
  BY <1>1, ListInvariant, PTL

(* No node is in two hands, freed twice, or lost while the list lives. *)
THEOREM NodesHaveOneOwner == Spec => []OneOwner
<1>1. ListInv => OneOwner
  <2> SUFFICES ASSUME ListInv
               PROVE  OneOwner
    OBVIOUS
  <2>1. InList = Cells(order)
    BY DEF InList, Cells
  <2>2. op = "free" /\ curr # NULL => curr \in allocated \ (Cells(order) \cup popped)
    <3> SUFFICES ASSUME op = "free", curr # NULL
                 PROVE  curr \in allocated \ (Cells(order) \cup popped)
      OBVIOUS
    <3>1. PICK q : Freeing(q)
      BY DEF ListInv, OwnerInv
    <3>2. curr \in Cells(q)
      BY <3>1, ChainFirst DEF Freeing
    <3> QED
      BY <3>1, <3>2 DEF Freeing
  <2>3. Cells(order) \cup popped \subseteq allocated
    BY DEF ListInv, OwnerInv, Freeing
  <2>4. op \in {"get", "set"} /\ curr # NULL => curr \in Cells(order)
    <3> SUFFICES ASSUME op \in {"get", "set"}, curr # NULL
                 PROVE  curr \in Cells(order)
      OBVIOUS
    <3>1. i < Len(order) /\ curr = order[i + 1] /\ order \in Seq(Nodes) /\ i \in Nat
      <4>1. pos \in Nat /\ i \in 0..pos
        BY ListAssumption DEF ListInv, TypeOK
      <4> QED
        BY <4>1 DEF ListInv, WalkInv, TypeOK
    <3>2. i + 1 \in DOMAIN order
      BY <3>1
    <3> QED
      BY <3>1, <3>2 DEF Cells
  <2> QED
    BY <2>1, <2>2, <2>3, <2>4 DEF ListInv, ChainInv, OwnerInv, OneOwner, Distinct
<1> QED
  BY <1>1, ListInvariant, PTL

(* No node is written to once it is freed (linkedlist.c:112-181). *)
THEOREM FreedStay == Spec => FreedUntouched
<1>1. ListInv /\ [Next]_vars =>
        [\A n \in Nodes : next'[n] # next[n] \/ value'[n] # value[n] =>
           n \in allocated \cup allocated']_vars
  <2> SUFFICES ASSUME ListInv, Next, NEW n \in Nodes,
                      next'[n] # next[n] \/ value'[n] # value[n]
               PROVE  n \in allocated \cup allocated'
    OBVIOUS
  <2> USE DEF memory, fields, loop
  <2>1. next \in [Nodes -> Nodes \cup {NULL}] /\ value \in [Nodes -> Values \cup {NULL}]
        /\ order \in Seq(Nodes)
    BY DEF ListInv, TypeOK
  <2>2. ASSUME NEW m \in Nodes, NEW v \in Values, ListAppend(m, v)
        PROVE  n \in allocated \cup allocated'
    <3>1. n \in {m, LastNode(m)}
      BY <2>1, <2>2 DEF ListAppend
    <3>2. m \in allocated'
      BY <2>2 DEF ListAppend
    <3>3. LastNode(m) \in {m} \cup Cells(order)
      <4>1. head = FirstOf(order) /\ (order # <<>> => end = order[Len(order)])
        BY <2>2 DEF ListAppend, Idle, ListInv, ChainInv
      <4>2. order # <<>> => order[Len(order)] \in Cells(order)
        BY <2>1 DEF Cells
      <4> QED
        BY <2>1, <4>1, <4>2, ChainFirst DEF LastNode
    <3>4. Cells(order) \subseteq allocated
      BY DEF ListInv, OwnerInv, Freeing
    <3> QED
      BY <3>1, <3>2, <3>3, <3>4
  <2>3. CASE Pop
    <3>1. n = head
      BY <2>1, <2>3 DEF Pop, Unlinked
    <3>2. head = FirstOf(order) /\ head # NULL
      BY <2>3 DEF Pop, Idle, ListInv, ChainInv
    <3>3. head \in Cells(order)
      BY <2>1, <3>2, ChainFirst
    <3> QED
      BY <3>1, <3>3 DEF ListInv, OwnerInv, Freeing
  <2>4. CASE SetEnd
    <3>1. n = curr
      BY <2>1, <2>4 DEF SetEnd
    <3>2. curr \in Cells(order)
      <4>1. curr # NULL /\ i < Len(order) /\ curr = order[i + 1] /\ i \in Nat
        <5>1. pos \in Nat /\ i \in 0..pos
          BY ListAssumption DEF ListInv, TypeOK
        <5> QED
          BY <2>4, <5>1 DEF SetEnd, ListInv, WalkInv
      <4>2. i + 1 \in DOMAIN order
        BY <2>1, <4>1
      <4> QED
        BY <4>1, <4>2 DEF Cells
    <3> QED
      BY <3>1, <3>2 DEF ListInv, OwnerInv, Freeing
  <2>5. CASE UNCHANGED <<next, value>>
    BY <2>5
  <2> QED
    BY <2>2, <2>3, <2>4, <2>5
    DEF Next, PopEmpty, GetBegin, GetNothing, SetBegin, Walk, GetEnd, WalkCrashes,
        FreePopped, Destroy, FreeNode, FreeEnds
<1> QED
  BY <1>1, ListInvariant, PTL DEF Spec, FreedUntouched

-----------------------------------------------------------------------------
(* What a caller sees *)

Seen(o, val) == [k \in 1..Len(o) |-> val[o[k]]]

LEMMA SeenFacts ==
  ASSUME NEW o \in Seq(Nodes), NEW val \in [Nodes -> Values \cup {NULL}]
  PROVE  /\ Len(o) \in Nat /\ DOMAIN o = 1..Len(o)
         /\ Seen(o, val) \in Seq(Values \cup {NULL}) /\ Len(Seen(o, val)) = Len(o)
         /\ \A k \in 1..Len(o) : /\ Seen(o, val)[k] = val[o[k]]
                                /\ o[k] \in Cells(o) /\ o[k] \in Nodes
         /\ Seen(o, val) = <<>> <=> o = <<>>
<1>1. \A k \in 1..Len(o) : /\ val[o[k]] \in Values \cup {NULL}
                            /\ o[k] \in Cells(o) /\ o[k] \in Nodes
  BY DEF Cells
<1>2. Seen(o, val) \in Seq(Values \cup {NULL}) /\ Len(Seen(o, val)) = Len(o)
  BY <1>1 DEF Seen
<1>3. Seen(o, val) = <<>> <=> o = <<>>
  BY <1>2
<1>4. \A k \in 1..Len(o) : Seen(o, val)[k] = val[o[k]]
  BY DEF Seen
<1> QED
  BY <1>1, <1>2, <1>3, <1>4

LEMMA SameValues ==
  ASSUME NEW S, NEW s \in Seq(S), NEW t \in Seq(S), Len(s) = Len(t),
         \A k \in 1..Len(s) : s[k] = t[k]
  PROVE  s = t
OBVIOUS

LEMMA SeenAppend ==
  ASSUME NEW o \in Seq(Nodes), NEW val \in [Nodes -> Values \cup {NULL}],
         NEW n \in Nodes \ Cells(o), NEW v \in Values
  PROVE  Seen(Append(o, n), [val EXCEPT ![n] = v]) = Append(Seen(o, val), v)
<1> DEFINE p == Append(o, n)
           new == [val EXCEPT ![n] = v]
           d == Append(Seen(o, val), v)
<1>1. /\ Len(o) \in Nat /\ Seen(o, val) \in Seq(Values \cup {NULL})
      /\ Len(Seen(o, val)) = Len(o)
      /\ \A k \in 1..Len(o) : Seen(o, val)[k] = val[o[k]] /\ o[k] \in Nodes /\ o[k] # n
  BY SeenFacts
<1>2. /\ p \in Seq(Nodes) /\ Len(p) = Len(o) + 1 /\ p[Len(o) + 1] = n
      /\ \A k \in 1..Len(o) : p[k] = o[k]
  BY <1>1
<1>3. /\ d \in Seq(Values \cup {NULL}) /\ Len(d) = Len(o) + 1 /\ d[Len(o) + 1] = v
      /\ \A k \in 1..Len(o) : d[k] = val[o[k]]
  BY <1>1
<1>4. /\ new \in [Nodes -> Values \cup {NULL}] /\ new[n] = v
      /\ \A x \in Nodes : x # n => new[x] = val[x]
  OBVIOUS
<1> HIDE DEF p, new, d
<1>5. /\ Seen(p, new) \in Seq(Values \cup {NULL}) /\ Len(Seen(p, new)) = Len(o) + 1
      /\ \A k \in 1..(Len(o) + 1) : Seen(p, new)[k] = new[p[k]]
  BY <1>2, <1>4, SeenFacts
<1>6. ASSUME NEW k \in 1..(Len(o) + 1)
      PROVE  Seen(p, new)[k] = d[k]
  <2>1. CASE k = Len(o) + 1
    BY <1>2, <1>3, <1>4, <1>5, <2>1
  <2>2. CASE k \in 1..Len(o)
    BY <1>1, <1>2, <1>3, <1>4, <1>5, <2>2
  <2> QED
    BY <1>1, <2>1, <2>2
<1>7. Seen(p, new) = d
  BY <1>3, <1>5, <1>6, SameValues
<1> QED
  BY <1>7 DEF p, new, d

LEMMA SeenTail ==
  ASSUME NEW o \in Seq(Nodes), NEW val \in [Nodes -> Values \cup {NULL}], o # <<>>
  PROVE  Seen(Tail(o), val) = Tail(Seen(o, val)) /\ Head(Seen(o, val)) = val[o[1]]
<1>1. /\ Len(o) \in Nat \ {0} /\ Seen(o, val) \in Seq(Values \cup {NULL})
      /\ Len(Seen(o, val)) = Len(o)
      /\ \A k \in 1..Len(o) : Seen(o, val)[k] = val[o[k]]
  BY SeenFacts
<1>2. /\ Tail(o) \in Seq(Nodes) /\ Len(Tail(o)) = Len(o) - 1
      /\ \A k \in 1..(Len(o) - 1) : Tail(o)[k] = o[k + 1] /\ k + 1 \in 1..Len(o)
  BY <1>1
<1>3. /\ Tail(Seen(o, val)) \in Seq(Values \cup {NULL})
      /\ Len(Tail(Seen(o, val))) = Len(o) - 1
      /\ \A k \in 1..(Len(o) - 1) : Tail(Seen(o, val))[k] = Seen(o, val)[k + 1]
  BY <1>1
<1>4. /\ Seen(Tail(o), val) \in Seq(Values \cup {NULL})
      /\ Len(Seen(Tail(o), val)) = Len(o) - 1
      /\ \A k \in 1..(Len(o) - 1) : Seen(Tail(o), val)[k] = val[Tail(o)[k]]
  BY <1>2, SeenFacts
<1>5. Seen(Tail(o), val) = Tail(Seen(o, val))
  <2>1. \A k \in 1..(Len(o) - 1) : Seen(Tail(o), val)[k] = Tail(Seen(o, val))[k]
    BY <1>1, <1>2, <1>3, <1>4
  <2> QED
    BY <1>3, <1>4, <2>1, SameValues
<1>6. Head(Seen(o, val)) = val[o[1]]
  <2>1. Head(Seen(o, val)) = Seen(o, val)[1] /\ 1 \in 1..Len(o)
    BY <1>1
  <2> QED
    BY <1>1, <2>1
<1> QED
  BY <1>5, <1>6

Contents == Seen(order, value)

LEMMA Refines ==
  ASSUME ListInv, [Next]_vars
  PROVE  [SL!ListNext]_<<Contents, answer>>
<1> USE DEF memory, fields, loop, Idle
<1>1. /\ order \in Seq(Nodes) /\ value \in [Nodes -> Values \cup {NULL}]
      /\ Distinct(order) /\ Len(order) \in Nat /\ Len(Contents) = Len(order)
      /\ \A k \in 1..Len(order) : Contents[k] = value[order[k]]
      /\ Contents = <<>> <=> order = <<>>
  BY SeenFacts DEF ListInv, TypeOK, ChainInv, Contents
<1>2. alive => count = Len(order) /\ (head = NULL <=> order = <<>>)
              /\ (order # <<>> => head = order[1])
  BY <1>1, ChainFirst DEF ListInv, ChainInv
<1>3. ASSUME NEW n \in Nodes, NEW v \in Values, ListAppend(n, v)
      PROVE  SL!ListNext
  <2>1. n \notin Cells(order)
    BY <1>3 DEF ListAppend, ListInv, OwnerInv
  <2>2. Contents' = Append(Contents, v)
    <3>1. Seen(Append(order, n), [value EXCEPT ![n] = v]) = Append(Seen(order, value), v)
      <4>1. n \in Nodes \ Cells(order)
        BY <2>1
      <4> QED
        BY ONLY <1>1, <4>1, v \in Values, SeenAppend
    <3>2. order' = Append(order, n) /\ value' = [value EXCEPT ![n] = v]
      BY <1>3 DEF ListAppend
    <3> QED
      BY <3>1, <3>2 DEF Contents
  <2>3. answer' = answer
    BY <1>3 DEF ListAppend
  <2> QED
    BY <2>2, <2>3 DEF SL!ListNext, SL!Add, Contents, Seen
<1>4. CASE Pop
  <2>1. order # <<>> /\ head = order[1] /\ order' = Tail(order) /\ value' = value
        /\ answer' = [at |-> 0, value |-> value[head]]
    BY <1>2, <1>4 DEF Pop
  <2>2. Contents' = Tail(Contents) /\ Head(Contents) = value[head] /\ Contents # <<>>
    BY <1>1, <2>1, SeenTail DEF Contents
  <2> QED
    BY <2>1, <2>2 DEF SL!ListNext, SL!Take, Contents, Seen
<1>5. CASE PopEmpty
  <2>1. Contents' = Contents /\ Contents = <<>> /\ Len(Contents) = 0
        /\ answer' = [at |-> 0, value |-> NULL]
    BY <1>1, <1>2, <1>5 DEF PopEmpty, Contents
  <2> QED
    BY <2>1 DEF SL!ListNext, SL!TakeNothing, SL!Read, Contents, Seen
<1>6. ASSUME NEW p \in Positions, GetNothing(p)
      PROVE  SL!ListNext
  <2>1. Contents' = Contents /\ answer' = [at |-> p, value |-> NULL]
    BY <1>6 DEF GetNothing, Contents
  <2>2. ~(p < Len(Contents))
    <3>1. p \in Nat /\ (order = <<>> => Len(order) = 0)
      BY ListAssumption
    <3> QED
      BY <1>1, <1>2, <1>6, <3>1 DEF GetNothing, InBounds
  <2> QED
    BY <2>1, <2>2 DEF SL!ListNext, SL!Read, Contents, Seen
<1>7. ASSUME GetEnd \/ SetEnd
      PROVE  /\ pos \in Positions /\ pos \in Nat /\ pos < Len(order) /\ pos + 1 \in 1..Len(order)
             /\ curr = order[pos + 1] /\ (op = "set" => arg \in Values)
  <2>1. op \in {"get", "set"} /\ curr # NULL /\ ~(i < pos)
    BY <1>7 DEF GetEnd, SetEnd, MoreTurns
  <2>2. pos \in Positions /\ pos \in Nat /\ i \in 0..pos
    BY <2>1, ListAssumption DEF ListInv, WalkInv, TypeOK
  <2>3. i = pos
    BY <2>1, <2>2
  <2> QED
    BY <1>1, <2>1, <2>2, <2>3 DEF ListInv, WalkInv
<1>8. CASE GetEnd
  <2>1. Contents' = Contents /\ answer' = [at |-> pos, value |-> Contents[pos + 1]]
    BY <1>1, <1>7, <1>8 DEF GetEnd, Contents
  <2>2. pos \in Positions /\ pos < Len(Contents)
    BY <1>1, <1>7, <1>8
  <2> QED
    BY <2>1, <2>2 DEF SL!ListNext, SL!Read, Contents, Seen
<1>9. CASE SetEnd
  <2>1. /\ value' = [value EXCEPT ![curr] = arg] /\ order' = order /\ curr = order[pos + 1]
        /\ answer' = [at |-> pos, value |-> arg] /\ arg \in Values
    BY <1>7, <1>9 DEF SetEnd
  <2>2. Contents' = [Contents EXCEPT ![pos + 1] = arg]
    <3>1. pos + 1 \in 1..Len(order)
      BY <1>7, <1>9
    <3>2. PICK k : k = pos + 1
      OBVIOUS
    <3>3. /\ k \in 1..Len(order) /\ order[k] \in Nodes
          /\ value' \in [Nodes -> Values \cup {NULL}] /\ value'[order[k]] = arg
          /\ \A y \in Nodes : y # order[k] => value'[y] = value[y]
      BY <1>1, <2>1, <3>1, <3>2
    <3>4. PICK d : d = [Contents EXCEPT ![k] = arg]
      OBVIOUS
    <3>5. /\ d \in Seq(Values \cup {NULL}) /\ Len(d) = Len(order) /\ d[k] = arg
          /\ \A j \in 1..Len(order) : j # k => d[j] = value[order[j]]
      <4>1. Contents \in Seq(Values \cup {NULL})
        BY <1>1, SeenFacts DEF Contents
      <4> QED
        BY <1>1, <2>1, <3>3, <3>4, <4>1
    <3>6. /\ Seen(order, value') \in Seq(Values \cup {NULL})
          /\ Len(Seen(order, value')) = Len(order)
          /\ \A j \in 1..Len(order) : Seen(order, value')[j] = value'[order[j]]
      BY <1>1, <3>3, SeenFacts
    <3>7. ASSUME NEW j \in 1..Len(order)
          PROVE  Seen(order, value')[j] = d[j]
      <4>1. CASE j = k
        BY <3>3, <3>5, <3>6, <4>1
      <4>2. CASE j # k
        <5>1. order[j] # order[k] /\ order[j] \in Nodes
          BY <1>1, <3>3, <4>2 DEF Distinct
        <5> QED
          BY <3>3, <3>5, <3>6, <4>2, <5>1
      <4> QED
        BY <4>1, <4>2
    <3>8. Seen(order, value') = d
      BY <3>5, <3>6, <3>7, SameValues
    <3> QED
      BY <2>1, <3>2, <3>4, <3>8 DEF Contents
  <2>3. pos \in Positions /\ pos < Len(Contents)
    BY <1>1, <1>7, <1>9
  <2> QED
    BY <2>1, <2>2, <2>3 DEF SL!ListNext, SL!Write, Contents, Seen
<1>10. CASE Destroy
  <2>1. order' = <<>> /\ value' = value /\ answer' = answer
    BY <1>10 DEF Destroy
  <2>2. Contents' = <<>>
    BY <1>1, <2>1, ChainNone, SeenFacts DEF Contents
  <2> QED
    BY <2>1, <2>2 DEF SL!ListNext, SL!Clear, Contents, Seen
<1>11. CASE UNCHANGED <<order, value, answer>>
  BY <1>11 DEF Contents
<1>12. \/ \E n \in Nodes, v \in Values : ListAppend(n, v)
       \/ Pop \/ PopEmpty \/ GetEnd \/ SetEnd \/ Destroy
       \/ \E p \in Positions : GetNothing(p)
       \/ UNCHANGED <<order, value, answer>>
  BY DEF Next, vars, GetBegin, SetBegin, Walk, WalkCrashes, FreePopped, FreeNode, FreeEnds
<1> QED
  BY <1>3, <1>4, <1>5, <1>6, <1>8, <1>9, <1>10, <1>11, <1>12

(* A caller of the list sees a sequence of values: an append adds one at its end,
   a pop takes its first, and get and set are about the one at their position
   (linkedlist.c:48-181).                                                        *)
THEOREM ListIsSequence == Spec => ImplementsSeqList
<1>1. Init => SL!ListInit
  <2> SUFFICES ASSUME Init
               PROVE  SL!ListInit
    OBVIOUS
  <2>1. Contents = <<>>
    <3>1. order = <<>> /\ order \in Seq(Nodes) /\ value \in [Nodes -> Values \cup {NULL}]
      BY ListInit DEF Init, ListInv, TypeOK
    <3> QED
      BY <3>1, SeenFacts DEF Contents
  <2> QED
    BY <2>1 DEF Init, SL!ListInit, Contents, Seen
<1>2. ListInv /\ [Next]_vars => [SL!ListNext]_<<Contents, answer>>
  BY Refines
<1> QED
  BY <1>1, <1>2, ListInvariant, PTL DEF Spec, ImplementsSeqList, SL!ListSpec, Contents, Seen
=============================================================================
