----------------------------- MODULE Linkedlist -----------------------------
(***************************************************************************)
(* src/data_structures/linkedlist: a singly linked list with a pointer to  *)
(* its last node.  Nodes are addresses; a node is handed to the caller by  *)
(* pop and freed by him.  The walks of get, set and destroy are the steps  *)
(* of their loops, one dereference at a time.  The list serves one caller  *)
(* at a time (the jobs of the thread pool are under their mutex).          *)
(***************************************************************************)
EXTENDS Naturals, Sequences

CONSTANTS
  Nodes,     \* the addresses malloc may return for a Linkednode
  Values,    \* what callers store
  NULL,
  Positions  \* bound: the positions callers ask for

ASSUME ListAssumption ==
  /\ NULL \notin Nodes \cup Values
  /\ Positions \subseteq Nat

VARIABLES
  head,       \* this->head
  end,        \* this->end, left as it is when the list runs empty
  count,      \* this->count
  next,       \* node->next
  value,      \* node->value
  allocated,  \* the nodes malloc returned and nobody freed
  popped,     \* the nodes that belong to a caller of pop
  alive,      \* the list has not been destroyed
  op,         \* the loop that is running: idle, get, set, free, crashed
  curr,       \* curr in that loop, or the node being destroyed
  pos,        \* the argument pos of that get or set
  i,          \* turns of the loop taken
  arg,        \* the value to set
  answer,     \* history: the position of the last call and the value it
              \* returned (a pop: that of the node) or stored, NULL if none
  order       \* history: the nodes in the order they were appended

memory == <<next, value, allocated>>
fields == <<head, end, count>>
loop   == <<op, curr, pos, i, arg>>
vars   == <<memory, fields, popped, alive, loop, answer, order>>

Init ==
  /\ head = NULL /\ end = NULL /\ count = 0
  /\ next = [n \in Nodes |-> NULL]
  /\ value = [n \in Nodes |-> NULL]
  /\ allocated = {}
  /\ popped = {}
  /\ alive = TRUE
  /\ op = "idle" /\ curr = NULL /\ pos = 0 /\ i = 0 /\ arg = NULL
  /\ answer = [at |-> 0, value |-> NULL]
  /\ order = <<>>

Idle == op = "idle" /\ alive

-----------------------------------------------------------------------------
(* Variants: the emptiness of the list is read off the end pointer; the new
   node is linked to the first one.                                         *)
EndOrNew(n) == IF end = NULL THEN n ELSE end
AfterHead(n) == IF head = NULL THEN n ELSE head

(* The node whose next is set: the new one when the list was empty. *)
LastNode(n) == IF head = NULL THEN n ELSE end

(* Linkedlist_append *)
ListAppend(n, v) ==
  /\ Idle
  /\ n \notin allocated
  /\ allocated' = allocated \cup {n}
  /\ value' = [value EXCEPT ![n] = v]
  /\ head' = IF head = NULL THEN n ELSE head
  /\ next' = [next EXCEPT ![LastNode(n)] = n, ![n] = NULL]
  /\ end' = n
  /\ count' = count + 1
  /\ order' = Append(order, n)
  /\ UNCHANGED <<popped, alive, loop, answer>>

(* Variant: the popped node still points into the list. *)
StillLinked(n) == next

Unlinked(n) == [next EXCEPT ![n] = NULL]

(* Linkedlist_pop: end is not touched, even when it was the last node. *)
Pop ==
  /\ Idle
  /\ head # NULL
  /\ popped' = popped \cup {head}
  /\ answer' = [at |-> 0, value |-> value[head]]
  /\ head' = next[head]
  /\ next' = Unlinked(head)
  /\ count' = count - 1
  /\ order' = Tail(order)
  /\ UNCHANGED <<end, value, allocated, alive, loop>>

PopEmpty ==
  /\ Idle
  /\ head = NULL
  /\ answer' = [at |-> 0, value |-> NULL]
  /\ UNCHANGED <<memory, fields, popped, alive, loop, order>>

-----------------------------------------------------------------------------
(* Linkedlist_get and Linkedlist_set *)

InBounds(p) == p <= count

Begin(what, from, p, v) ==
  /\ op' = what
  /\ curr' = from
  /\ pos' = p
  /\ i' = 0
  /\ arg' = v

GetBegin(p) ==
  /\ Idle
  /\ head # NULL /\ InBounds(p)
  /\ Begin("get", head, p, NULL)
  /\ UNCHANGED <<memory, fields, popped, alive, answer, order>>

(* An empty list, or "index out of bounds" is thrown: NULL. *)
GetNothing(p) ==
  /\ Idle
  /\ head = NULL \/ ~InBounds(p)
  /\ answer' = [at |-> p, value |-> NULL]
  /\ UNCHANGED <<memory, fields, popped, alive, loop, order>>

(* Linkedlist_set returns EXIT_FAILURE where get returns NULL. *)
SetBegin(p, v) ==
  /\ Idle
  /\ head # NULL /\ InBounds(p)
  /\ Begin("set", head, p, v)
  /\ UNCHANGED <<memory, fields, popped, alive, answer, order>>

(* Variant: for(int i = 0; i <= pos; i++) *)
OneMore == i <= pos

MoreTurns == i < pos

(* curr = curr->next *)
Walk ==
  /\ op \in {"get", "set"}
  /\ MoreTurns /\ curr # NULL
  /\ curr' = next[curr]
  /\ i' = i + 1
  /\ UNCHANGED <<memory, fields, popped, alive, op, pos, arg, answer, order>>

Done == op' = "idle" /\ curr' = NULL /\ pos' = 0 /\ i' = 0 /\ arg' = NULL

GetEnd ==
  /\ op = "get"
  /\ ~MoreTurns /\ curr # NULL
  /\ answer' = [at |-> pos, value |-> value[curr]]
  /\ Done
  /\ UNCHANGED <<memory, fields, popped, alive, order>>

SetEnd ==
  /\ op = "set"
  /\ ~MoreTurns /\ curr # NULL
  /\ answer' = [at |-> pos, value |-> arg]
  /\ value' = [value EXCEPT ![curr] = arg]
  /\ Done
  /\ UNCHANGED <<next, allocated, fields, popped, alive, order>>

(* The walk has run off the list: curr->next or curr->get is a NULL access. *)
WalkCrashes ==
  /\ op \in {"get", "set"}
  /\ curr = NULL
  /\ op' = "crashed"
  /\ UNCHANGED <<memory, fields, popped, alive, curr, pos, i, arg, answer, order>>

-----------------------------------------------------------------------------
(* Linkednode_destroy *)

(* The node popped is destroyed by the caller who got it. *)
FreePopped(n) ==
  /\ op = "idle"
  /\ n \in popped
  /\ popped' = popped \ {n}
  /\ Begin("free", n, 0, NULL)
  /\ UNCHANGED <<memory, fields, alive, answer, order>>

(* Linkedlist_destroy *)
Destroy ==
  /\ Idle
  /\ alive' = FALSE
  /\ IF head = NULL THEN UNCHANGED loop ELSE Begin("free", head, 0, NULL)
  /\ order' = <<>>
  /\ UNCHANGED <<memory, fields, popped, answer>>

(* A node passes the call on to the next one and then frees itself: the nodes
   are freed from the last to the first, here in the order of the calls.     *)
FreeNode ==
  /\ op = "free"
  /\ curr # NULL
  /\ curr' = next[curr]
  /\ allocated' = allocated \ {curr}
  /\ UNCHANGED <<next, value, fields, popped, alive, op, pos, i, arg, answer, order>>

FreeEnds ==
  /\ op = "free"
  /\ curr = NULL
  /\ Done
  /\ UNCHANGED <<memory, fields, popped, alive, answer, order>>

-----------------------------------------------------------------------------
Next ==
  \/ \E n \in Nodes, v \in Values : ListAppend(n, v)
  \/ Pop \/ PopEmpty
  \/ \E p \in Positions : GetBegin(p) \/ GetNothing(p)
  \/ \E p \in Positions, v \in Values : SetBegin(p, v)
  \/ Walk \/ GetEnd \/ SetEnd \/ WalkCrashes
  \/ \E n \in popped : FreePopped(n)
  \/ Destroy \/ FreeNode \/ FreeEnds

Spec == Init /\ [][Next]_vars

-----------------------------------------------------------------------------
(* Properties *)

InList == {order[k] : k \in DOMAIN order}

(* Every variable has its type. *)
TypeOK ==
  /\ head \in Nodes \cup {NULL} /\ end \in Nodes \cup {NULL} /\ count \in Nat
  /\ next \in [Nodes -> Nodes \cup {NULL}]
  /\ value \in [Nodes -> Values \cup {NULL}]
  /\ allocated \subseteq Nodes /\ popped \subseteq Nodes
  /\ alive \in BOOLEAN
  /\ op \in {"idle", "get", "set", "free", "crashed"}
  /\ curr \in Nodes \cup {NULL}
  /\ pos \in Positions \cup {0} /\ i \in 0..pos
  /\ arg \in Values \cup {NULL}
  /\ answer \in [at : Positions \cup {0}, value : Values \cup {NULL}]
  /\ order \in Seq(Nodes)

(* The pointers spell out the nodes in the order they were appended, and the
   counter their number, however appends and pops alternate.  In particular
   an end pointer left on a freed node by the pop of the last one is never
   used again: the next append finds head NULL (linkedlist.c:120, 168-175).  *)
WellFormed ==
  alive =>
    /\ count = Len(order)
    /\ head = IF order = <<>> THEN NULL ELSE order[1]
    /\ order # <<>> => end = order[Len(order)]
    /\ \A k \in DOMAIN order :
         next[order[k]] = IF k = Len(order) THEN NULL ELSE order[k + 1]

(* Every node has one owner: the list, the caller who popped it, or the loop
   that is freeing it; so no node is freed twice, none in the list is freed,
   and none leaks while the list lives.                                      *)
OneOwner ==
  /\ InList \cap popped = {}
  /\ \A j, k \in DOMAIN order : order[j] = order[k] => j = k
  /\ InList \cup popped \subseteq allocated
  /\ op = "free" /\ curr # NULL => curr \in allocated \ (InList \cup popped)
  /\ op # "free" => allocated = InList \cup popped
  /\ op \in {"get", "set"} /\ curr # NULL => curr \in InList

(* No node is written to once it is freed. *)
FreedUntouched ==
  [][\A n \in Nodes : next'[n] # next[n] \/ value'[n] # value[n] =>
       n \in allocated \cup allocated']_vars

(* Linkedlist implements SeqList. *)
SL == INSTANCE SeqList WITH
        Items <- Values, NoValue <- NULL,
        contents <- [k \in 1..Len(order) |-> value[order[k]]]

ImplementsSeqList == SL!ListSpec

(* linkedlist.c:100: "linkedlist :: index %d out of bounds" is thrown.  Read:
   a position outside the list ends get with NULL, never with an access to a
   node that is not there.                                                   *)
OutOfBoundsIsThrown == op # "crashed"
=============================================================================
