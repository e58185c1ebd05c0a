---------------------------- MODULE MCLinkedlist ----------------------------
(* Three nodes, so that memory is reused, and positions up to one beyond the
   longest list.                                                             *)
EXTENDS Linkedlist, TLC

CONSTANTS n1, n2, n3, a, b

(* Nodes are only compared with each other. *)
Addresses == Permutations({n1, n2, n3})
=============================================================================
