----------------------------- MODULE MCTracker -----------------------------
(* One tracker, the whole protocol: two attempts per exchange, transaction ids
   that may repeat, lost, late, duplicated and refusing answers.             *)
EXTENDS Tracker

CONSTANT t1
=============================================================================
