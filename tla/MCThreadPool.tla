---------------------------- MODULE MCThreadPool ----------------------------
(* Three workers and three jobs; the pool may be destroyed at any moment. *)
EXTENDS ThreadPool
=============================================================================
