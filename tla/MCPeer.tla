------------------------------- MODULE MCPeer -------------------------------
(***************************************************************************)
(* A peer that advertises no metadata, or two pieces of it.  It sends as   *)
(* many keep-alives and other messages unasked as it likes, one of them    *)
(* under way at a time.                                                    *)
(***************************************************************************)
EXTENDS Peer
=============================================================================
